---------------------------- MODULE SharedProofs -----------------------------
(***************************************************************************)
(* Proofs about what the goroutines of a service share, for every value of *)
(* the constants: the cache of clients (types, one open client for each    *)
(* key, no client lost, and that it implements AtomicCache), the           *)
(* subscription (every message has one outcome, in order), the pool of     *)
(* goroutines (Wait covers every function), and, from WebSocketProofs, the *)
(* connection among the parts of MCShared.                                 *)
(***************************************************************************)
EXTENDS MCShared, SequenceTheorems, FiniteSetTheorems, WellFoundedInduction, TLAPS

-----------------------------------------------------------------------------
(* The cache of clients. *)
\* What the goroutine between the second look and the store knows.
Making ==
    \A t \in Threads :
        /\ new[t] # None <=> pc[t] = "store"
        /\ pc[t] = "store" => new[t] \in open /\ \A k \in Keys : conn[k] # new[t]
        /\ pc[t] \in {"make", "store"} => conn[key[t]] = None

\* What is in the map: clients of one key each, open but for the one that
\* release has closed and not yet deleted.
Mapped ==
    /\ \A k \in Keys : conn[k] # None =>
         /\ conn[k] \in 1..made
         /\ conn[k] \in open \/ (relPc = "delete" /\ closing = k)
    /\ \A j, k \in Keys : (conn[j] # None /\ conn[j] = conn[k]) => j = k
    /\ relPc \in {"close", "delete"} => conn[closing] # None
    /\ relPc = "delete" => conn[closing] \notin open

\* What a call is about to return is in the map until a release begins.
Answered ==
    relPc = "idle" =>
        \A t \in Threads : (pc[t] \in {"unlock", "done"} /\ got[t] \in Clients) =>
            conn[key[t]] = got[t]

IInv == TypeOK /\ Making /\ Mapped /\ NoneLost /\ Answered

\* Numbers that stand for something else are no clients.
LEMMA Numbers == None \notin Clients /\ Failed \notin Clients /\ None # Failed
BY CacheAssumption DEF None, Failed, Clients

LEMMA InitInv == Init => IInv
BY CacheAssumption DEF Init, IInv, TypeOK, Critical, Making, Mapped, NoneLost, Answered,
    Clients, None

-----------------------------------------------------------------------------
\* The types and the mutual exclusion are preserved by every step.
LEMMA TypeStep == TypeOK /\ [Next]_vars => TypeOK'
<1> SUFFICES ASSUME TypeOK, [Next]_vars PROVE TypeOK'
    OBVIOUS
<1> USE CacheAssumption
    DEF TypeOK, Critical, Goto, Answer, Clients, None, Failed, callVars, relVars
<1>1. ASSUME NEW t \in Threads, Step(t) PROVE TypeOK'
    <2>1. CASE LoadHit(t) BY <2>1 DEF LoadHit
    <2>2. CASE LoadMiss(t) BY <2>2 DEF LoadMiss
    <2>3. CASE Reject(t) BY <2>3 DEF Reject
    <2>4. CASE Lock(t) BY <2>4 DEF Lock
    <2>5. CASE AgainHit(t) BY <2>5 DEF AgainHit
    <2>6. CASE AgainMiss(t) BY <2>6 DEF AgainMiss
    <2>7. CASE Make(t) BY <2>7 DEF Make
    <2>8. CASE MakeFails(t) BY <2>8 DEF MakeFails
    <2>9. CASE Store(t) BY <2>9 DEF Store
    <2>10. CASE Unlock(t) BY <2>10 DEF Unlock
    <2>11. CASE Return(t) BY <2>11 DEF Return
    <2> QED
        BY <1>1, <2>1, <2>2, <2>3, <2>4, <2>5, <2>6, <2>7, <2>8, <2>9, <2>10, <2>11 DEF Step
<1>2. ASSUME NEW t \in Threads, NEW k \in Keys, Call(t, k) PROVE TypeOK'
    BY <1>2 DEF Call
<1>3. CASE ReleaseStep
    <2>1. CASE Release BY <2>1 DEF Release
    <2>2. CASE CloseClient BY <2>2 DEF CloseClient
    <2>3. CASE Delete BY <2>3 DEF Delete
    <2>4. CASE ReleaseReturns BY <2>4 DEF ReleaseReturns
    <2>5. ASSUME NEW k \in Keys, Visit(k) PROVE TypeOK'
        BY <2>5 DEF Visit
    <2> QED BY <1>3, <2>1, <2>2, <2>3, <2>4, <2>5 DEF ReleaseStep
<1>4. CASE UNCHANGED vars
    BY <1>4 DEF vars
<1> QED
    BY <1>1, <1>2, <1>3, <1>4 DEF Next

\* The other conjuncts of the invariant, and their preservation.
Rest == Making /\ Mapped /\ NoneLost /\ Answered

LEMMA RestStep == IInv /\ [Next]_vars => Rest'
<1> SUFFICES ASSUME TypeOK, Rest, [Next]_vars PROVE Rest'
    BY DEF IInv, Rest
<1> USE CacheAssumption, Numbers
    DEF Rest, TypeOK, Critical, Goto, Answer, Clients, None, callVars, relVars
<1>1. ASSUME NEW t \in Threads, LoadHit(t) PROVE Rest'
    <2>1. Making' BY <1>1 DEF LoadHit, Making
    <2>2. Mapped' BY <1>1 DEF LoadHit, Making, Mapped
    <2>3. NoneLost' BY <1>1 DEF LoadHit, Making, NoneLost, KeyOf
    <2>4. Answered' BY <1>1 DEF LoadHit, Making, Mapped, Answered
    <2> QED BY <2>1, <2>2, <2>3, <2>4 DEF Rest
<1>2. ASSUME NEW t \in Threads, LoadMiss(t) PROVE Rest'
    <2>1. Making' BY <1>2 DEF LoadMiss, Making
    <2>2. Mapped' BY <1>2 DEF LoadMiss, Making, Mapped
    <2>3. NoneLost' BY <1>2 DEF LoadMiss, Making, NoneLost, KeyOf
    <2>4. Answered' BY <1>2 DEF LoadMiss, Making, Mapped, Answered
    <2> QED BY <2>1, <2>2, <2>3, <2>4 DEF Rest
<1>3. ASSUME NEW t \in Threads, Reject(t) PROVE Rest'
    <2>1. Making' BY <1>3 DEF Reject, Making
    <2>2. Mapped' BY <1>3 DEF Reject, Making, Mapped
    <2>3. NoneLost' BY <1>3 DEF Reject, Making, NoneLost, KeyOf
    <2>4. Answered' BY <1>3 DEF Reject, Making, Mapped, Answered
    <2> QED BY <2>1, <2>2, <2>3, <2>4 DEF Rest
<1>4. ASSUME NEW t \in Threads, Lock(t) PROVE Rest'
    <2>1. Making' BY <1>4 DEF Lock, Making
    <2>2. Mapped' BY <1>4 DEF Lock, Making, Mapped
    <2>3. NoneLost' BY <1>4 DEF Lock, Making, NoneLost, KeyOf
    <2>4. Answered' BY <1>4 DEF Lock, Making, Mapped, Answered
    <2> QED BY <2>1, <2>2, <2>3, <2>4 DEF Rest
<1>5. ASSUME NEW t \in Threads, AgainHit(t) PROVE Rest'
    <2>1. Making' BY <1>5 DEF AgainHit, Making
    <2>2. Mapped' BY <1>5 DEF AgainHit, Making, Mapped
    <2>3. NoneLost' BY <1>5 DEF AgainHit, Making, NoneLost, KeyOf
    <2>4. Answered' BY <1>5 DEF AgainHit, Making, Mapped, Answered
    <2> QED BY <2>1, <2>2, <2>3, <2>4 DEF Rest
<1>6. ASSUME NEW t \in Threads, AgainMiss(t) PROVE Rest'
    <2>1. Making' BY <1>6 DEF AgainMiss, Making
    <2>2. Mapped' BY <1>6 DEF AgainMiss, Making, Mapped
    <2>3. NoneLost' BY <1>6 DEF AgainMiss, Making, NoneLost, KeyOf
    <2>4. Answered' BY <1>6 DEF AgainMiss, Making, Mapped, Answered
    <2> QED BY <2>1, <2>2, <2>3, <2>4 DEF Rest
<1>7. ASSUME NEW t \in Threads, Make(t) PROVE Rest'
    <2>1. Making' BY <1>7 DEF Make, Making, Mapped
    <2>2. Mapped' BY <1>7 DEF Make, Making, Mapped
    <2>3. NoneLost' BY <1>7 DEF Make, Making, NoneLost, KeyOf
    <2>4. Answered' BY <1>7 DEF Make, Making, Mapped, Answered
    <2> QED BY <2>1, <2>2, <2>3, <2>4 DEF Rest
<1>8. ASSUME NEW t \in Threads, MakeFails(t) PROVE Rest'
    <2>1. Making' BY <1>8 DEF MakeFails, Making
    <2>2. Mapped' BY <1>8 DEF MakeFails, Making, Mapped
    <2>3. NoneLost' BY <1>8 DEF MakeFails, Making, NoneLost, KeyOf
    <2>4. Answered' BY <1>8 DEF MakeFails, Making, Mapped, Answered
    <2> QED BY <2>1, <2>2, <2>3, <2>4 DEF Rest
<1>9. ASSUME NEW t \in Threads, Store(t) PROVE Rest'
    <2>1. Making' BY <1>9 DEF Store, Making
    <2>2. Mapped' BY <1>9 DEF Store, Making, Mapped
    <2>3. NoneLost' BY <1>9 DEF Store, Making, NoneLost, KeyOf
    <2>4. Answered' BY <1>9 DEF Store, Making, Mapped, Answered
    <2> QED BY <2>1, <2>2, <2>3, <2>4 DEF Rest
<1>10. ASSUME NEW t \in Threads, Unlock(t) PROVE Rest'
    <2>1. Making' BY <1>10 DEF Unlock, Making
    <2>2. Mapped' BY <1>10 DEF Unlock, Making, Mapped
    <2>3. NoneLost' BY <1>10 DEF Unlock, Making, NoneLost, KeyOf
    <2>4. Answered' BY <1>10 DEF Unlock, Making, Mapped, Answered
    <2> QED BY <2>1, <2>2, <2>3, <2>4 DEF Rest
<1>11. ASSUME NEW t \in Threads, Return(t) PROVE Rest'
    <2>1. Making' BY <1>11 DEF Return, Making
    <2>2. Mapped' BY <1>11 DEF Return, Making, Mapped
    <2>3. NoneLost' BY <1>11 DEF Return, Making, NoneLost, KeyOf
    <2>4. Answered' BY <1>11 DEF Return, Making, Mapped, Answered
    <2> QED BY <2>1, <2>2, <2>3, <2>4 DEF Rest
<1>12. ASSUME NEW t \in Threads, NEW k \in Keys, Call(t, k) PROVE Rest'
    <2>1. Making' BY <1>12 DEF Call, Making
    <2>2. Mapped' BY <1>12 DEF Call, Mapped
    <2>3. NoneLost' BY <1>12 DEF Call, Making, NoneLost, KeyOf
    <2>4. Answered' BY <1>12 DEF Call, Answered
    <2> QED BY <2>1, <2>2, <2>3, <2>4 DEF Rest
<1>13. CASE Release
    <2>1. Making' BY <1>13 DEF Release, Making, Mapped
    <2>2. Mapped' BY <1>13 DEF Release, Mapped
    <2>3. NoneLost' BY <1>13 DEF Release, Mapped, NoneLost, KeyOf
    <2>4. Answered' BY <1>13 DEF Release, Answered
    <2> QED BY <2>1, <2>2, <2>3, <2>4 DEF Rest
<1>14. CASE CloseClient
    <2>1. Making' BY <1>14 DEF CloseClient, Making, Mapped
    <2>2. Mapped' BY <1>14 DEF CloseClient, Mapped
    <2>3. NoneLost' BY <1>14 DEF CloseClient, Mapped, NoneLost, KeyOf
    <2>4. Answered' BY <1>14 DEF CloseClient, Answered
    <2> QED BY <2>1, <2>2, <2>3, <2>4 DEF Rest
<1>15. CASE Delete
    <2>1. Making' BY <1>15 DEF Delete, Making, Mapped
    <2>2. Mapped' BY <1>15 DEF Delete, Mapped
    <2>3. NoneLost' BY <1>15 DEF Delete, Mapped, NoneLost, KeyOf
    <2>4. Answered' BY <1>15 DEF Delete, Answered
    <2> QED BY <2>1, <2>2, <2>3, <2>4 DEF Rest
<1>16. CASE ReleaseReturns
    <2>1. Making' BY <1>16 DEF ReleaseReturns, Making, Mapped
    <2>2. Mapped' BY <1>16 DEF ReleaseReturns, Mapped
    <2>3. NoneLost' BY <1>16 DEF ReleaseReturns, Mapped, NoneLost, KeyOf
    <2>4. Answered' BY <1>16 DEF ReleaseReturns, Answered
    <2> QED BY <2>1, <2>2, <2>3, <2>4 DEF Rest
<1>17. ASSUME NEW k \in Keys, Visit(k) PROVE Rest'
    BY <1>17 DEF Visit, Rest, Making, Mapped, NoneLost, KeyOf, Answered
<1>18. CASE UNCHANGED vars
    BY <1>18 DEF vars, Rest, Making, Mapped, NoneLost, KeyOf, Answered
<1> QED
    BY <1>1, <1>2, <1>3, <1>4, <1>5, <1>6, <1>7, <1>8, <1>9, <1>10, <1>11, <1>12, <1>13, <1>14, <1>15, <1>16, <1>17, <1>18 DEF Next, Step, ReleaseStep

LEMMA StepInv == IInv /\ [Next]_vars => IInv'
BY TypeStep, RestStep DEF IInv, Rest

LEMMA Invariance == Spec => []IInv
BY InitInv, StepInv, PTL DEF Spec

-----------------------------------------------------------------------------
\* Types, and one goroutine at a time under the lock.
THEOREM TypeCorrect == Spec => []TypeOK
<1>1. IInv => TypeOK
    BY DEF IInv
<1> QED
    BY <1>1, Invariance, PTL

\* A key never has two open clients, whatever calls and release do together.
THEOREM OneClientCorrect == Spec => []OneClient
<1>1. IInv => OneClient
    <2> SUFFICES ASSUME IInv, NEW k \in Keys, NEW c \in open, NEW d \in open,
                        KeyOf(c, k), KeyOf(d, k)
                 PROVE  c = d
        BY DEF OneClient
    <2> USE DEF IInv, TypeOK, Making, Critical
    <2>1. c # None /\ d # None
        BY CacheAssumption DEF None
    <2>2. CASE conn[k] # None
        BY <2>1, <2>2 DEF KeyOf
    <2>3. CASE conn[k] = None
        BY <2>1, <2>3 DEF KeyOf
    <2> QED BY <2>2, <2>3
<1> QED
    BY <1>1, Invariance, PTL

\* Every open client is in the map or about to be stored.
THEOREM NoneLostCorrect == Spec => []NoneLost
<1>1. IInv => NoneLost
    BY DEF IInv
<1> QED
    BY <1>1, Invariance, PTL

\* Before a release a call returns the open client of its key.
THEOREM AnswersCorrect == Spec => []AnswersOpen
<1>1. IInv => AnswersOpen
    <2> SUFFICES ASSUME IInv, relPc = "idle", NEW t \in Threads,
                        pc[t] = "done", got[t] \in Clients
                 PROVE  got[t] \in open /\ conn[key[t]] = got[t]
        BY DEF AnswersOpen
    <2>1. conn[key[t]] = got[t]
        BY DEF IInv, Answered
    <2>2. conn[key[t]] # None /\ key[t] \in Keys
        BY <2>1, Numbers DEF IInv, TypeOK
    <2> QED BY <2>1, <2>2 DEF IInv, Mapped
<1> QED
    BY <1>1, Invariance, PTL

-----------------------------------------------------------------------------
\* The clients that have been stored, the refinement's view of used.
Stored == (1..made) \ {new[t] : t \in Threads}

LEMMA AtomicInit == Init => Atomic!Init
BY CacheAssumption DEF Init, Atomic!Init

\* Making a client does not change what is stored; storing it adds it.
LEMMA StoredByMake ==
    ASSUME IInv, NEW t \in Threads, Make(t) PROVE Stored' = Stored
<1> USE DEF IInv, TypeOK, Making, Goto, Clients, None
<1>1. made' = made + 1 /\ new' = [new EXCEPT ![t] = made + 1] /\ new[t] = None
    BY DEF Make
<1>2. \A c : c \in Stored' <=> c \in Stored
    BY <1>1, CacheAssumption DEF Stored
<1> QED
    BY <1>2 DEF Stored

LEMMA StoredByStore ==
    ASSUME IInv, NEW t \in Threads, Store(t)
    PROVE  Stored' = Stored \cup {new[t]} /\ new[t] \notin Stored /\ new[t] \in Clients
<1> USE DEF IInv, TypeOK, Making, Goto, Critical, Clients, None
<1>1. made' = made /\ new' = [new EXCEPT ![t] = None] /\ pc[t] = "store"
    BY DEF Store
<1>2. new[t] \in 1..made /\ new[t] \in Clients
    BY <1>1, CacheAssumption
<1>3. \A u \in Threads : u # t => new[u] = None
    BY <1>1
<1>4. \A c : c \in Stored' <=> c \in Stored \cup {new[t]}
    BY <1>1, <1>2, <1>3, CacheAssumption DEF Stored
<1> QED
    BY <1>2, <1>4 DEF Stored

\* Every other step leaves it as it is; each step is one of AtomicCache.
LEMMA AtomicStep == IInv /\ [Next]_vars => [Atomic!Next]_(Atomic!vars)
<1> SUFFICES ASSUME IInv, [Next]_vars PROVE Atomic!Next \/ UNCHANGED Atomic!vars
    OBVIOUS
<1> USE DEF IInv, TypeOK, Goto, Answer, callVars, relVars
<1>1. ASSUME NEW t \in Threads, NEW k \in Keys, Call(t, k) PROVE Atomic!Next
    BY <1>1 DEF Call, Atomic!Next, Atomic!Ask
<1>2. ASSUME NEW t \in Threads, LoadHit(t) \/ AgainHit(t) PROVE Atomic!Next
    <2>1. Atomic!Hit(t, key[t])
        BY <1>2 DEF LoadHit, AgainHit, Atomic!Hit
    <2> QED BY <2>1 DEF Atomic!Next
<1>3. ASSUME NEW t \in Threads, Reject(t) \/ MakeFails(t) PROVE Atomic!Next
    <2>1. conn[key[t]] = None
        BY <1>3 DEF Reject, MakeFails, Making
    <2>2. Atomic!Fail(t, key[t])
        BY <1>3, <2>1 DEF Reject, MakeFails, Atomic!Fail
    <2> QED BY <2>2 DEF Atomic!Next
<1>4. ASSUME NEW t \in Threads,
             LoadMiss(t) \/ Lock(t) \/ AgainMiss(t) \/ Unlock(t) \/ Return(t)
      PROVE  UNCHANGED Atomic!vars
    BY <1>4 DEF LoadMiss, Lock, AgainMiss, Unlock, Return, Atomic!vars
<1>5. ASSUME NEW t \in Threads, Make(t) PROVE UNCHANGED Atomic!vars
    <2>1. conn' = conn /\ got' = got
        BY <1>5 DEF Make
    <2>2. Stored' = Stored
        BY <1>5, StoredByMake
    <2> QED BY <2>1, <2>2 DEF Atomic!vars, Stored
<1>6. ASSUME NEW t \in Threads, Store(t) PROVE Atomic!Next
    <2>1. Stored' = Stored \cup {new[t]} /\ new[t] \in Clients \ Stored
        BY <1>6, StoredByStore
    <2>2. PICK k \in Keys : k = key[t]
        OBVIOUS
    <2>3. conn[k] = None
        BY <1>6, <2>2 DEF Store, Making
    <2>4. Atomic!Create(t, k)
        BY <1>6, <2>1, <2>2, <2>3 DEF Store, Atomic!Create, Stored
    <2> QED BY <2>4 DEF Atomic!Next
<1>7. CASE ReleaseStep
    <2>1. CASE Delete
        <3>1. Atomic!Evict(closing)
            BY <2>1 DEF Delete, Atomic!Evict
        <3> QED BY <3>1 DEF Atomic!Next
    <2>2. CASE Release \/ CloseClient \/ ReleaseReturns \/ \E k \in Keys : Visit(k)
        BY <2>2 DEF Release, CloseClient, ReleaseReturns, Visit, Atomic!vars
    <2> QED BY <1>7, <2>1, <2>2 DEF ReleaseStep
<1>8. CASE UNCHANGED vars
    BY <1>8 DEF vars, Atomic!vars
<1> QED
    BY <1>1, <1>2, <1>3, <1>4, <1>5, <1>6, <1>7, <1>8 DEF Next, Step

\* The cache implements AtomicCache for any sets of goroutines and keys.
THEOREM AtomicAnswersCorrect == Spec => AtomicAnswers
BY AtomicInit, AtomicStep, Invariance, PTL DEF Spec, AtomicAnswers, Atomic!Spec

-----------------------------------------------------------------------------
(* The subscription. *)
\* What the theorems ask of the sizes of the channels.
ChannelSizes == ChSize \in Nat /\ ErrSize \in Nat /\ MaxMessages \in Nat

Good == subGot \o ch
Bad == errs \o errCh
Held == IF subPc \in {"parse", "send", "sendErr"} THEN {msg} ELSE {}
All == Subscriber!Messages \cup {Subscriber!CloseError}

\* What is still to come is newer than what has been taken, and the message at
\* the goroutine newer than the ones it has dealt with.
Newest ==
    /\ Subscriber!InOrder(rec)
    /\ \A i \in DOMAIN rec : rec[i] <= published
    /\ \A m \in Subscriber!Range(taken) :
         m <= published /\ \A i \in DOMAIN rec : m < rec[i]
    /\ \A m \in Held : m # Subscriber!CloseError
    /\ \A m \in Held, n \in Subscriber!Range(Good) \cup Subscriber!Range(Bad) : n < m

SubscriberInv == Subscriber!TypeOK /\ Newest /\ Subscriber!Accounted

LEMMA AccountedIs ==
    Subscriber!Accounted <=>
        /\ Subscriber!InOrder(Good) /\ Subscriber!InOrder(Bad)
        /\ Subscriber!Range(Good) \cap Subscriber!Range(Bad) = {}
        /\ (Subscriber!Range(Good) \cup Subscriber!Range(Bad)) \cap Held = {}
        /\ (Subscriber!Range(Good) \cup Subscriber!Range(Bad) \cup Held) \ {Subscriber!CloseError}
              = Subscriber!Range(taken)
BY DEF Subscriber!Accounted, Good, Bad, Held

\* The same in the next state.
LEMMA AccountedThen ==
    ASSUME Subscriber!InOrder(Good'), Subscriber!InOrder(Bad'),
           Subscriber!Range(Good') \cap Subscriber!Range(Bad') = {},
           (Subscriber!Range(Good') \cup Subscriber!Range(Bad')) \cap Held' = {},
           (Subscriber!Range(Good') \cup Subscriber!Range(Bad') \cup Held') \ {0}
              = Subscriber!Range(taken')
    PROVE  Subscriber!Accounted'
<1>1. Subscriber!CloseError = 0
    BY DEF Subscriber!CloseError
<1> QED
    BY <1>1 DEF Subscriber!Accounted, Subscriber!InOrder, Subscriber!Range, Good, Bad, Held,
        Subscriber!CloseError

\* A sequence is a function on 1..Len.
LEMMA Shape ==
    ASSUME NEW S, NEW s \in Seq(S)
    PROVE  Len(s) \in Nat /\ DOMAIN s = 1..Len(s) /\ \A i \in DOMAIN s : i \in Nat /\ s[i] \in S
BY LenProperties, ElementOfSeq

LEMMA ValuesIn == \A S : \A s \in Seq(S) : Subscriber!Range(s) \subseteq S
BY Shape DEF Subscriber!Range

\* A value that is sent comes last of what the subscriber reads and has read.
LEMMA SentLast ==
    ASSUME NEW S, NEW s \in Seq(S), NEW t \in Seq(S), NEW e \in S
    PROVE  s \o Append(t, e) = Append(s \o t, e)
<1>1. <<e>> \in Seq(S) /\ Append(t, e) = t \o <<e>>
    BY AppendIsConcat
<1>2. s \o t \in Seq(S) /\ Append(s \o t, e) = (s \o t) \o <<e>>
    BY ConcatProperties, AppendIsConcat
<1> QED
    BY <1>1, <1>2, ConcatAssociative

\* Reading from a channel leaves the two together as they were.
LEMMA ReadKeeps ==
    ASSUME NEW S, NEW s \in Seq(S), NEW t \in Seq(S), t # <<>>
    PROVE  Append(s, Head(t)) \o Tail(t) = s \o t
<1>1. Head(t) \in S /\ Tail(t) \in Seq(S) /\ t = <<Head(t)>> \o Tail(t)
    <2>1. Head(t) = t[1] /\ Len(t) \in Nat \ {0}
        BY EmptySeq
    <2>2. SubSeq(t, 1, Len(t)) = <<t[1]>> \o SubSeq(t, 2, Len(t))
        BY <2>1, SubSeqRecursiveFirst
    <2> QED
        BY <2>1, <2>2, SubSeqFull, TailIsSubSeq, HeadTailProperties
<1>2. Append(s, Head(t)) = s \o <<Head(t)>> /\ <<Head(t)>> \in Seq(S)
    BY <1>1, AppendIsConcat
<1> QED
    BY <1>1, <1>2, ConcatAssociative

\* What appending does to the values and to their order.
LEMMA AppendedRange ==
    ASSUME NEW S, NEW s \in Seq(S), NEW e \in S
    PROVE  Subscriber!Range(Append(s, e)) = Subscriber!Range(s) \cup {e}
BY AppendProperties, LenProperties DEF Subscriber!Range

LEMMA AppendedOrder ==
    ASSUME NEW s \in Seq(All), NEW e \in All, Subscriber!InOrder(s),
           e # Subscriber!CloseError => \A m \in Subscriber!Range(s) : m < e
    PROVE  Subscriber!InOrder(Append(s, e))
<1>1. /\ DOMAIN Append(s, e) = 1..(Len(s) + 1) /\ DOMAIN s = 1..Len(s) /\ Len(s) \in Nat
      /\ \A i \in 1..Len(s) : Append(s, e)[i] = s[i]
      /\ Append(s, e)[Len(s) + 1] = e
    BY AppendProperties, LenProperties
<1> QED
    BY <1>1 DEF Subscriber!InOrder, Subscriber!Range

LEMMA AllIs == ASSUME ChannelSizes PROVE All = 0..MaxMessages /\ Subscriber!CloseError = 0
BY DEF ChannelSizes, All, Subscriber!Messages, Subscriber!CloseError

LEMMA SubscriberInit == ChannelSizes /\ Subscriber!Init => SubscriberInv
<1> SUFFICES ASSUME ChannelSizes, Subscriber!Init PROVE SubscriberInv
    OBVIOUS
<1>1. \A S : <<>> \in Seq(S)
    BY EmptySeq
<1>2. Len(<<>>) = 0
    BY EmptySeq
<1>3. Subscriber!TypeOK
    <2>1. recOpen \in BOOLEAN /\ cancelled \in BOOLEAN /\ chOpen \in BOOLEAN /\ errOpen \in BOOLEAN
        BY DEF Subscriber!Init
    <2>2. /\ rec = <<>> /\ taken = <<>> /\ ch = <<>> /\ errCh = <<>> /\ subGot = <<>> /\ errs = <<>>
          /\ published = 0 /\ subPc = "select" /\ msg = Subscriber!CloseError
          /\ reader \in {"example", "both"}
        BY DEF Subscriber!Init
    <2> QED
        BY <1>1, <1>2, <2>1, <2>2 DEF ChannelSizes, Subscriber!TypeOK
<1>4. Good = <<>> /\ Bad = <<>>
    BY <1>1, ConcatEmptySeq DEF Subscriber!Init, Good, Bad
<1>5. Held = {} /\ taken = <<>> /\ rec = <<>>
    BY DEF Subscriber!Init, Held
<1>6. Subscriber!Range(<<>>) = {} /\ Subscriber!InOrder(<<>>) /\ DOMAIN <<>> = {}
    BY DEF Subscriber!Range, Subscriber!InOrder
<1> QED
    BY <1>3, <1>4, <1>5, <1>6, AccountedIs DEF SubscriberInv, Newest

\* Accounted depends on Good, Bad, Held and taken only.
LEMMA AccountedKept ==
    ASSUME Subscriber!Accounted, Good' = Good, Bad' = Bad, Held' = Held, taken' = taken
    PROVE  Subscriber!Accounted'
<1>1. Subscriber!CloseError = 0
    BY DEF Subscriber!CloseError
<1>2. /\ Subscriber!InOrder(Good') /\ Subscriber!InOrder(Bad')
      /\ Subscriber!Range(Good') \cap Subscriber!Range(Bad') = {}
      /\ (Subscriber!Range(Good') \cup Subscriber!Range(Bad')) \cap Held' = {}
      /\ (Subscriber!Range(Good') \cup Subscriber!Range(Bad') \cup Held') \ {0}
           = Subscriber!Range(taken')
    BY <1>1, AccountedIs
<1> QED
    BY <1>2, AccountedThen

\* A step that deals with no message: the invariant follows from what it leaves.
LEMMA NothingMoves ==
    ASSUME SubscriberInv, Subscriber!TypeOK',
           UNCHANGED <<published, rec, taken>>, Good' = Good, Bad' = Bad, Held' = Held
    PROVE  SubscriberInv'
<1>1. Newest'
    BY DEF SubscriberInv, Newest, Subscriber!InOrder, Subscriber!Range
<1>2. Subscriber!Accounted'
    BY AccountedKept DEF SubscriberInv
<1> QED
    BY <1>1, <1>2 DEF SubscriberInv

LEMMA GoodIsAll == ASSUME NEW s \in Seq(Subscriber!Messages) PROVE s \in Seq(All)
BY ElementOfSeq, SeqDef DEF All

LEMMA SubscriberTypes ==
    ASSUME ChannelSizes, SubscriberInv
    PROVE  /\ Subscriber!Messages \subseteq Nat \ {0} /\ All = Subscriber!Messages \cup {0}
           /\ Subscriber!CloseError = 0 /\ published \in Nat
           /\ rec \in Seq(Subscriber!Messages) /\ taken \in Seq(Subscriber!Messages)
           /\ subGot \in Seq(Subscriber!Messages) /\ ch \in Seq(Subscriber!Messages)
           /\ errs \in Seq(All) /\ errCh \in Seq(All) /\ msg \in All
           /\ Good \in Seq(Subscriber!Messages) /\ Bad \in Seq(All)
<1>1. /\ rec \in Seq(Subscriber!Messages) /\ taken \in Seq(Subscriber!Messages)
      /\ subGot \in Seq(Subscriber!Messages) /\ ch \in Seq(Subscriber!Messages)
      /\ errs \in Seq(All) /\ errCh \in Seq(All) /\ msg \in All
    BY DEF SubscriberInv, Subscriber!TypeOK, All
<1>2. Good \in Seq(Subscriber!Messages) /\ Bad \in Seq(All)
    BY <1>1, ConcatProperties DEF Good, Bad
<1>3. published \in Nat
    BY DEF SubscriberInv, Subscriber!TypeOK, ChannelSizes
<1>4. Subscriber!Messages \subseteq Nat \ {0} /\ All = Subscriber!Messages \cup {0}
      /\ Subscriber!CloseError = 0
    BY DEF Subscriber!Messages, All, Subscriber!CloseError
<1> QED
    BY <1>1, <1>2, <1>3, <1>4

\* A message is published, and reaches the PubSub or not.
LEMMA PublishStep ==
    ASSUME ChannelSizes, SubscriberInv, Subscriber!PublishMessage
    PROVE  SubscriberInv'
<1>1. /\ published' = published + 1 /\ published' \in 0..MaxMessages
      /\ rec' = rec \/ rec' = Append(rec, published')
      /\ UNCHANGED <<recOpen, cancelled, subPc, msg, taken, ch, chOpen, errCh, errOpen,
                     reader, subGot, errs>>
    BY SubscriberTypes DEF ChannelSizes, Subscriber!PublishMessage,
        Subscriber!subVars, Subscriber!chanVars, Subscriber!readVars
<1>2. /\ rec \in Seq(Subscriber!Messages) /\ taken \in Seq(Subscriber!Messages)
      /\ published \in Nat /\ Subscriber!Messages \subseteq Nat /\ Subscriber!CloseError = 0
    BY SubscriberTypes
<1>3. published' \in Subscriber!Messages
    BY <1>1, <1>2 DEF Subscriber!Messages
<1>4. rec' \in Seq(Subscriber!Messages)
    BY <1>1, <1>2, <1>3, AppendProperties
<1>5. Subscriber!TypeOK'
    BY <1>1, <1>4 DEF SubscriberInv, Subscriber!TypeOK, Subscriber!Messages
<1>6. /\ \A i \in DOMAIN rec : i \in Nat /\ rec[i] \in Nat
      /\ \A i \in DOMAIN rec' : i \in Nat
      /\ \A m \in Subscriber!Range(taken) : m \in Nat
    BY <1>2, <1>4, Shape DEF Subscriber!Range
<1>7. \A i \in DOMAIN rec' : \/ i \in DOMAIN rec /\ rec'[i] = rec[i]
                             \/ rec'[i] = published' /\ \A j \in DOMAIN rec' : j <= i
    <2>1. CASE rec' = rec
        BY <2>1
    <2>2. CASE rec' = Append(rec, published')
        <3>1. /\ DOMAIN rec = 1..Len(rec) /\ Len(rec) \in Nat
              /\ DOMAIN rec' = 1..(Len(rec) + 1)
              /\ \A i \in 1..Len(rec) : rec'[i] = rec[i]
              /\ rec'[Len(rec) + 1] = published'
            BY <1>2, <1>3, <1>4, <2>2, Shape, AppendProperties
        <3> QED
            BY <3>1
    <2> QED
        BY <1>1, <2>1, <2>2
<1>8. /\ \A i \in DOMAIN rec : rec[i] <= published
      /\ \A i, j \in DOMAIN rec : i < j /\ rec[j] # 0 => rec[i] < rec[j]
      /\ \A m \in Subscriber!Range(taken) :
            m <= published /\ \A i \in DOMAIN rec : m < rec[i]
    BY <1>2 DEF SubscriberInv, Newest, Subscriber!InOrder
<1>9. /\ \A i, j \in DOMAIN rec' : i < j /\ rec'[j] # 0 => rec'[i] < rec'[j]
      /\ \A i \in DOMAIN rec' : rec'[i] <= published'
    <2>1. \A i \in DOMAIN rec : rec[i] < published'
        BY <1>1, <1>2, <1>6, <1>8
    <2>2. ASSUME NEW i \in DOMAIN rec', NEW j \in DOMAIN rec', i < j, rec'[j] # 0
          PROVE  rec'[i] < rec'[j]
        <3>1. i \in DOMAIN rec /\ rec'[i] = rec[i]
            BY <1>6, <1>7, <2>2
        <3> QED
            BY <1>7, <1>8, <2>1, <2>2, <3>1
    <2>3. \A i \in DOMAIN rec' : rec'[i] <= published'
        BY <1>1, <1>2, <1>6, <1>7, <2>1
    <2> QED
        BY <2>2, <2>3
<1>10. \A m \in Subscriber!Range(taken) :
          m <= published' /\ \A i \in DOMAIN rec' : m < rec'[i]
    BY <1>1, <1>2, <1>6, <1>7, <1>8
<1>11. Good' = Good /\ Bad' = Bad /\ Held' = Held /\ taken' = taken
    BY <1>1 DEF Good, Bad, Held
<1>12. Newest'
    BY <1>2, <1>9, <1>10, <1>11 DEF SubscriberInv, Newest, Subscriber!Range,
        Subscriber!InOrder, Subscriber!CloseError
<1>13. Subscriber!Accounted'
    BY <1>11, AccountedKept DEF SubscriberInv
<1> QED
    BY <1>5, <1>12, <1>13 DEF SubscriberInv

\* The head of the PubSub's channel and what is left of it.
LEMMA HeadAndTail ==
    ASSUME NEW S, NEW s \in Seq(S), s # <<>>
    PROVE  /\ Head(s) \in S /\ Tail(s) \in Seq(S)
           /\ 1 \in DOMAIN s /\ Head(s) = s[1]
           /\ \A i \in DOMAIN Tail(s) : i \in Nat /\ i + 1 \in DOMAIN s /\ Tail(s)[i] = s[i + 1] /\ i > 0
<1>1. Len(s) \in Nat \ {0} /\ Head(s) = s[1] /\ DOMAIN s = 1..Len(s)
    BY EmptySeq, Shape
<1>2. /\ Head(s) \in S /\ Tail(s) \in Seq(S) /\ Len(Tail(s)) = Len(s) - 1
      /\ \A i \in 1..Len(Tail(s)) : Tail(s)[i] = s[i + 1]
    BY HeadTailProperties
<1>3. DOMAIN Tail(s) = 1..Len(Tail(s))
    BY <1>2, Shape
<1> QED
    BY <1>1, <1>2, <1>3

\* The goroutine receives the next message, which is newer than all before it.
LEMMA SelectStep ==
    ASSUME ChannelSizes, SubscriberInv, Subscriber!SelectMessage
    PROVE  SubscriberInv'
<1>1. /\ subPc = "select" /\ subPc' = "parse"
      /\ rec # <<>> /\ msg' = Head(rec) /\ rec' = Tail(rec) /\ taken' = Append(taken, msg')
      /\ UNCHANGED <<published, recOpen, cancelled, ch, chOpen, errCh, errOpen, reader, subGot, errs>>
    BY DEF Subscriber!SelectMessage, Subscriber!Goto, Subscriber!chanVars, Subscriber!readVars
<1>2. /\ rec \in Seq(Subscriber!Messages) /\ taken \in Seq(Subscriber!Messages)
      /\ published \in Nat /\ Subscriber!Messages \subseteq Nat \ {0} /\ Subscriber!CloseError = 0
      /\ Good \in Seq(Subscriber!Messages) /\ Bad \in Seq(All) /\ All = Subscriber!Messages \cup {0}
    BY SubscriberTypes
<1>3. /\ msg' \in Subscriber!Messages /\ rec' \in Seq(Subscriber!Messages)
      /\ 1 \in DOMAIN rec /\ msg' = rec[1]
      /\ \A i \in DOMAIN rec' : i \in Nat /\ i + 1 \in DOMAIN rec /\ rec'[i] = rec[i + 1] /\ i > 0
    BY <1>1, <1>2, HeadAndTail
<1>4. /\ \A i \in DOMAIN rec : i \in Nat /\ rec[i] \in Nat \ {0}
      /\ Subscriber!Range(taken) \subseteq Nat /\ Subscriber!Range(Good) \subseteq Nat \ {0}
      /\ Subscriber!Range(Bad) \subseteq Nat
    <2>1. \A i \in DOMAIN rec : i \in Nat /\ rec[i] \in Nat \ {0}
        BY <1>2, Shape
    <2>2. /\ Subscriber!Range(taken) \subseteq Subscriber!Messages
          /\ Subscriber!Range(Good) \subseteq Subscriber!Messages
          /\ Subscriber!Range(Bad) \subseteq All
        BY <1>2, ValuesIn
    <2>3. All \subseteq Nat
        BY <1>2
    <2>4. /\ Subscriber!Range(taken) \subseteq Nat /\ Subscriber!Range(Good) \subseteq Nat \ {0}
          /\ Subscriber!Range(Bad) \subseteq Nat
        BY <1>2, <2>2, <2>3
    <2> QED
        BY <2>1, <2>4
<1>5. taken' \in Seq(Subscriber!Messages)
      /\ Subscriber!Range(taken') = Subscriber!Range(taken) \cup {msg'}
    BY <1>1, <1>2, <1>3, AppendProperties, AppendedRange
<1>6. Subscriber!TypeOK'
    <2>1. subPc' \in {"select", "parse", "send", "sendErr", "subClose", "closeErr", "closeErrCh",
                       "closeCh", "done"}
        BY <1>1
    <2> QED
        BY <1>1, <1>3, <1>5, <2>1 DEF SubscriberInv, Subscriber!TypeOK
<1>7. Good' = Good /\ Bad' = Bad /\ Held = {} /\ Held' = {msg'}
    BY <1>1 DEF Good, Bad, Held
<1>8. /\ \A i \in DOMAIN rec : rec[i] <= published
      /\ \A i, j \in DOMAIN rec : i < j => rec[i] < rec[j]
      /\ \A m \in Subscriber!Range(taken) :
            m <= published /\ \A i \in DOMAIN rec : m < rec[i]
    BY <1>2, <1>4 DEF SubscriberInv, Newest, Subscriber!InOrder
<1>9. /\ \A i, j \in DOMAIN rec' : i < j => rec'[i] < rec'[j]
      /\ \A i \in DOMAIN rec' : rec'[i] <= published' /\ msg' < rec'[i]
    <2>1. ASSUME NEW i \in DOMAIN rec', NEW j \in DOMAIN rec', i < j
          PROVE  rec'[i] < rec'[j]
        <3>1. i + 1 < j + 1
            BY <1>3, <2>1
        <3> QED
            BY <1>3, <1>8, <3>1
    <2>2. ASSUME NEW i \in DOMAIN rec' PROVE rec'[i] <= published' /\ msg' < rec'[i]
        <3>1. 1 < i + 1
            BY <1>3
        <3> QED
            BY <1>1, <1>3, <1>8, <3>1
    <2> QED
        BY <2>1, <2>2
<1>10. /\ \A m \in Subscriber!Range(taken') : m <= published'
       /\ \A m \in Subscriber!Range(taken'), i \in DOMAIN rec' : m < rec'[i]
    <2>1. ASSUME NEW m \in Subscriber!Range(taken')
          PROVE  m <= published' /\ \A i \in DOMAIN rec' : m < rec'[i]
        <3>1. CASE m = msg'
            BY <1>1, <1>3, <1>8, <1>9, <3>1
        <3>2. CASE m \in Subscriber!Range(taken)
            BY <1>1, <1>3, <1>8, <3>2
        <3> QED
            BY <1>5, <2>1, <3>1, <3>2
    <2> QED
        BY <2>1
<1>11. /\ Subscriber!InOrder(Good) /\ Subscriber!InOrder(Bad)
       /\ Subscriber!Range(Good) \cap Subscriber!Range(Bad) = {}
       /\ (Subscriber!Range(Good) \cup Subscriber!Range(Bad)) \ {0} = Subscriber!Range(taken)
    BY <1>2, <1>7, AccountedIs DEF SubscriberInv
<1>12. \A n \in Subscriber!Range(Good) \cup Subscriber!Range(Bad) : n < msg'
    BY <1>3, <1>4, <1>8, <1>11
<1>13. Newest'
    <2>1. Subscriber!InOrder(rec')
        BY <1>9 DEF Subscriber!InOrder
    <2>2. msg' # 0
        BY <1>3, <1>4
    <2> QED
        BY <1>2, <1>7, <1>9, <1>10, <1>12, <2>1, <2>2
        DEF Newest, Subscriber!InOrder, Subscriber!Range, Subscriber!CloseError
<1>14. Subscriber!Accounted'
    <2>1. msg' \notin Subscriber!Range(Good) \cup Subscriber!Range(Bad) /\ msg' # 0
        BY <1>3, <1>4, <1>12
    <2>2. (Subscriber!Range(Good) \cup Subscriber!Range(Bad)) \cap Held' = {}
        BY <1>7, <2>1
    <2>3. (Subscriber!Range(Good) \cup Subscriber!Range(Bad) \cup Held') \ {0}
             = Subscriber!Range(taken')
        BY <1>5, <1>7, <1>11, <2>1
    <2> QED
        BY <1>2, <1>7, <1>11, <2>2, <2>3, AccountedThen
<1> QED
    BY <1>6, <1>13, <1>14 DEF SubscriberInv

\* A value goes to one of the channels: what the goroutine holds then is e.
LEMMA SendStep ==
    ASSUME ChannelSizes, SubscriberInv, Subscriber!Send
    PROVE  SubscriberInv'
<1>1. /\ subPc = "send" /\ subPc' = "select" /\ Len(ch) < ChSize /\ ch' = Append(ch, msg)
      /\ UNCHANGED <<published, rec, recOpen, cancelled, msg, taken, chOpen, errCh, errOpen,
                     reader, subGot, errs>>
    BY DEF Subscriber!Send, Subscriber!Goto, Subscriber!pubVars, Subscriber!readVars
<1>2. /\ ch \in Seq(Subscriber!Messages) /\ subGot \in Seq(Subscriber!Messages)
      /\ Subscriber!Messages \subseteq Nat \ {0} /\ Subscriber!CloseError = 0
      /\ Good \in Seq(Subscriber!Messages) /\ Bad \in Seq(All)
      /\ All = Subscriber!Messages \cup {0} /\ msg \in All
    BY SubscriberTypes
<1>3. Held = {msg} /\ Held' = {} /\ Bad' = Bad
    BY <1>1 DEF Held, Bad
<1>4. /\ msg # 0 /\ msg \in Subscriber!Messages
      /\ \A n \in Subscriber!Range(Good) \cup Subscriber!Range(Bad) : n < msg
    BY <1>2, <1>3 DEF SubscriberInv, Newest
<1>5. Good' = Append(Good, msg)
    BY <1>1, <1>2, <1>4, SentLast DEF Good
<1>6. Subscriber!Range(Good') = Subscriber!Range(Good) \cup {msg}
    BY <1>2, <1>4, <1>5, AppendedRange
<1>7. /\ Subscriber!InOrder(Good) /\ Subscriber!InOrder(Bad)
      /\ Subscriber!Range(Good) \cap Subscriber!Range(Bad) = {}
      /\ (Subscriber!Range(Good) \cup Subscriber!Range(Bad)) \cap {msg} = {}
      /\ (Subscriber!Range(Good) \cup Subscriber!Range(Bad) \cup {msg}) \ {0} = Subscriber!Range(taken)
    BY <1>2, <1>3, AccountedIs DEF SubscriberInv
<1>8. Subscriber!InOrder(Good')
    <2>1. Good \in Seq(All)
        BY <1>2, GoodIsAll
    <2> QED
        BY <1>2, <1>4, <1>5, <1>7, <2>1, AppendedOrder
<1>9. Subscriber!Accounted'
    <2>1. taken' = taken
        BY <1>1
    <2>2. Subscriber!Range(Good') \cap Subscriber!Range(Bad') = {}
        BY <1>3, <1>6, <1>7
    <2>3. (Subscriber!Range(Good') \cup Subscriber!Range(Bad') \cup Held') \ {0}
             = Subscriber!Range(taken')
        BY <1>3, <1>6, <1>7, <2>1
    <2> QED
        BY <1>3, <1>7, <1>8, <2>2, <2>3, AccountedThen
<1>10. Newest'
    BY <1>1, <1>3 DEF SubscriberInv, Newest, Subscriber!InOrder, Subscriber!Range
<1>11. Subscriber!TypeOK'
    <2>1. ch' \in Seq(Subscriber!Messages) /\ Len(ch') = Len(ch) + 1
        BY <1>1, <1>2, <1>4, AppendProperties
    <2>2. Len(ch') <= ChSize
        BY <1>1, <1>2, <2>1, Shape DEF ChannelSizes
    <2>3. subPc' \in {"select", "parse", "send", "sendErr", "subClose", "closeErr", "closeErrCh",
                       "closeCh", "done"}
        BY <1>1
    <2> QED
        BY <1>1, <2>1, <2>2, <2>3 DEF SubscriberInv, Subscriber!TypeOK
<1> QED
    BY <1>9, <1>10, <1>11 DEF SubscriberInv

LEMMA SendErrorStep ==
    ASSUME ChannelSizes, SubscriberInv, Subscriber!SendError \/ Subscriber!SendCloseError
    PROVE  SubscriberInv'
<1> DEFINE e == IF subPc = "sendErr" THEN msg ELSE 0
<1>1. /\ \/ subPc = "sendErr" /\ subPc' = "select"
         \/ subPc = "closeErr" /\ subPc' = "closeErrCh"
      /\ Len(errCh) < ErrSize /\ errCh' = Append(errCh, e)
      /\ UNCHANGED <<published, rec, recOpen, cancelled, msg, taken, ch, chOpen, errOpen,
                     reader, subGot, errs>>
    BY DEF Subscriber!SendError, Subscriber!SendCloseError, Subscriber!SendTo,
        Subscriber!pubVars, Subscriber!readVars, Subscriber!CloseError
<1>2. /\ errCh \in Seq(All) /\ errs \in Seq(All)
      /\ Subscriber!Messages \subseteq Nat \ {0} /\ Subscriber!CloseError = 0
      /\ Good \in Seq(Subscriber!Messages) /\ Bad \in Seq(All)
      /\ All = Subscriber!Messages \cup {0} /\ msg \in All
    BY SubscriberTypes
<1>3. Held' = {} /\ Good' = Good /\ taken' = taken
    BY <1>1 DEF Held, Good
<1>4. /\ e \in All
      /\ Held = {e} \ {0}
      /\ e # 0 => \A n \in Subscriber!Range(Good) \cup Subscriber!Range(Bad) : n < e
    BY <1>1, <1>2 DEF SubscriberInv, Newest, Held
<1> HIDE DEF e
<1>5. Bad' = Append(Bad, e)
    BY <1>1, <1>2, <1>4, SentLast DEF Bad
<1>6. Subscriber!Range(Bad') = Subscriber!Range(Bad) \cup {e}
    BY <1>2, <1>4, <1>5, AppendedRange
<1>7. /\ Subscriber!InOrder(Good) /\ Subscriber!InOrder(Bad)
      /\ Subscriber!Range(Good) \cap Subscriber!Range(Bad) = {}
      /\ (Subscriber!Range(Good) \cup Subscriber!Range(Bad)) \cap Held = {}
      /\ (Subscriber!Range(Good) \cup Subscriber!Range(Bad) \cup Held) \ {0} = Subscriber!Range(taken)
    BY <1>2, AccountedIs DEF SubscriberInv
<1>8. Subscriber!InOrder(Bad')
    BY <1>2, <1>4, <1>5, <1>7, AppendedOrder
<1>9. Subscriber!Accounted'
    <2>1. 0 \notin Subscriber!Range(Good)
        BY <1>2, ValuesIn
    <2>2. Subscriber!Range(Good') \cap Subscriber!Range(Bad') = {}
        BY <1>3, <1>4, <1>6, <1>7, <2>1
    <2>3. (Subscriber!Range(Good') \cup Subscriber!Range(Bad') \cup Held') \ {0}
             = Subscriber!Range(taken')
        BY <1>3, <1>4, <1>6, <1>7
    <2> QED
        BY <1>3, <1>7, <1>8, <2>2, <2>3, AccountedThen
<1>10. Newest'
    BY <1>1, <1>3 DEF SubscriberInv, Newest, Subscriber!InOrder, Subscriber!Range
<1>11. Subscriber!TypeOK'
    <2>1. errCh' \in Seq(All) /\ Len(errCh') = Len(errCh) + 1
        BY <1>1, <1>2, <1>4, AppendProperties
    <2>2. Len(errCh') <= ErrSize
        BY <1>1, <1>2, <2>1, Shape DEF ChannelSizes
    <2>3. subPc' \in {"select", "parse", "send", "sendErr", "subClose", "closeErr", "closeErrCh",
                       "closeCh", "done"}
        BY <1>1
    <2> QED
        BY <1>1, <2>1, <2>2, <2>3 DEF SubscriberInv, Subscriber!TypeOK, All
<1> QED
    BY <1>9, <1>10, <1>11 DEF SubscriberInv

\* The subscriber reads: what it has read and what waits is as before.
LEMMA ReadStep ==
    ASSUME ChannelSizes, SubscriberInv, Subscriber!ReadCh \/ Subscriber!ReadErrCh
    PROVE  SubscriberInv'
<1>1. /\ subGot \in Seq(Subscriber!Messages) /\ ch \in Seq(Subscriber!Messages)
      /\ errs \in Seq(All) /\ errCh \in Seq(All)
    BY SubscriberTypes
<1>2. CASE Subscriber!ReadCh
    <2>1. /\ ch # <<>> /\ subGot' = Append(subGot, Head(ch)) /\ ch' = Tail(ch)
          /\ UNCHANGED <<published, rec, recOpen, cancelled, subPc, msg, taken, chOpen, errCh,
                         errOpen, reader, errs>>
        BY <1>2 DEF Subscriber!ReadCh, Subscriber!pubVars, Subscriber!subVars
    <2>2. Good' = Good /\ Bad' = Bad /\ Held' = Held
        BY <1>1, <2>1, ReadKeeps DEF Good, Bad, Held
    <2>3. subGot' \in Seq(Subscriber!Messages) /\ ch' \in Seq(Subscriber!Messages) /\ Len(ch') <= ChSize
        <3>1. Len(ch') = Len(ch) - 1 /\ Len(ch) \in Nat /\ Len(ch) <= ChSize
            BY <1>1, <2>1, HeadTailProperties, Shape DEF SubscriberInv, Subscriber!TypeOK
        <3> QED
            BY <1>1, <2>1, <3>1, HeadAndTail, AppendProperties DEF ChannelSizes
    <2>4. Subscriber!TypeOK'
        BY <2>1, <2>3 DEF SubscriberInv, Subscriber!TypeOK
    <2> QED
        BY <2>1, <2>2, <2>4, NothingMoves
<1>3. CASE Subscriber!ReadErrCh
    <2>1. /\ errCh # <<>> /\ errs' = Append(errs, Head(errCh)) /\ errCh' = Tail(errCh)
          /\ UNCHANGED <<published, rec, recOpen, cancelled, subPc, msg, taken, ch, chOpen,
                         errOpen, reader, subGot>>
        BY <1>3 DEF Subscriber!ReadErrCh, Subscriber!pubVars, Subscriber!subVars
    <2>2. Good' = Good /\ Bad' = Bad /\ Held' = Held
        BY <1>1, <2>1, ReadKeeps DEF Good, Bad, Held
    <2>3. errs' \in Seq(All) /\ errCh' \in Seq(All) /\ Len(errCh') <= ErrSize
        <3>1. Len(errCh') = Len(errCh) - 1 /\ Len(errCh) \in Nat /\ Len(errCh) <= ErrSize
            BY <1>1, <2>1, HeadTailProperties, Shape DEF SubscriberInv, Subscriber!TypeOK
        <3> QED
            BY <1>1, <2>1, <3>1, HeadAndTail, AppendProperties DEF ChannelSizes
    <2>4. Subscriber!TypeOK'
        BY <2>1, <2>3 DEF SubscriberInv, Subscriber!TypeOK, All
    <2> QED
        BY <2>1, <2>2, <2>4, NothingMoves
<1> QED
    BY <1>2, <1>3

\* The goroutine parses, or ends and closes.
LEMMA GoOnStep ==
    ASSUME ChannelSizes, SubscriberInv,
           \/ Subscriber!SelectEnd \/ Subscriber!Parse \/ Subscriber!CloseSub
           \/ Subscriber!CloseErrCh \/ Subscriber!CloseCh
    PROVE  SubscriberInv'
<1>1. /\ UNCHANGED <<published, rec, cancelled, msg, taken, ch, errCh, reader, subGot, errs>>
      /\ \/ subPc = "parse" /\ subPc' \in {"send", "sendErr"}
         \/ subPc \in {"select", "subClose", "closeErrCh", "closeCh"}
            /\ subPc' \in {"subClose", "closeErr", "closeErrCh", "closeCh", "done"}
    BY DEF Subscriber!SelectEnd, Subscriber!Parse, Subscriber!CloseSub, Subscriber!CloseErrCh,
        Subscriber!CloseCh, Subscriber!Goto, Subscriber!pubVars, Subscriber!chanVars,
        Subscriber!readVars
<1>2. /\ recOpen' \in BOOLEAN /\ chOpen' \in BOOLEAN /\ errOpen' \in BOOLEAN
    BY DEF Subscriber!SelectEnd, Subscriber!Parse, Subscriber!CloseSub, Subscriber!CloseErrCh,
        Subscriber!CloseCh, Subscriber!pubVars, Subscriber!chanVars, SubscriberInv,
        Subscriber!TypeOK
<1>3. Good' = Good /\ Bad' = Bad /\ Held' = Held
    BY <1>1 DEF Good, Bad, Held
<1>4. subPc' \in {"select", "parse", "send", "sendErr", "subClose", "closeErr", "closeErrCh",
                   "closeCh", "done"}
    BY <1>1
<1>5. Subscriber!TypeOK'
    BY <1>1, <1>2, <1>4 DEF SubscriberInv, Subscriber!TypeOK
<1> QED
    BY <1>1, <1>3, <1>5, NothingMoves

\* What is around the goroutine: the client and the context end, the subscriber leaves.
LEMMA AroundStep ==
    ASSUME ChannelSizes, SubscriberInv,
           \/ Subscriber!ClientClosed \/ Subscriber!CancelSubscription
           \/ Subscriber!ReaderLeaves
    PROVE  SubscriberInv'
<1>1. UNCHANGED <<published, rec, subPc, msg, taken, ch, errCh, chOpen, errOpen, subGot, errs>>
    BY DEF Subscriber!ClientClosed, Subscriber!CancelSubscription, Subscriber!ReaderLeaves,
        Subscriber!pubVars, Subscriber!subVars, Subscriber!chanVars, Subscriber!readVars
<1>2. recOpen' \in BOOLEAN /\ cancelled' \in BOOLEAN
    BY DEF Subscriber!ClientClosed, Subscriber!CancelSubscription, Subscriber!ReaderLeaves,
        Subscriber!pubVars, SubscriberInv, Subscriber!TypeOK
<1>3. reader' \in {"example", "both", "left"}
    BY DEF Subscriber!ClientClosed, Subscriber!CancelSubscription, Subscriber!ReaderLeaves,
        Subscriber!readVars, SubscriberInv, Subscriber!TypeOK
<1>4. Subscriber!TypeOK'
    BY <1>1, <1>2, <1>3 DEF SubscriberInv, Subscriber!TypeOK
<1>5. Good' = Good /\ Bad' = Bad /\ Held' = Held
    BY <1>1 DEF Good, Bad, Held
<1> QED
    BY <1>1, <1>4, <1>5, NothingMoves

LEMMA SubscriberStep ==
    ASSUME ChannelSizes, SubscriberInv, [Subscriber!Next]_(Subscriber!vars)
    PROVE  SubscriberInv'
<1>1. CASE Subscriber!Next
    BY <1>1, PublishStep, SelectStep, SendStep, SendErrorStep, ReadStep, GoOnStep, AroundStep
        DEF Subscriber!Next, Subscriber!GoStep
<1>2. CASE UNCHANGED Subscriber!vars
    <2>1. UNCHANGED <<published, rec, recOpen, cancelled, subPc, msg, taken, ch, chOpen, errCh,
                      errOpen, reader, subGot, errs>>
        BY <1>2 DEF Subscriber!vars, Subscriber!pubVars, Subscriber!subVars,
            Subscriber!chanVars, Subscriber!readVars
    <2>2. Subscriber!TypeOK'
        BY <2>1 DEF SubscriberInv, Subscriber!TypeOK
    <2>3. Good' = Good /\ Bad' = Bad /\ Held' = Held
        BY <2>1 DEF Good, Bad, Held
    <2> QED
        BY <2>1, <2>2, <2>3, NothingMoves
<1> QED
    BY <1>1, <1>2

LEMMA SubscriberInvariance == ASSUME ChannelSizes PROVE Subscriber!Spec => []SubscriberInv
BY SubscriberInit, SubscriberStep, PTL DEF Subscriber!Spec

\* The goroutine sends only to channels that are open, so it never panics, and
\* it has closed both when it ends.
SendsToOpen ==
    /\ subPc = "send" => chOpen
    /\ subPc \in {"sendErr", "closeErr"} => errOpen
    /\ subPc = "done" => ~chOpen /\ ~errOpen

LEMMA ChannelsStep ==
    ASSUME chOpen = (subPc # "done"), errOpen = (subPc \notin {"closeCh", "done"}),
           [Subscriber!Next]_(Subscriber!vars)
    PROVE  chOpen' = (subPc' # "done") /\ errOpen' = (subPc' \notin {"closeCh", "done"})
<1> USE DEF Subscriber!Goto, Subscriber!pubVars, Subscriber!subVars, Subscriber!chanVars
<1>1. CASE Subscriber!GoStep
    <2>1. CASE Subscriber!SelectMessage \/ Subscriber!SelectEnd \/ Subscriber!Parse
        BY <2>1 DEF Subscriber!SelectMessage, Subscriber!SelectEnd, Subscriber!Parse
    <2>2. CASE Subscriber!Send \/ Subscriber!SendError \/ Subscriber!SendCloseError
        BY <2>2 DEF Subscriber!Send, Subscriber!SendError, Subscriber!SendCloseError,
            Subscriber!SendTo
    <2>3. CASE Subscriber!CloseSub \/ Subscriber!CloseErrCh \/ Subscriber!CloseCh
        BY <2>3 DEF Subscriber!CloseSub, Subscriber!CloseErrCh, Subscriber!CloseCh
    <2> QED
        BY <1>1, <2>1, <2>2, <2>3 DEF Subscriber!GoStep
<1>2. CASE \/ Subscriber!PublishMessage \/ Subscriber!ClientClosed
           \/ Subscriber!CancelSubscription \/ Subscriber!ReadCh \/ Subscriber!ReadErrCh
           \/ Subscriber!ReaderLeaves
    BY <1>2 DEF Subscriber!PublishMessage, Subscriber!ClientClosed,
        Subscriber!CancelSubscription, Subscriber!ReadCh, Subscriber!ReadErrCh,
        Subscriber!ReaderLeaves
<1>3. CASE UNCHANGED Subscriber!vars
    BY <1>3 DEF Subscriber!vars
<1> QED
    BY <1>1, <1>2, <1>3 DEF Subscriber!Next

-----------------------------------------------------------------------------
(* The pool of goroutines, for any size, any number of functions and any   *)
(* way they submit one another.                                            *)
PoolSizes == Max \in Nat /\ NTasks \in Nat

\* The functions the WaitGroup counts, and those that occupy a slot.
Counted == {t \in Pool!Tasks : state[t] \in {"ready", "running", "returned"}}

Holding == {t \in Pool!Tasks : state[t] \in {"held", "ready", "running", "returned", "done"}}

PoolTypes ==
    /\ parent \in [Pool!Tasks -> {Pool!Caller} \cup Pool!Tasks]
    /\ state \in [Pool!Tasks -> Pool!Stages]
    /\ waited \in BOOLEAN

\* A function is submitted by one that is numbered before it.
PoolOrdered == \A t \in Pool!Tasks : parent[t] < t

PoolCounters ==
    /\ count = Cardinality(Counted)
    /\ sem = Cardinality(Holding)
    /\ sem <= Max

\* As long as a function is not submitted, the one that submits it has not
\* returned: this is why the counter does not reach zero too early.
PoolPending ==
    \A t \in Pool!Tasks : ~Pool!Submitted(t) /\ parent[t] # Pool!Caller
                         => state[parent[t]] \notin {"returned", "done", "gone"}

PoolInv == PoolTypes /\ PoolOrdered /\ PoolCounters /\ PoolPending /\ Pool!WaitCovers

-----------------------------------------------------------------------------
LEMMA FiniteTasks ==
    ASSUME PoolSizes
    PROVE  /\ IsFiniteSet(Pool!Tasks) /\ Cardinality(Pool!Tasks) = NTasks
           /\ \A S \in SUBSET Pool!Tasks : /\ IsFiniteSet(S) /\ Cardinality(S) \in 0..NTasks
<1>1. IsFiniteSet(Pool!Tasks) /\ Cardinality(Pool!Tasks) = NTasks
    BY FS_Interval DEF Pool!Tasks, PoolSizes
<1>2. ASSUME NEW S \in SUBSET Pool!Tasks
      PROVE  IsFiniteSet(S) /\ Cardinality(S) \in 0..NTasks
    BY <1>1, FS_Subset, FS_CardinalityType DEF PoolSizes
<1> QED
    BY <1>1, <1>2

\* A set of functions that is not empty has a first one.
LEMMA FirstTask ==
    ASSUME PoolSizes, NEW S \in SUBSET Pool!Tasks, S # {}
    PROVE  \E t \in S : \A s \in S : ~(s < t)
<1> DEFINE Less == OpToRel(<, Nat)
<1>1. S \subseteq Nat
    BY DEF Pool!Tasks, PoolSizes
<1>2. \E t \in S : \A s \in S : <<s, t>> \notin Less
    <2> HIDE DEF Less
    <2>1. IsWellFoundedOn(Less, Nat)
        BY NatLessThanWellFounded, Zenon DEF Less
    <2> QED BY <1>1, <2>1, WFMin
<1> QED
    BY <1>1, <1>2 DEF OpToRel

LEMMA PoolInit == ASSUME PoolSizes PROVE Pool!Init => PoolInv
<1> SUFFICES ASSUME Pool!Init PROVE PoolInv
    OBVIOUS
<1>1. Counted = {} /\ Holding = {}
    BY DEF Pool!Init, Counted, Holding
<1>2. PoolCounters
    BY <1>1, FS_EmptySet DEF Pool!Init, PoolCounters, PoolSizes
<1> QED
    BY <1>2 DEF Pool!Init, PoolInv, PoolTypes, Pool!Stages, PoolOrdered, PoolPending, Pool!WaitCovers, Pool!Submitted

-----------------------------------------------------------------------------
(* What each stage of a function does to the two counted sets. *)
LEMMA Moved ==
    ASSUME PoolTypes, NEW t \in Pool!Tasks, NEW from \in Pool!Stages, NEW to \in Pool!Stages,
           Pool!Move(t, from, to)
    PROVE  /\ state' \in [Pool!Tasks -> Pool!Stages] /\ state[t] = from /\ state'[t] = to
           /\ \A s \in Pool!Tasks \ {t} : state'[s] = state[s]
BY DEF PoolTypes, Pool!Move

LEMMA Joins ==
    ASSUME PoolSizes, NEW S \in SUBSET Pool!Tasks, NEW t \in Pool!Tasks, t \notin S
    PROVE  Cardinality(S \cup {t}) = Cardinality(S) + 1
BY FiniteTasks, FS_AddElement

LEMMA Departs ==
    ASSUME PoolSizes, NEW S \in SUBSET Pool!Tasks, NEW t \in S
    PROVE  Cardinality(S \ {t}) = Cardinality(S) - 1
BY FiniteTasks, FS_RemoveElement

LEMMA CountersKept ==
    ASSUME PoolSizes, PoolTypes, PoolCounters, NEW t \in Pool!Tasks, Pool!TaskStep(t)
    PROVE  PoolCounters'
<1> USE DEF Pool!Stages
<1>0. Counted \subseteq Pool!Tasks /\ Holding \subseteq Pool!Tasks
    BY DEF Counted, Holding
<1>1. CASE Pool!Acquire(t)
    <2>1. Counted' = Counted /\ Holding' = Holding \cup {t} /\ t \notin Holding
        BY <1>1, Moved DEF Pool!Acquire, Counted, Holding
    <2>2. sem \in Nat /\ sem < Max /\ sem' = sem + 1 /\ count' = count
        BY <1>0, <1>1, FiniteTasks DEF Pool!Acquire, PoolCounters
    <2>3. Cardinality(Holding') = Cardinality(Holding) + 1
        BY <1>0, <2>1, Joins
    <2> QED BY <2>1, <2>2, <2>3 DEF PoolCounters, PoolSizes
<1>2. CASE Pool!Launch(t)
    <2>1. Counted' = Counted \cup {t} /\ t \notin Counted /\ Holding' = Holding
        BY <1>2, Moved DEF Pool!Launch, Counted, Holding
    <2>2. Cardinality(Counted') = Cardinality(Counted) + 1
        BY <1>0, <2>1, Joins
    <2> QED BY <1>2, <2>1, <2>2 DEF Pool!Launch, PoolCounters
<1>3. CASE Pool!Begin(t)
    <2>1. Counted' = Counted /\ Holding' = Holding
        BY <1>3, Moved DEF Pool!Begin, Counted, Holding
    <2> QED BY <1>3, <2>1 DEF Pool!Begin, PoolCounters
<1>4. CASE Pool!Return(t)
    <2>1. Counted' = Counted /\ Holding' = Holding
        BY <1>4, Moved DEF Pool!Return, Counted, Holding
    <2> QED BY <1>4, <2>1 DEF Pool!Return, PoolCounters
<1>5. CASE Pool!Done(t)
    <2>1. Counted' = Counted \ {t} /\ t \in Counted /\ Holding' = Holding
        BY <1>5, Moved DEF Pool!Done, Counted, Holding
    <2>2. Cardinality(Counted') = Cardinality(Counted) - 1
        BY <1>0, <2>1, Departs
    <2> QED BY <1>5, <2>1, <2>2 DEF Pool!Done, PoolCounters
<1>6. CASE Pool!Release(t)
    <2>1. Counted' = Counted /\ Holding' = Holding \ {t} /\ t \in Holding
        BY <1>6, Moved DEF Pool!Release, Counted, Holding
    <2>2. Cardinality(Holding') = Cardinality(Holding) - 1
        BY <1>0, <2>1, Departs
    <2>3. sem \in Nat /\ sem' = sem - 1
        BY <1>0, <1>6, FiniteTasks DEF Pool!Release, PoolCounters
    <2> QED BY <1>6, <2>1, <2>2, <2>3 DEF Pool!Release, PoolCounters, PoolSizes
<1> QED
    BY <1>1, <1>2, <1>3, <1>4, <1>5, <1>6 DEF Pool!TaskStep

\* When the caller stops waiting nothing is left to be submitted: the first
\* function still to be submitted would have its submitter counted.
LEMMA NothingLeft ==
    ASSUME PoolSizes, PoolInv, Pool!Wait
    PROVE  \A t \in Pool!Tasks : state[t] \in {"done", "gone"}
<1> DEFINE Left == {t \in Pool!Tasks : ~Pool!Submitted(t)}
<1>1. Counted = {}
    <2>1. Counted \subseteq Pool!Tasks /\ Cardinality(Counted) = 0
        BY DEF Pool!Wait, PoolInv, PoolCounters, Counted
    <2> QED BY <2>1, FiniteTasks, FS_EmptySet
<1>2. \A t \in Pool!Tasks : state[t] \in {"new", "held", "done", "gone"}
    BY <1>1 DEF Counted, PoolInv, PoolTypes, Pool!Stages
<1>3. Left = {}
    <2> SUFFICES ASSUME Left # {} PROVE FALSE
        OBVIOUS
    <2>1. PICK t \in Left : \A s \in Left : ~(s < t)
        BY FirstTask
    <2>2. parent[t] \in Pool!Tasks /\ parent[t] < t
        BY <2>1 DEF Pool!Wait, Pool!Children, PoolInv, PoolTypes, PoolOrdered
    <2>3. state[parent[t]] \notin {"returned", "done", "gone"}
        BY <2>1, <2>2 DEF PoolInv, PoolPending, Pool!Tasks, Pool!Caller
    <2>4. parent[t] \in Left
        BY <1>2, <2>2, <2>3 DEF Pool!Submitted
    <2> QED BY <2>1, <2>2, <2>4
<1> QED
    BY <1>2, <1>3 DEF Pool!Submitted

LEMMA PoolStep == ASSUME PoolSizes PROVE PoolInv /\ [Pool!Next]_(Pool!vars) => PoolInv'
<1> SUFFICES ASSUME PoolInv, [Pool!Next]_(Pool!vars) PROVE PoolInv'
    OBVIOUS
<1>1. ASSUME NEW t \in Pool!Tasks, Pool!TaskStep(t) PROVE PoolInv'
    <2> USE DEF Pool!Stages
    <2>0. PoolTypes /\ UNCHANGED <<parent, waited>>
        BY <1>1 DEF PoolInv, Pool!TaskStep, Pool!Acquire, Pool!Launch, Pool!Begin, Pool!Return, Pool!Done, Pool!Release
    <2>1. PICK from \in Pool!Stages, to \in Pool!Stages : Pool!Move(t, from, to)
        BY <1>1 DEF Pool!TaskStep, Pool!Acquire, Pool!Launch, Pool!Begin, Pool!Return, Pool!Done, Pool!Release
    <2>2. PoolTypes'
        BY <2>0, <2>1, Moved DEF PoolTypes
    <2>3. PoolOrdered'
        BY <2>0 DEF PoolInv, PoolOrdered
    <2>4. PoolCounters'
        BY <1>1, CountersKept DEF PoolInv
    <2>5. PoolPending'
        <3> SUFFICES ASSUME NEW s \in Pool!Tasks, ~Pool!Submitted(s)', parent[s] # Pool!Caller
                     PROVE  state'[parent[s]] \notin {"returned", "done", "gone"}
            BY <2>0 DEF PoolPending
        <3>1. parent[s] \in Pool!Tasks /\ parent[s] # s
            BY <2>0 DEF PoolInv, PoolTypes, PoolOrdered, Pool!Tasks
        <3>2. ~Pool!Submitted(s)
            BY <1>1, <2>0, Moved
               DEF Pool!Submitted, Pool!TaskStep, Pool!Acquire, Pool!Launch, Pool!Begin, Pool!Return, Pool!Done, Pool!Release
        <3>3. state[parent[s]] \notin {"returned", "done", "gone"}
            BY <3>2 DEF PoolInv, PoolPending
        <3>4. CASE parent[s] = t /\ Pool!Return(t)
            BY <3>1, <3>2, <3>4 DEF Pool!Return, Pool!Children
        <3>5. CASE parent[s] # t
            BY <2>0, <2>1, <3>1, <3>3, <3>5, Moved
        <3>6. CASE parent[s] = t /\ ~Pool!Return(t)
            BY <1>1, <2>0, <3>3, <3>6, Moved
               DEF Pool!TaskStep, Pool!Acquire, Pool!Launch, Pool!Begin, Pool!Done, Pool!Release
        <3> QED BY <3>4, <3>5, <3>6
    <2>6. Pool!WaitCovers'
        BY <1>1, <2>0, Moved
           DEF PoolInv, Pool!WaitCovers, Pool!TaskStep, Pool!Acquire, Pool!Launch, Pool!Begin, Pool!Return, Pool!Done, Pool!Release
    <2> QED BY <2>2, <2>3, <2>4, <2>5, <2>6 DEF PoolInv
<1>2. CASE Pool!Wait
    <2>1. Pool!WaitCovers'
        BY <1>2, NothingLeft DEF Pool!Wait, Pool!WaitCovers
    <2>2. PoolTypes' /\ PoolOrdered' /\ PoolPending'
        BY <1>2 DEF Pool!Wait, PoolInv, PoolTypes, PoolOrdered, PoolPending, Pool!Submitted
    <2>3. PoolCounters'
        BY <1>2 DEF Pool!Wait, PoolInv, PoolCounters, Counted, Holding
    <2> QED BY <2>1, <2>2, <2>3 DEF PoolInv
<1>3. CASE UNCHANGED Pool!vars
    BY <1>3 DEF Pool!vars, PoolInv, PoolTypes, PoolOrdered, PoolPending, Pool!Submitted, PoolCounters, Counted,
                Holding, Pool!WaitCovers
<1> QED
    BY <1>1, <1>2, <1>3 DEF Pool!Next

LEMMA PoolInvariance == ASSUME PoolSizes PROVE Pool!Spec => []PoolInv
BY PoolInit, PoolStep, PTL DEF Pool!Spec

-----------------------------------------------------------------------------
\* The types, for any size and any functions.
THEOREM PoolTypeCorrect == ASSUME PoolSizes PROVE Pool!Spec => []Pool!TypeOK
<1>1. PoolInv => Pool!TypeOK
    <2> SUFFICES ASSUME PoolInv PROVE Pool!TypeOK
        OBVIOUS
    <2>1. count \in 0..NTasks /\ sem \in 0..Max
        BY FiniteTasks DEF PoolInv, PoolCounters, Counted, Holding, PoolSizes
    <2> QED BY <2>1 DEF PoolInv, PoolTypes, Pool!TypeOK
<1> QED
    BY <1>1, PoolInvariance, PTL

\* When Wait returns, every function has returned, those that functions of
\* the pool submitted while the caller waited included.
THEOREM PoolWaitCorrect == ASSUME PoolSizes PROVE Pool!Spec => []Pool!WaitCovers
<1>1. PoolInv => Pool!WaitCovers
    BY DEF PoolInv
<1> QED
    BY <1>1, PoolInvariance, PTL

\* Never more functions run than the pool has slots.
THEOREM PoolMostCorrect == ASSUME PoolSizes PROVE Pool!Spec => []Pool!AtMostMax
<1>1. PoolInv => Pool!AtMostMax
    <2> SUFFICES ASSUME PoolInv PROVE Pool!AtMostMax
        OBVIOUS
    <2> DEFINE Running == {t \in Pool!Tasks : state[t] \in {"running", "returned"}}
    <2>1. Holding \in SUBSET Pool!Tasks /\ Running \in SUBSET Holding
        BY DEF Holding
    <2>2. Cardinality(Running) <= Cardinality(Holding)
        BY <2>1, FiniteTasks, FS_Subset
    <2>3. Cardinality(Running) \in Int /\ Cardinality(Holding) \in Int
        BY <2>1, FiniteTasks
    <2>4. Pool!AtMostMax <=> Cardinality(Running) <= Max
        BY DEF Pool!AtMostMax, Pool!Cardinality, Cardinality, Pool!IsFiniteSet, IsFiniteSet
    <2>5. Cardinality(Holding) <= Max /\ Max \in Int
        BY DEF PoolInv, PoolCounters, PoolSizes
    <2> HIDE DEF Running
    <2> QED BY <2>2, <2>3, <2>4, <2>5
<1> QED
    BY <1>1, PoolInvariance, PTL

-----------------------------------------------------------------------------
(* The four together. *)
SocketP == INSTANCE WebSocketProofs WITH conn <- wsConn, pc <- wsPc

\* Every part takes the steps of its own specification, or none.
LEMMA PartsAre ==
    Parts => Spec /\ Socket!Spec /\ Subscriber!Spec /\ Pool!Spec
<1>1. Inits => Init /\ Socket!Init /\ Subscriber!Init /\ Pool!Init
    BY DEF Inits
<1>2. [NextPart]_allVars => [Next]_vars
    BY DEF NextPart, allVars
<1>3. [NextPart]_allVars => [Socket!Next]_(Socket!vars)
    BY DEF NextPart, allVars, socketVars, Socket!vars, Socket!loopVars, Socket!callVars
<1>4. [NextPart]_allVars => [Subscriber!Next]_(Subscriber!vars)
    BY DEF NextPart, allVars, subscriberVars, Subscriber!vars, Subscriber!pubVars,
        Subscriber!subVars, Subscriber!chanVars, Subscriber!readVars
<1>5. [NextPart]_allVars => [Pool!Next]_(Pool!vars)
    BY DEF NextPart, allVars, poolVars, Pool!vars
<1> QED
    BY <1>1, <1>2, <1>3, <1>4, <1>5, PTL
        DEF Parts, Spec, Socket!Spec, Subscriber!Spec, Pool!Spec

\* The instance of the component and the one of its proofs are the same.
LEMMA SameSocket ==
    /\ Socket!Init <=> SocketP!Init
    /\ [Socket!Next]_(Socket!vars) <=> [SocketP!Next]_(SocketP!vars)
    /\ Socket!TypeOK <=> SocketP!TypeOK
    /\ Socket!OneWriter <=> SocketP!OneWriter
    /\ Socket!ClosedMeansRefused <=> SocketP!ClosedMeansRefused
BY DEF Socket!Init, SocketP!Init, Socket!Next, SocketP!Next, Socket!TypeOK, SocketP!TypeOK,
    Socket!OneWriter, SocketP!OneWriter, Socket!ClosedMeansRefused, SocketP!ClosedMeansRefused,
    Socket!vars, SocketP!vars, Socket!loopVars, SocketP!loopVars, Socket!callVars,
    SocketP!callVars, Socket!Callers, SocketP!Callers, Socket!Writing, SocketP!Writing,
    Socket!PeerStep, SocketP!PeerStep, Socket!InCallback, SocketP!InCallback, Socket!Goto,
    SocketP!Goto, Socket!Upgrade, SocketP!Upgrade, Socket!OnConnect, SocketP!OnConnect,
    Socket!ReadMessage, SocketP!ReadMessage, Socket!ReadClose, SocketP!ReadClose,
    Socket!ReadEOF, SocketP!ReadEOF, Socket!ReadFails, SocketP!ReadFails, Socket!OnError,
    SocketP!OnError, Socket!CloseConn, SocketP!CloseConn, Socket!OnClose, SocketP!OnClose,
    Socket!LoopStep, SocketP!LoopStep, Socket!Move, SocketP!Move, Socket!MayCall,
    SocketP!MayCall, Socket!CallSend, SocketP!CallSend, Socket!LockSend, SocketP!LockSend,
    Socket!BeginWrite, SocketP!BeginWrite, Socket!WriteEnds, SocketP!WriteEnds,
    Socket!SendReturns, SocketP!SendReturns, Socket!CallClose, SocketP!CallClose,
    Socket!FirstClose, SocketP!FirstClose, Socket!NextClose, SocketP!NextClose,
    Socket!LockClose, SocketP!LockClose, Socket!WriteControl, SocketP!WriteControl,
    Socket!HandlerEnds, SocketP!HandlerEnds, Socket!Locks, SocketP!Locks, Socket!CallStep,
    SocketP!CallStep

LEMMA SocketIs == Socket!Spec <=> SocketP!Spec
BY SameSocket, PTL DEF Socket!Spec, SocketP!Spec

\* Every message the goroutine takes from the PubSub is read, waits in one of
\* the channels or is at the goroutine, once and in the order of publishing,
\* for any sizes of the channels (subscribe.go:102-131).
THEOREM AccountedCorrect ==
    ASSUME ChannelSizes PROVE Parts => []Accounted
<1>1. SubscriberInv => Accounted
    BY DEF SubscriberInv, Accounted
<1> QED
    BY <1>1, PartsAre, SubscriberInvariance, PTL

\* The goroutine of a subscription never sends to a closed channel, whatever the
\* client, the context and the subscriber do, and ends with both closed: the
\* safety part of SubscriptionEnds (subscribe.go:54-69).
THEOREM SendsToOpenCorrect == Parts => []SendsToOpen
<1> DEFINE Open == chOpen = (subPc # "done") /\ errOpen = (subPc \notin {"closeCh", "done"})
<1>1. Subscriber!Init => Open
    BY DEF Subscriber!Init
<1>2. Open /\ [Subscriber!Next]_(Subscriber!vars) => Open'
    BY ChannelsStep
<1>3. Open => SendsToOpen
    BY DEF SendsToOpen
<1> QED
    BY <1>1, <1>2, <1>3, PartsAre, PTL DEF Subscriber!Spec

\* One goroutine writes to the connection at a time, for any handlers
\* (websocket_client.go:138-151).
THEOREM OneWriterCorrect ==
    ASSUME Nobody \notin Handlers \cup {Loop}, MaxRepeats \in Nat \ {0}
    PROVE  Parts => []OneWriter
<1>1. SocketP!Spec => []SocketP!OneWriter
    BY SocketP!OneWriterCorrect DEF SocketP!Constants, SocketP!Callers
<1> QED
    BY <1>1, PartsAre, SocketIs, SameSocket, PTL DEF OneWriter

\* A Send that begins after any Close has returned is refused, for any
\* handlers (websocket_client.go:138-151).
THEOREM ClosedMeansRefusedCorrect ==
    ASSUME Nobody \notin Handlers \cup {Loop}, MaxRepeats \in Nat \ {0}
    PROVE  Parts => []ClosedMeansRefused
<1>1. SocketP!Spec => []SocketP!ClosedMeansRefused
    BY SocketP!ClosedCorrect DEF SocketP!Constants, SocketP!Callers
<1> QED
    BY <1>1, PartsAre, SocketIs, SameSocket, PTL DEF ClosedMeansRefused

\* Wait returns only when every function has, for any size of the pool and any
\* way the functions submit one another (goroutine_pool.go:27-38).
THEOREM WaitCoversCorrect ==
    ASSUME Max \in Nat, NTasks \in Nat
    PROVE  Parts => []WaitCovers
<1>1. Pool!Spec => []Pool!WaitCovers
    BY PoolWaitCorrect DEF PoolSizes
<1> QED
    BY <1>1, PartsAre, PTL DEF WaitCovers

\* The variables of the four keep their types: the channels their capacities,
\* the counters of the pool their ranges, the mutexes one holder.
THEOREM TypesCorrect ==
    ASSUME ChannelSizes, Nobody \notin Handlers \cup {Loop}, MaxRepeats \in Nat \ {0},
           Max \in Nat, NTasks \in Nat
    PROVE  Parts => []TypesOK
<1>1. Parts => []TypeOK
    BY PartsAre, TypeCorrect, PTL
<1>2. Parts => []Socket!TypeOK
    <2>1. SocketP!Spec => []SocketP!TypeOK
        BY SocketP!TypeCorrect DEF SocketP!Constants, SocketP!Callers
    <2> QED
        BY <2>1, PartsAre, SocketIs, SameSocket, PTL
<1>3. Parts => []Subscriber!TypeOK
    <2>1. SubscriberInv => Subscriber!TypeOK
        BY DEF SubscriberInv
    <2> QED
        BY <2>1, PartsAre, SubscriberInvariance, PTL
<1>4. Parts => []Pool!TypeOK
    <2>1. Pool!Spec => []Pool!TypeOK
        BY PoolTypeCorrect DEF PoolSizes
    <2> QED
        BY <2>1, PartsAre, PTL
<1> QED
    BY <1>1, <1>2, <1>3, <1>4, PTL DEF TypesOK
=============================================================================
