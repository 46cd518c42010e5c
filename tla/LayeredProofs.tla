---------------------------- MODULE LayeredProofs ----------------------------
(***************************************************************************)
(* The nested configuration sources for any number of paths, keys, changes *)
(* and failures: types, and the priority within a group.                   *)
(*                                                                         *)
(* What a group has announced is in up to four places on its way to the    *)
(* reader: with the goroutine of a path that is sending, with the top      *)
(* source's goroutine that waits for its mutex, with the one that is       *)
(* sending, and with the reader.  The view as it will be once all of them  *)
(* have arrived (Ahead) respects the documents of the group at every step; *)
(* so does what the top source will hold for the group (Kept), which the   *)
(* other group's announcements repeat.                                     *)
(***************************************************************************)
EXTENDS MCLayers, WellFoundedInduction, TLAPS

Nothing == [k \in Keys |-> Absent]

LowSent == IF lowLock = 0 THEN Nothing ELSE lowKvs[lowLock]
HighSent == IF highLock = 0 THEN Nothing ELSE highKvs[highLock]
TopSent == IF topLock = 0 THEN Nothing ELSE topKvs[topLock]
Waiting(g) == IF topPc[g] = "got" THEN topKvs[g] ELSE Nothing
Merging == IF rpc = "merge" THEN rbuf ELSE Nothing

Ahead == Overlay(Overlay(view, Merging), TopSent)
LowAhead == Overlay(Overlay(Ahead, Waiting(1)), LowSent)
HighAhead == Overlay(Overlay(Ahead, Waiting(2)), HighSent)

LowKept == Overlay(Overlay(topCached[1], Waiting(1)), LowSent)
HighKept == Overlay(Overlay(topCached[2], Waiting(2)), HighSent)

\* The values of a document come from the leaves in S.
From(doc, S) == \A k \in Keys : doc[k].src \in S \cup {0}

\* Where doc has a value of the group whose documents are docs, leaf base + 1
\* first, it is the leaf's own or one of a later leaf.
Respects(doc, docs, n, base) ==
    \A j \in 1..n, k \in Keys :
        Defines(docs[j], k) /\ doc[k].src \in base + 1 .. base + n =>
            doc[k].src > base + j \/ doc[k] = docs[j][k]

LowOrigins ==
    /\ \A i \in 1..NLow :
          /\ From(content[i], {i}) /\ From(lowCached[i], {i})
          /\ lowPc[i] = "got" => From(lowKvs[i], {i})
    /\ From(LowSent, LowLeaves) /\ From(Waiting(1), LowLeaves) /\ From(topCached[1], LowLeaves)

HighOrigins ==
    /\ \A i \in 1..NHigh :
          /\ From(content[NLow + i], {NLow + i}) /\ From(highCached[i], {NLow + i})
          /\ highPc[i] = "got" => From(highKvs[i], {NLow + i})
    /\ From(HighSent, HighLeaves) /\ From(Waiting(2), HighLeaves)
    /\ From(topCached[2], HighLeaves)

LowRespected ==
    Respects(LowAhead, lowCached, NLow, 0) /\ Respects(LowKept, lowCached, NLow, 0)
HighRespected ==
    Respects(HighAhead, highCached, NHigh, NLow) /\ Respects(HighKept, highCached, NHigh, NLow)

IInv == TypeOK /\ LowOrigins /\ HighOrigins /\ LowRespected /\ HighRespected

-----------------------------------------------------------------------------
(* Documents and lists of documents. *)
LEMMA GreatestIs ==
    ASSUME NEW n \in Nat, NEW S \in SUBSET (1..n), S # {}
    PROVE  Greatest(S) \in S /\ \A m \in S : m <= Greatest(S)
<1> DEFINE T == {n - x : x \in S}
           Less == OpToRel(<, Nat)
<1>0. \A x \in S : x \in Nat /\ n - x \in Nat
    OBVIOUS
<1>1. T \subseteq Nat /\ T # {}
    BY <1>0
<1>2. PICK t \in T : \A u \in T : <<u, t>> \notin Less
    <2> HIDE DEF T, Less
    <2>1. IsWellFoundedOn(Less, Nat)
        BY NatLessThanWellFounded, Zenon DEF Less
    <2> QED BY <1>1, <2>1, WFMin
<1>3. \A u \in T : ~(u < t)
    BY <1>1, <1>2 DEF OpToRel
<1>4. PICK x \in S : t = n - x
    OBVIOUS
<1>5. \A y \in S : y <= x
    <2> TAKE y \in S
    <2>1. n - y \in T
        OBVIOUS
    <2>2. ~(n - y < n - x)
        BY <1>3, <1>4, <2>1
    <2> HIDE DEF T
    <2> QED BY <1>0, <2>2
<1> QED
    BY <1>5 DEF Greatest

\* Under a key Concat has what the last document that defines it has.
LEMMA ConcatIs ==
    ASSUME NEW docs, NEW n \in Nat, NEW i \in 1..n, NEW k \in Keys
    PROVE  \/ /\ \A j \in i..n : ~Defines(docs[j], k)
              /\ Concat(docs, i, n)[k] = Absent
           \/ \E m \in i..n :
                /\ Defines(docs[m], k) /\ Concat(docs, i, n)[k] = docs[m][k]
                /\ \A j \in i..n : Defines(docs[j], k) => j <= m
<1> DEFINE D == {j \in i..n : Defines(docs[j], k)}
<1>1. Concat(docs, i, n)[k] = IF D = {} THEN Absent ELSE docs[Greatest(D)][k]
    BY DEF Concat
<1>2. CASE D = {}
    BY <1>1, <1>2
<1>3. CASE D # {}
    <2>1. D \in SUBSET (1..n)
        OBVIOUS
    <2>2. Greatest(D) \in D /\ \A m \in D : m <= Greatest(D)
        BY <1>3, <2>1, GreatestIs
    <2> HIDE DEF D
    <2>3. Concat(docs, i, n)[k] = docs[Greatest(D)][k]
        BY <1>1, <1>3
    <2> QED BY <2>2, <2>3 DEF D
<1> QED
    BY <1>2, <1>3

LEMMA ConcatType ==
    ASSUME NEW n \in Nat, NEW docs \in [1..n -> Document], NEW i \in 1..n
    PROVE  Concat(docs, i, n) \in Document
<1>1. \A k \in Keys : Concat(docs, i, n)[k] \in Value
    <2> TAKE k \in Keys
    <2>1. Absent \in Value /\ \A m \in i..n : docs[m][k] \in Value
        BY DEF Document, Absent, Value
    <2> QED BY <2>1, ConcatIs
<1>2. Concat(docs, i, n) = [k \in Keys |-> Concat(docs, i, n)[k]]
    BY DEF Concat
<1> QED
    BY <1>1, <1>2 DEF Document

\* The operators of the three instances are those of KeyValues.
LEMMA SameConcat ==
    ASSUME NEW docs, NEW i, NEW n
    PROVE  /\ Low!Concat(docs, i, n) = Concat(docs, i, n)
           /\ High!Concat(docs, i, n) = Concat(docs, i, n)
           /\ Top!Concat(docs, i, n) = Concat(docs, i, n)
BY DEF Concat, Defines, Absent, Greatest, Low!Concat, Low!Defines, Low!Absent, Low!Greatest,
       High!Concat, High!Defines, High!Absent, High!Greatest,
       Top!Concat, Top!Defines, Top!Absent, Top!Greatest

LEMMA SameDocument ==
    Low!Document = Document /\ High!Document = Document /\ Top!Document = Document
BY DEF Document, Value, Low!Document, Low!Value, High!Document, High!Value, Top!Document,
       Top!Value

LEMMA NothingType == Nothing \in Document
BY DEF Nothing, Document, Value, Absent

LEMMA OverlayIs ==
    ASSUME NEW a, NEW b
    PROVE  /\ \A k \in Keys : Overlay(a, b)[k] = IF Defines(b, k) THEN b[k] ELSE a[k]
           /\ a \in Document /\ b \in Document => Overlay(a, b) \in Document
           /\ a \in Document => Overlay(a, Nothing) = a
BY DEF Overlay, Document, Nothing, Defines, Absent

\* One document takes the place of two in a chain.
LEMMA OverlayChain ==
    ASSUME NEW a, NEW b, NEW c
    PROVE  \A k \in Keys : Overlay(Overlay(a, b), c)[k]
              = IF Defines(c, k) THEN c[k] ELSE IF Defines(b, k) THEN b[k] ELSE a[k]
BY OverlayIs

-----------------------------------------------------------------------------
(* What an announcement of path i of a group does to the priorities. *)
LEMMA Announced ==
    ASSUME NEW n \in Nat, NEW base \in Nat, NEW docs \in [1..n -> Document],
           NEW i \in 1..n, NEW d \in Document, NEW doc \in Document, NEW new,
           new = [docs EXCEPT ![i] = d],
           \A j \in 1..n : From(new[j], {base + j}),
           Respects(doc, docs, n, base)
    PROVE  Respects(Overlay(doc, Concat(new, i, n)), new, n, base)
<1> DEFINE A == Concat(new, i, n)
           E == Overlay(doc, A)
<1> SUFFICES ASSUME NEW j \in 1..n, NEW k \in Keys, Defines(new[j], k),
                    E[k].src \in base + 1 .. base + n
             PROVE  E[k].src > base + j \/ E[k] = new[j][k]
    BY DEF Respects
<1>1. E[k] = IF Defines(A, k) THEN A[k] ELSE doc[k]
    BY OverlayIs
<1>2. new \in [1..n -> Document] /\ \A m \in 1..n : m # i => new[m] = docs[m]
    OBVIOUS
<1>3. CASE \A m \in i..n : ~Defines(new[m], k)
    <2>1. j < i
        BY <1>3
    <2>2. A[k] = Absent
        BY <1>3, ConcatIs
    <2>3. E[k] = doc[k]
        BY <1>1, <2>2 DEF Defines, Absent
    <2> HIDE DEF E
    <2> QED BY <1>2, <2>1, <2>3 DEF Respects
<1>4. CASE \E m \in i..n : Defines(new[m], k)
    <2>1. PICK m \in i..n : /\ Defines(new[m], k) /\ A[k] = new[m][k]
                            /\ \A l \in i..n : Defines(new[l], k) => l <= m
        BY <1>4, ConcatIs
    <2>2. m \in 1..n /\ new[m][k].src = base + m
        BY <2>1 DEF From, Defines
    <2>3. E[k] = new[m][k]
        BY <1>1, <2>1 DEF Defines
    <2>4. j <= m
        BY <2>1
    <2> HIDE DEF E
    <2> QED BY <2>2, <2>3, <2>4
<1> QED
    BY <1>3, <1>4

\* What is announced comes from the group.
LEMMA AnnouncedFrom ==
    ASSUME NEW n \in Nat, NEW base \in Nat, NEW docs \in [1..n -> Document], NEW i \in 1..n,
           \A j \in 1..n : From(docs[j], {base + j})
    PROVE  From(Concat(docs, i, n), base + 1 .. base + n)
<1> SUFFICES ASSUME NEW k \in Keys
             PROVE  Concat(docs, i, n)[k].src \in (base + 1 .. base + n) \cup {0}
    BY DEF From
<1> QED
    BY ConcatIs DEF From, Absent

\* A document whose values of the group are found in one that respects it.
LEMMA RespectsFrom ==
    ASSUME NEW doc, NEW a, NEW b, NEW docs, NEW n, NEW base,
           Respects(a, docs, n, base), Respects(b, docs, n, base),
           \A k \in Keys : doc[k].src \in base + 1 .. base + n => doc[k] = a[k] \/ doc[k] = b[k]
    PROVE  Respects(doc, docs, n, base)
BY DEF Respects
-----------------------------------------------------------------------------
(* What a step of a watch goroutine does, for each of the three sources. *)
LEMMA LowQuiet ==
    ASSUME Low!WatchTypeOK, NEW i \in 1..NLow, NEW d \in Document,
           Low!NextReturns(i, d) \/ Low!NextFails(i) \/ Low!Retry(i)
    PROVE  /\ Low!WatchTypeOK' /\ LowSent' = LowSent /\ lowCached' = lowCached
           /\ \A j \in 1..NLow : lowPc'[j] = "got" =>
                 \/ lowPc[j] = "got" /\ lowKvs'[j] = lowKvs[j]
                 \/ j = i /\ lowKvs'[j] = d /\ Low!NextReturns(i, d)
<1> USE SameDocument, LayeredAssumption DEF Low!WatchTypeOK, Low!Sources, Low!PCs, Low!Free
<1>1. CASE Low!NextReturns(i, d)
    BY <1>1 DEF Low!NextReturns, LowSent
<1>2. CASE Low!NextFails(i) \/ Low!Retry(i)
    BY <1>2 DEF Low!NextFails, Low!Retry, LowSent
<1> QED
    BY <1>1, <1>2

LEMMA LowPublish ==
    ASSUME Low!WatchTypeOK, NEW i \in 1..NLow, Low!Publish(i)
    PROVE  /\ Low!WatchTypeOK' /\ lowPc[i] = "got" /\ lowKvs[i] \in Document
           /\ lowCached \in [1..NLow -> Document]
           /\ lowCached' = [lowCached EXCEPT ![i] = lowKvs[i]]
           /\ LowSent = Nothing /\ LowSent' = Concat(lowCached', i, NLow)
           /\ \A j \in 1..NLow : lowPc'[j] = "got" => lowPc[j] = "got" /\ lowKvs'[j] = lowKvs[j]
<1> USE SameDocument, LayeredAssumption DEF Low!WatchTypeOK, Low!Sources, Low!PCs, Low!Free
<1>1. /\ lowPc[i] = "got" /\ lowLock = 0 /\ lowLock' = i
      /\ lowCached' = [lowCached EXCEPT ![i] = lowKvs[i]]
      /\ lowKvs' = [lowKvs EXCEPT ![i] = Concat(lowCached', i, NLow)]
      /\ lowPc' = [lowPc EXCEPT ![i] = "send"]
    BY SameConcat DEF Low!Publish, Low!Announcement
<1>2. lowCached' \in [1..NLow -> Document]
    BY <1>1
<1>3. Concat(lowCached', i, NLow) \in Document
    BY <1>2, ConcatType
<1>4. Low!WatchTypeOK'
    BY <1>1, <1>2, <1>3
<1> QED
    BY <1>1, <1>4 DEF LowSent

LEMMA LowHandoff ==
    ASSUME Low!WatchTypeOK, NEW i \in 1..NLow, Low!Handoff(i)
    PROVE  /\ Low!WatchTypeOK' /\ lowCached' = lowCached /\ lowKvs[i] \in Document
           /\ LowSent = lowKvs[i] /\ LowSent' = Nothing
           /\ \A j \in 1..NLow : lowPc'[j] = "got" => lowPc[j] = "got" /\ lowKvs'[j] = lowKvs[j]
BY SameDocument, LayeredAssumption
   DEF Low!WatchTypeOK, Low!Sources, Low!PCs, Low!Free, Low!Handoff, LowSent

LEMMA HighQuiet ==
    ASSUME High!WatchTypeOK, NEW i \in 1..NHigh, NEW d \in Document,
           High!NextReturns(i, d) \/ High!NextFails(i) \/ High!Retry(i)
    PROVE  /\ High!WatchTypeOK' /\ HighSent' = HighSent /\ highCached' = highCached
           /\ \A j \in 1..NHigh : highPc'[j] = "got" =>
                 \/ highPc[j] = "got" /\ highKvs'[j] = highKvs[j]
                 \/ j = i /\ highKvs'[j] = d /\ High!NextReturns(i, d)
<1> USE SameDocument, LayeredAssumption DEF High!WatchTypeOK, High!Sources, High!PCs, High!Free
<1>1. CASE High!NextReturns(i, d)
    BY <1>1 DEF High!NextReturns, HighSent
<1>2. CASE High!NextFails(i) \/ High!Retry(i)
    BY <1>2 DEF High!NextFails, High!Retry, HighSent
<1> QED
    BY <1>1, <1>2

LEMMA HighPublish ==
    ASSUME High!WatchTypeOK, NEW i \in 1..NHigh, High!Publish(i)
    PROVE  /\ High!WatchTypeOK' /\ highPc[i] = "got" /\ highKvs[i] \in Document
           /\ highCached \in [1..NHigh -> Document]
           /\ highCached' = [highCached EXCEPT ![i] = highKvs[i]]
           /\ HighSent = Nothing /\ HighSent' = Concat(highCached', i, NHigh)
           /\ \A j \in 1..NHigh : highPc'[j] = "got" => highPc[j] = "got" /\ highKvs'[j] = highKvs[j]
<1> USE SameDocument, LayeredAssumption DEF High!WatchTypeOK, High!Sources, High!PCs, High!Free
<1>1. /\ highPc[i] = "got" /\ highLock = 0 /\ highLock' = i
      /\ highCached' = [highCached EXCEPT ![i] = highKvs[i]]
      /\ highKvs' = [highKvs EXCEPT ![i] = Concat(highCached', i, NHigh)]
      /\ highPc' = [highPc EXCEPT ![i] = "send"]
    BY SameConcat DEF High!Publish, High!Announcement
<1>2. highCached' \in [1..NHigh -> Document]
    BY <1>1
<1>3. Concat(highCached', i, NHigh) \in Document
    BY <1>2, ConcatType
<1>4. High!WatchTypeOK'
    BY <1>1, <1>2, <1>3
<1> QED
    BY <1>1, <1>4 DEF HighSent

LEMMA HighHandoff ==
    ASSUME High!WatchTypeOK, NEW i \in 1..NHigh, High!Handoff(i)
    PROVE  /\ High!WatchTypeOK' /\ highCached' = highCached /\ highKvs[i] \in Document
           /\ HighSent = highKvs[i] /\ HighSent' = Nothing
           /\ \A j \in 1..NHigh : highPc'[j] = "got" => highPc[j] = "got" /\ highKvs'[j] = highKvs[j]
BY SameDocument, LayeredAssumption
   DEF High!WatchTypeOK, High!Sources, High!PCs, High!Free, High!Handoff, HighSent

LEMMA TopReturns ==
    ASSUME Top!WatchTypeOK, NEW g \in 1..2, NEW d \in Document, Top!NextReturns(g, d)
    PROVE  /\ Top!WatchTypeOK' /\ topCached' = topCached /\ TopSent' = TopSent
           /\ Waiting(g) = Nothing /\ Waiting(g)' = d
           /\ \A h \in 1..2 \ {g} : Waiting(h)' = Waiting(h)
BY SameDocument
   DEF Top!WatchTypeOK, Top!Sources, Top!PCs, Top!Free, Top!NextReturns, TopSent, Waiting

LEMMA TopPublish ==
    ASSUME Top!WatchTypeOK, NEW g \in 1..2, Top!Publish(g)
    PROVE  /\ Top!WatchTypeOK' /\ Waiting(g) \in Document
           /\ topCached \in [1..2 -> Document]
           /\ topCached' = [topCached EXCEPT ![g] = Waiting(g)]
           /\ TopSent = Nothing /\ TopSent' = Concat(topCached', g, 2)
           /\ Waiting(g)' = Nothing
           /\ \A h \in 1..2 \ {g} : Waiting(h)' = Waiting(h)
<1> USE SameDocument DEF Top!WatchTypeOK, Top!Sources, Top!PCs, Top!Free
<1>1. /\ topPc[g] = "got" /\ topLock = 0 /\ topLock' = g
      /\ topCached' = [topCached EXCEPT ![g] = topKvs[g]]
      /\ topKvs' = [topKvs EXCEPT ![g] = Concat(topCached', g, 2)]
      /\ topPc' = [topPc EXCEPT ![g] = "send"]
    BY SameConcat DEF Top!Publish, Top!Announcement
<1>2. topCached' \in [1..2 -> Document]
    BY <1>1
<1>3. Concat(topCached', g, 2) \in Document
    BY <1>2, ConcatType
<1>4. Top!WatchTypeOK'
    BY <1>1, <1>2, <1>3
<1> QED
    BY <1>1, <1>4 DEF TopSent, Waiting

LEMMA TopHandoff ==
    ASSUME Top!WatchTypeOK, NEW g \in 1..2, Top!Handoff(g)
    PROVE  /\ Top!WatchTypeOK' /\ topCached' = topCached /\ topKvs[g] \in Document
           /\ TopSent = topKvs[g] /\ TopSent' = Nothing
           /\ \A h \in 1..2 : Waiting(h)' = Waiting(h)
BY SameDocument
   DEF Top!WatchTypeOK, Top!Sources, Top!PCs, Top!Free, Top!Handoff, TopSent, Waiting
-----------------------------------------------------------------------------
(* The invariant. *)
LEMMA DocTypes ==
    ASSUME TypeOK
    PROVE  /\ view \in Document /\ Merging \in Document /\ TopSent \in Document
           /\ LowSent \in Document /\ HighSent \in Document
           /\ \A g \in 1..2 : Waiting(g) \in Document /\ topCached[g] \in Document
           /\ Ahead \in Document /\ LowAhead \in Document /\ HighAhead \in Document
           /\ LowKept \in Document /\ HighKept \in Document
<1>1. /\ view \in Document /\ Merging \in Document /\ TopSent \in Document
      /\ LowSent \in Document /\ HighSent \in Document
      /\ \A g \in 1..2 : Waiting(g) \in Document /\ topCached[g] \in Document
    BY NothingType, SameDocument
       DEF TypeOK, Low!WatchTypeOK, High!WatchTypeOK, Top!WatchTypeOK, Low!Sources, High!Sources,
           Top!Sources, Low!Free, High!Free, Top!Free, LowSent, HighSent, TopSent, Waiting, Merging
<1> QED
    BY <1>1, OverlayIs DEF Ahead, LowAhead, HighAhead, LowKept, HighKept

\* A step that changes neither what a group holds nor what is on its way.
LEMMA LowSame ==
    ASSUME LowRespected, lowCached' = lowCached, LowAhead' = LowAhead, LowKept' = LowKept
    PROVE  LowRespected'
BY DEF LowRespected, Respects

LEMMA HighSame ==
    ASSUME HighRespected, highCached' = highCached, HighAhead' = HighAhead, HighKept' = HighKept
    PROVE  HighRespected'
BY DEF HighRespected, Respects

(* Steps of the environment and of a path whose goroutine sends nothing. *)
LEMMA ChangeKeeps ==
    ASSUME IInv, NEW l \in Leaves, NEW k \in Keys, Change(l, k)
    PROVE  IInv'
<1> USE DEF IInv
<1>1. /\ changes' = changes + 1 /\ changes < MaxChanges
      /\ UNCHANGED <<lowVars, highVars, topVars, readVars, fails>>
      /\ pending' = [pending EXCEPT ![l] = TRUE]
    BY DEF Change
<1>2. PICK v \in {Absent, [src |-> l, ver |-> changes']} :
          content' = [content EXCEPT ![l][k] = v]
    BY DEF Change
<1>3. l \in Nat /\ changes \in Nat /\ changes' \in 0..MaxChanges
    BY <1>1, LayeredAssumption DEF TypeOK, Leaves, LowLeaves, HighLeaves
<1>4. v \in Value /\ v.src \in {l, 0}
    BY <1>1, <1>2, <1>3 DEF Absent, Value
<1>5. content' \in [Leaves -> Document]
    <2>1. [content[l] EXCEPT ![k] = v] \in Document
        BY <1>4 DEF TypeOK, Document
    <2> QED BY <1>2, <2>1 DEF TypeOK
<1>6. \A m \in Leaves : From(content[m], {m}) => From(content'[m], {m})
    BY <1>2, <1>4 DEF From, TypeOK, Document
<1>7. TypeOK'
    BY <1>1, <1>3, <1>5 DEF TypeOK, lowVars, highVars, topVars, readVars, Low!WatchTypeOK,
        High!WatchTypeOK, Top!WatchTypeOK
<1>8. UNCHANGED <<LowSent, HighSent, Ahead, LowAhead, HighAhead, LowKept, HighKept,
                  lowCached, highCached, topCached, Waiting(1), Waiting(2)>>
    BY <1>1 DEF lowVars, highVars, topVars, readVars, LowSent, HighSent, Ahead, LowAhead,
        HighAhead, LowKept, HighKept, Waiting, Merging, TopSent
<1>9. LowOrigins'
    <2>1. \A i \in 1..NLow : i \in Leaves
        BY DEF Leaves, LowLeaves
    <2> QED BY <1>1, <1>6, <1>8, <2>1 DEF LowOrigins, lowVars, From
<1>10. HighOrigins'
    <2>1. \A i \in 1..NHigh : NLow + i \in Leaves
        BY LayeredAssumption DEF Leaves, HighLeaves
    <2> QED BY <1>1, <1>6, <1>8, <2>1 DEF HighOrigins, highVars, From
<1> QED
    BY <1>7, <1>8, <1>9, <1>10, LowSame, HighSame

\* What a quiet step of a path leaves alone.
Quiet ==
    /\ UNCHANGED <<topVars, readVars, content, LowSent, HighSent, lowCached, highCached>>
    /\ pending' \in [Leaves -> BOOLEAN] /\ UNCHANGED changes /\ fails' \in 0..MaxFails

LEMMA QuietKeeps ==
    ASSUME IInv, Quiet, Low!WatchTypeOK', High!WatchTypeOK',
           \A j \in 1..NLow : lowPc'[j] = "got" => From(lowKvs'[j], {j}),
           \A j \in 1..NHigh : highPc'[j] = "got" => From(highKvs'[j], {NLow + j})
    PROVE  IInv'
<1> USE DEF IInv, Quiet
<1>1. UNCHANGED <<Ahead, LowAhead, HighAhead, LowKept, HighKept, topCached, Waiting(1), Waiting(2)>>
    BY DEF topVars, readVars, Ahead, LowAhead, HighAhead, LowKept, HighKept, Waiting, Merging, TopSent
<1>2. TypeOK'
    BY DEF TypeOK, topVars, readVars, Top!WatchTypeOK
<1>3. LowOrigins' /\ HighOrigins'
    BY <1>1 DEF LowOrigins, HighOrigins, From
<1> QED
    BY <1>1, <1>2, <1>3, LowSame, HighSame

\* The leaves of the groups by their numbers.
LEMMA LeafNumbers ==
    ASSUME NEW l \in Leaves
    PROVE  /\ l \in LowLeaves => l \in 1..NLow
           /\ l \in HighLeaves => l - NLow \in 1..NHigh /\ NLow + (l - NLow) = l
BY LayeredAssumption DEF Leaves, LowLeaves, HighLeaves

LEMMA WatchTypes == TypeOK => Low!WatchTypeOK /\ High!WatchTypeOK /\ Top!WatchTypeOK
BY DEF TypeOK

LEMMA LeafFrame ==
    ASSUME TypeOK, NEW l \in Leaves, LeafNext(l) \/ LeafError(l) \/ LeafRetry(l)
    PROVE  /\ UNCHANGED <<topVars, readVars, content, changes>>
           /\ pending' \in [Leaves -> BOOLEAN] /\ fails' \in 0..MaxFails
<1> USE LayeredAssumption DEF TypeOK
<1>1. CASE LeafNext(l)
    <2>1. UNCHANGED <<topVars, readVars, content, changes, fails>>
          /\ pending' = [pending EXCEPT ![l] = FALSE]
        BY <1>1 DEF LeafNext
    <2> QED BY <2>1
<1>2. CASE LeafError(l)
    <2>1. UNCHANGED <<topVars, readVars, content, pending, changes>>
          /\ fails < MaxFails /\ fails' = fails + 1
        BY <1>2 DEF LeafError
    <2> QED BY <2>1
<1>3. CASE LeafRetry(l)
    BY <1>3 DEF LeafRetry, envVars
<1> QED
    BY <1>1, <1>2, <1>3

LEMMA LowQuietKeeps ==
    ASSUME IInv, NEW l \in LowLeaves,
           \/ LeafNext(l) /\ Low!NextReturns(l, content[l])
           \/ LeafError(l) /\ Low!NextFails(l)
           \/ LeafRetry(l) /\ Low!Retry(l),
           UNCHANGED highVars
    PROVE  IInv'
<1> USE DEF IInv
<1>0. l \in Leaves /\ l \in 1..NLow
    BY DEF Leaves, LowLeaves
<1>1. content[l] \in Document /\ From(content[l], {l})
    BY <1>0 DEF TypeOK, LowOrigins
<1>2. /\ Low!WatchTypeOK' /\ LowSent' = LowSent /\ lowCached' = lowCached
      /\ \A j \in 1..NLow : lowPc'[j] = "got" =>
            \/ lowPc[j] = "got" /\ lowKvs'[j] = lowKvs[j]
            \/ j = l /\ lowKvs'[j] = content[l]
    BY <1>0, <1>1, LowQuiet, WatchTypes
<1>3. High!WatchTypeOK' /\ HighSent' = HighSent /\ highCached' = highCached
    BY WatchTypes DEF highVars, High!WatchTypeOK, HighSent
<1>4. Quiet
    BY <1>0, <1>2, <1>3, LeafFrame DEF Quiet
<1>5. \A j \in 1..NLow : lowPc'[j] = "got" => From(lowKvs'[j], {j})
    BY <1>1, <1>2 DEF LowOrigins
<1>6. \A j \in 1..NHigh : highPc'[j] = "got" => From(highKvs'[j], {NLow + j})
    BY DEF HighOrigins, highVars
<1> QED
    BY <1>2, <1>3, <1>4, <1>5, <1>6, QuietKeeps

LEMMA HighQuietKeeps ==
    ASSUME IInv, NEW l \in HighLeaves,
           \/ LeafNext(l) /\ High!NextReturns(l - NLow, content[l])
           \/ LeafError(l) /\ High!NextFails(l - NLow)
           \/ LeafRetry(l) /\ High!Retry(l - NLow),
           UNCHANGED lowVars
    PROVE  IInv'
<1> USE DEF IInv
<1> DEFINE i == l - NLow
<1>0. l \in Leaves /\ i \in 1..NHigh /\ NLow + i = l
    BY LeafNumbers DEF Leaves
<1> HIDE DEF i
<1>1. content[l] \in Document /\ From(content[l], {NLow + i})
    BY <1>0 DEF TypeOK, HighOrigins
<1>2. /\ High!WatchTypeOK' /\ HighSent' = HighSent /\ highCached' = highCached
      /\ \A j \in 1..NHigh : highPc'[j] = "got" =>
            \/ highPc[j] = "got" /\ highKvs'[j] = highKvs[j]
            \/ j = i /\ highKvs'[j] = content[l]
    BY <1>0, <1>1, HighQuiet, WatchTypes DEF i
<1>3. Low!WatchTypeOK' /\ LowSent' = LowSent /\ lowCached' = lowCached
    BY WatchTypes DEF lowVars, Low!WatchTypeOK, LowSent
<1>4. Quiet
    BY <1>0, <1>2, <1>3, LeafFrame DEF Quiet
<1>5. \A j \in 1..NHigh : highPc'[j] = "got" => From(highKvs'[j], {NLow + j})
    BY <1>1, <1>2 DEF HighOrigins
<1>6. \A j \in 1..NLow : lowPc'[j] = "got" => From(lowKvs'[j], {j})
    BY DEF LowOrigins, lowVars
<1> QED
    BY <1>2, <1>3, <1>4, <1>5, <1>6, QuietKeeps

(* The goroutine of a path stores and announces, and hands over. *)
LEMMA LowStoreKeeps ==
    ASSUME IInv, NEW i \in 1..NLow, Low!Publish(i),
           UNCHANGED <<highVars, topVars, readVars, envVars>>
    PROVE  IInv'
<1> USE DEF IInv
<1> DEFINE A == Concat(lowCached', i, NLow)
           X == Overlay(Ahead, Waiting(1))
           Y == Overlay(topCached[1], Waiting(1))
<1>0. NLow \in Nat /\ LowLeaves = 0 + 1 .. 0 + NLow /\ \A j \in 1..NLow : 0 + j = j
    BY LayeredAssumption DEF LowLeaves
<1>1. /\ Low!WatchTypeOK' /\ lowPc[i] = "got" /\ lowKvs[i] \in Document
      /\ lowCached \in [1..NLow -> Document]
      /\ lowCached' = [lowCached EXCEPT ![i] = lowKvs[i]]
      /\ LowSent = Nothing /\ LowSent' = A
      /\ \A j \in 1..NLow : lowPc'[j] = "got" => lowPc[j] = "got" /\ lowKvs'[j] = lowKvs[j]
    BY LowPublish, WatchTypes
<1>2. UNCHANGED <<Ahead, Waiting(1), Waiting(2), HighSent, highCached, topCached, content>>
    BY DEF highVars, topVars, readVars, envVars, Ahead, Waiting, HighSent, Merging, TopSent
<1>3. X \in Document /\ Y \in Document
    BY DocTypes, OverlayIs
<1>4. LowAhead = X /\ LowKept = Y /\ LowAhead' = Overlay(X, A) /\ LowKept' = Overlay(Y, A)
    BY <1>1, <1>2, <1>3, OverlayIs DEF LowAhead, LowKept
<1>5. \A j \in 1..NLow : From(lowCached'[j], {0 + j})
    BY <1>0, <1>1 DEF LowOrigins
<1> HIDE DEF X, Y
<1>6. LowRespected'
    <2>1. Respects(X, lowCached, NLow, 0) /\ Respects(Y, lowCached, NLow, 0)
        BY <1>4 DEF LowRespected
    <2>2. Respects(Overlay(X, A), lowCached', NLow, 0) /\ Respects(Overlay(Y, A), lowCached', NLow, 0)
        BY <1>0, <1>1, <1>3, <1>5, <2>1, Announced
    <2> QED BY <1>4, <2>2 DEF LowRespected, Respects
<1>7. HighRespected'
    <2>1. HighAhead' = HighAhead /\ HighKept' = HighKept
        BY <1>2 DEF HighAhead, HighKept
    <2> QED BY <1>2, <2>1, HighSame
<1>8. LowOrigins'
    <2>1. lowCached' \in [1..NLow -> Document]
        BY <1>1
    <2>2. From(A, LowLeaves)
        BY <1>0, <1>5, <2>1, AnnouncedFrom
    <2>3. From(LowSent, LowLeaves)'
        BY <1>1, <2>2 DEF From, LowLeaves
    <2> QED BY <1>0, <1>1, <1>2, <1>5, <2>3 DEF LowOrigins, From
<1>9. HighOrigins'
    BY <1>2 DEF HighOrigins, highVars, From
<1>10. TypeOK'
    BY <1>1 DEF TypeOK, highVars, topVars, readVars, envVars, High!WatchTypeOK, Top!WatchTypeOK
<1> QED
    BY <1>6, <1>7, <1>8, <1>9, <1>10

LEMMA HighStoreKeeps ==
    ASSUME IInv, NEW i \in 1..NHigh, High!Publish(i),
           UNCHANGED <<lowVars, topVars, readVars, envVars>>
    PROVE  IInv'
<1> USE DEF IInv
<1> DEFINE A == Concat(highCached', i, NHigh)
           X == Overlay(Ahead, Waiting(2))
           Y == Overlay(topCached[2], Waiting(2))
<1>0. NHigh \in Nat /\ HighLeaves = NLow + 1 .. NLow + NHigh /\ NLow \in Nat
    BY LayeredAssumption DEF HighLeaves
<1>1. /\ High!WatchTypeOK' /\ highPc[i] = "got" /\ highKvs[i] \in Document
      /\ highCached \in [1..NHigh -> Document]
      /\ highCached' = [highCached EXCEPT ![i] = highKvs[i]]
      /\ HighSent = Nothing /\ HighSent' = A
      /\ \A j \in 1..NHigh : highPc'[j] = "got" => highPc[j] = "got" /\ highKvs'[j] = highKvs[j]
    BY HighPublish, WatchTypes
<1>2. UNCHANGED <<Ahead, Waiting(2), Waiting(1), LowSent, lowCached, topCached, content>>
    BY DEF lowVars, topVars, readVars, envVars, Ahead, Waiting, LowSent, Merging, TopSent
<1>3. X \in Document /\ Y \in Document
    BY DocTypes, OverlayIs
<1>4. HighAhead = X /\ HighKept = Y /\ HighAhead' = Overlay(X, A) /\ HighKept' = Overlay(Y, A)
    BY <1>1, <1>2, <1>3, OverlayIs DEF HighAhead, HighKept
<1>5. \A j \in 1..NHigh : From(highCached'[j], {NLow + j})
    BY <1>0, <1>1 DEF HighOrigins
<1> HIDE DEF X, Y
<1>6. HighRespected'
    <2>1. Respects(X, highCached, NHigh, NLow) /\ Respects(Y, highCached, NHigh, NLow)
        BY <1>4 DEF HighRespected
    <2>2. Respects(Overlay(X, A), highCached', NHigh, NLow) /\ Respects(Overlay(Y, A), highCached', NHigh, NLow)
        BY <1>0, <1>1, <1>3, <1>5, <2>1, Announced
    <2> QED BY <1>4, <2>2 DEF HighRespected, Respects
<1>7. LowRespected'
    <2>1. LowAhead' = LowAhead /\ LowKept' = LowKept
        BY <1>2 DEF LowAhead, LowKept
    <2> QED BY <1>2, <2>1, LowSame
<1>8. HighOrigins'
    <2>1. highCached' \in [1..NHigh -> Document]
        BY <1>1
    <2>2. From(A, HighLeaves)
        BY <1>0, <1>5, <2>1, AnnouncedFrom
    <2>3. From(HighSent, HighLeaves)'
        BY <1>1, <2>2 DEF From, HighLeaves
    <2> QED BY <1>0, <1>1, <1>2, <1>5, <2>3 DEF HighOrigins, From
<1>9. LowOrigins'
    BY <1>2 DEF LowOrigins, lowVars, From
<1>10. TypeOK'
    BY <1>1 DEF TypeOK, lowVars, topVars, readVars, envVars, Low!WatchTypeOK, Top!WatchTypeOK
<1> QED
    BY <1>6, <1>7, <1>8, <1>9, <1>10

LEMMA LowPassOnKeeps ==
    ASSUME IInv, NEW i \in 1..NLow, Low!Handoff(i), Top!NextReturns(1, lowKvs[i]),
           UNCHANGED <<highVars, readVars, envVars>>
    PROVE  IInv'
<1> USE DEF IInv
<1> DEFINE d == lowKvs[i]
<1>1. /\ Low!WatchTypeOK' /\ lowCached' = lowCached /\ d \in Document
      /\ LowSent = d /\ LowSent' = Nothing
      /\ \A j \in 1..NLow : lowPc'[j] = "got" => lowPc[j] = "got" /\ lowKvs'[j] = lowKvs[j]
    BY LowHandoff, WatchTypes
<1> HIDE DEF d
<1>2. /\ Top!WatchTypeOK' /\ topCached' = topCached /\ TopSent' = TopSent
      /\ Waiting(1) = Nothing /\ Waiting(1)' = d /\ Waiting(2)' = Waiting(2)
    <2>1. 1 \in 1..2 /\ 2 \in 1..2 \ {1}
        OBVIOUS
    <2> QED BY <1>1, <2>1, TopReturns, WatchTypes DEF d
<1>3. UNCHANGED <<Ahead, HighSent, highCached, content>>
    BY <1>2 DEF highVars, readVars, envVars, Ahead, HighSent, Merging
<1>4. LowAhead' = LowAhead /\ LowKept' = LowKept
    <2>1. Ahead \in Document /\ topCached[1] \in Document
        BY DocTypes
    <2>2. Overlay(Ahead, d) \in Document /\ Overlay(topCached[1], d) \in Document
        BY <1>1, <2>1, OverlayIs
    <2> QED BY <1>1, <1>2, <1>3, <2>1, <2>2, OverlayIs DEF LowAhead, LowKept
<1>5. HighAhead' = HighAhead /\ HighKept' = HighKept
    BY <1>2, <1>3 DEF HighAhead, HighKept
<1>6. LowOrigins'
    <2>1. From(Waiting(1), LowLeaves)'
        BY <1>1, <1>2 DEF LowOrigins, From, LowLeaves
    <2>2. From(LowSent, LowLeaves)'
        BY <1>1 DEF From, Nothing, Absent
    <2> QED BY <1>1, <1>2, <1>3, <2>1, <2>2 DEF LowOrigins, From
<1>7. HighOrigins'
    BY <1>2, <1>3 DEF HighOrigins, highVars, From
<1>8. TypeOK'
    BY <1>1, <1>2 DEF TypeOK, highVars, readVars, envVars, High!WatchTypeOK
<1> QED
    BY <1>1, <1>3, <1>4, <1>5, <1>6, <1>7, <1>8, LowSame, HighSame

LEMMA HighPassOnKeeps ==
    ASSUME IInv, NEW i \in 1..NHigh, High!Handoff(i), Top!NextReturns(2, highKvs[i]),
           UNCHANGED <<lowVars, readVars, envVars>>
    PROVE  IInv'
<1> USE DEF IInv
<1> DEFINE d == highKvs[i]
<1>1. /\ High!WatchTypeOK' /\ highCached' = highCached /\ d \in Document
      /\ HighSent = d /\ HighSent' = Nothing
      /\ \A j \in 1..NHigh : highPc'[j] = "got" => highPc[j] = "got" /\ highKvs'[j] = highKvs[j]
    BY HighHandoff, WatchTypes
<1> HIDE DEF d
<1>2. /\ Top!WatchTypeOK' /\ topCached' = topCached /\ TopSent' = TopSent
      /\ Waiting(2) = Nothing /\ Waiting(2)' = d /\ Waiting(1)' = Waiting(1)
    <2>1. 2 \in 1..2 /\ 1 \in 1..2 \ {2}
        OBVIOUS
    <2> QED BY <1>1, <2>1, TopReturns, WatchTypes DEF d
<1>3. UNCHANGED <<Ahead, LowSent, lowCached, content>>
    BY <1>2 DEF lowVars, readVars, envVars, Ahead, LowSent, Merging
<1>4. HighAhead' = HighAhead /\ HighKept' = HighKept
    <2>1. Ahead \in Document /\ topCached[2] \in Document
        BY DocTypes
    <2>2. Overlay(Ahead, d) \in Document /\ Overlay(topCached[2], d) \in Document
        BY <1>1, <2>1, OverlayIs
    <2> QED BY <1>1, <1>2, <1>3, <2>1, <2>2, OverlayIs DEF HighAhead, HighKept
<1>5. LowAhead' = LowAhead /\ LowKept' = LowKept
    BY <1>2, <1>3 DEF LowAhead, LowKept
<1>6. HighOrigins'
    <2>1. From(Waiting(2), HighLeaves)'
        BY <1>1, <1>2 DEF HighOrigins, From, HighLeaves
    <2>2. From(HighSent, HighLeaves)'
        BY <1>1 DEF From, Nothing, Absent
    <2> QED BY <1>1, <1>2, <1>3, <2>1, <2>2 DEF HighOrigins, From
<1>7. LowOrigins'
    BY <1>2, <1>3 DEF LowOrigins, lowVars, From
<1>8. TypeOK'
    BY <1>1, <1>2 DEF TypeOK, lowVars, readVars, envVars, Low!WatchTypeOK
<1> QED
    BY <1>1, <1>3, <1>4, <1>5, <1>6, <1>7, <1>8, HighSame, LowSame

LEMMA ReceiveKeeps ==
    ASSUME IInv, NEW g \in 1..2, Receive(g)
    PROVE  IInv'
<1> USE DEF IInv
<1> DEFINE d == topKvs[g]
<1>1. /\ Top!WatchTypeOK' /\ topCached' = topCached /\ d \in Document
      /\ TopSent = d /\ TopSent' = Nothing
      /\ \A h \in 1..2 : Waiting(h)' = Waiting(h)
    BY TopHandoff, WatchTypes DEF Receive
<1>2. /\ rpc = "next" /\ rpc' = "merge" /\ rbuf' = d /\ Merging = Nothing /\ Merging' = d
      /\ UNCHANGED <<lowVars, highVars, view, envVars>>
    BY DEF Receive, Merging
<1> HIDE DEF d
<1>3. Ahead' = Ahead
    <2>1. view \in Document /\ Overlay(view, d) \in Document
        BY <1>1, DocTypes, OverlayIs
    <2> QED BY <1>1, <1>2, <2>1, OverlayIs DEF Ahead
<1>4. UNCHANGED <<LowSent, HighSent, lowCached, highCached, content, Waiting(1), Waiting(2), topCached>>
    BY <1>1, <1>2 DEF lowVars, highVars, envVars, LowSent, HighSent
<1>5. UNCHANGED <<LowAhead, LowKept, HighAhead, HighKept>>
    BY <1>3, <1>4 DEF LowAhead, LowKept, HighAhead, HighKept
<1>6. LowOrigins' /\ HighOrigins'
    BY <1>2, <1>4 DEF LowOrigins, HighOrigins, lowVars, highVars, From
<1>7. TypeOK'
    BY <1>1, <1>2 DEF TypeOK, lowVars, highVars, envVars, Low!WatchTypeOK, High!WatchTypeOK
<1> QED
    BY <1>4, <1>5, <1>6, <1>7, LowSame, HighSame

LEMMA MergeKeeps ==
    ASSUME IInv, Merge
    PROVE  IInv'
<1> USE DEF IInv
<1>1. /\ view' = Overlay(view, Merging) /\ Merging' = Nothing /\ rpc' = "next"
      /\ UNCHANGED <<lowVars, highVars, topVars, rbuf, envVars>>
    BY DEF Merge, Merging
<1>2. UNCHANGED <<LowSent, HighSent, lowCached, highCached, content, Waiting(1), Waiting(2), topCached,
                  TopSent>>
    BY <1>1 DEF lowVars, highVars, topVars, envVars, LowSent, HighSent, TopSent, Waiting
<1>3. view' \in Document
    BY <1>1, DocTypes, OverlayIs
<1>4. Ahead' = Ahead
    <2>1. Ahead' = Overlay(Overlay(view', Nothing), TopSent)
        BY <1>1, <1>2 DEF Ahead
    <2>2. Overlay(view', Nothing) = view'
        BY <1>3, OverlayIs
    <2> QED BY <1>1, <2>1, <2>2 DEF Ahead
<1>5. UNCHANGED <<LowAhead, LowKept, HighAhead, HighKept>>
    BY <1>2, <1>4 DEF LowAhead, LowKept, HighAhead, HighKept
<1>6. LowOrigins' /\ HighOrigins'
    BY <1>1, <1>2 DEF LowOrigins, HighOrigins, lowVars, highVars, From
<1>7. TypeOK'
    BY <1>1, <1>3 DEF TypeOK, lowVars, highVars, topVars, envVars, Low!WatchTypeOK, High!WatchTypeOK,
        Top!WatchTypeOK
<1> QED
    BY <1>2, <1>5, <1>6, <1>7, LowSame, HighSame

(* The top source stores what a group has announced and announces it with  *)
(* what it holds of the high group.                                        *)
LEMMA GroupSent ==
    ASSUME TypeOK, NEW g \in 1..2, GroupStore(g)
    PROVE  /\ Top!WatchTypeOK' /\ TopSent = Nothing /\ Waiting(g)' = Nothing
           /\ \A h \in 1..2 \ {g} : Waiting(h)' = Waiting(h) /\ topCached'[h] = topCached[h]
           /\ topCached'[g] = Waiting(g)
           /\ \A k \in Keys : TopSent'[k] =
                 IF Defines(topCached'[2], k) THEN topCached'[2][k]
                 ELSE IF g = 1 /\ Defines(topCached'[1], k) THEN topCached'[1][k]
                 ELSE Absent
           /\ UNCHANGED <<lowVars, highVars, readVars, envVars>>
<1>1. /\ Top!WatchTypeOK' /\ topCached \in [1..2 -> Document]
      /\ topCached' = [topCached EXCEPT ![g] = Waiting(g)]
      /\ TopSent = Nothing /\ TopSent' = Concat(topCached', g, 2)
      /\ Waiting(g)' = Nothing /\ \A h \in 1..2 \ {g} : Waiting(h)' = Waiting(h)
    BY TopPublish, WatchTypes DEF GroupStore
<1>2. ASSUME NEW k \in Keys
      PROVE  TopSent'[k] = IF Defines(topCached'[2], k) THEN topCached'[2][k]
                           ELSE IF g = 1 /\ Defines(topCached'[1], k) THEN topCached'[1][k]
                           ELSE Absent
    <2>1. CASE \A j \in g..2 : ~Defines(topCached'[j], k)
        <3>1. Concat(topCached', g, 2)[k] = Absent
            BY <2>1, ConcatIs
        <3> QED BY <1>1, <2>1, <3>1
    <2>2. CASE \E j \in g..2 : Defines(topCached'[j], k)
        <3>1. PICK m \in g..2 : /\ Defines(topCached'[m], k)
                                /\ Concat(topCached', g, 2)[k] = topCached'[m][k]
                                /\ \A j \in g..2 : Defines(topCached'[j], k) => j <= m
            BY <2>2, ConcatIs
        <3>2. 2 \in g..2 /\ (m = 2 \/ (m = 1 /\ g = 1))
            <4>1. g = 1 \/ g = 2
                OBVIOUS
            <4>2. m \in g..2
                BY <3>1
            <4>3. CASE g = 1
                BY <4>2, <4>3
            <4>4. CASE g = 2
                BY <4>2, <4>4
            <4> QED BY <4>1, <4>3, <4>4
        <3>3. CASE m = 2
            BY <1>1, <3>1, <3>3
        <3>4. CASE m = 1 /\ g = 1
            <4>1. ~Defines(topCached'[2], k)
                BY <3>1, <3>2, <3>4
            <4> QED BY <1>1, <3>1, <3>4, <4>1
        <3> QED BY <3>2, <3>3, <3>4
    <2> QED BY <2>1, <2>2
<1> QED
    BY <1>1, <1>2 DEF GroupStore

\* A view or a list with everything that follows it, under one key.
Last(a, b, c, d, k) ==
    IF Defines(d, k) THEN d[k] ELSE IF Defines(c, k) THEN c[k]
    ELSE IF Defines(b, k) THEN b[k] ELSE a[k]

LEMMA ChainIs ==
    ASSUME NEW a, NEW b, NEW c, NEW d
    PROVE  \A k \in Keys :
             /\ Overlay(Overlay(Overlay(a, b), c), d)[k] = Last(a, b, c, d, k)
             /\ Overlay(Overlay(a, c), d)[k] = Last(a, Nothing, c, d, k)
<1> TAKE k \in Keys
<1> DEFINE ab == Overlay(a, b)
           abc == Overlay(ab, c)
           ac == Overlay(a, c)
<1>1. ab[k] = IF Defines(b, k) THEN b[k] ELSE a[k]
    BY OverlayIs
<1>2. abc[k] = IF Defines(c, k) THEN c[k] ELSE ab[k]
    BY OverlayIs
<1>3. Overlay(abc, d)[k] = IF Defines(d, k) THEN d[k] ELSE abc[k]
    BY OverlayIs
<1>4. ac[k] = IF Defines(c, k) THEN c[k] ELSE a[k]
    BY OverlayIs
<1>5. Overlay(ac, d)[k] = IF Defines(d, k) THEN d[k] ELSE ac[k]
    BY OverlayIs
<1>6. ~Defines(Nothing, k)
    BY DEF Nothing, Defines, Absent
<1> HIDE DEF ab, abc, ac
<1>7. Overlay(abc, d)[k] = Last(a, b, c, d, k)
    BY <1>1, <1>2, <1>3 DEF Last
<1>8. Overlay(ac, d)[k] = Last(a, Nothing, c, d, k)
    BY <1>4, <1>5, <1>6 DEF Last
<1> QED
    BY <1>7, <1>8 DEF ab, abc, ac

LEMMA GroupStoreKeeps ==
    ASSUME IInv, NEW g \in 1..2, GroupStore(g)
    PROVE  IInv'
<1> USE DEF IInv
<1> DEFINE B == Overlay(view, Merging)
           S == TopSent'
           L == LowSent
           H == HighSent
           d1 == Waiting(1)
           d2 == Waiting(2)
           t1 == topCached[1]
           t2 == topCached[2]
<1>1. UNCHANGED <<LowSent, HighSent, B, lowCached, highCached, content>>
    BY GroupSent DEF lowVars, highVars, readVars, envVars, LowSent, HighSent, Merging
<1>2. \A k \in Keys :
        /\ LowAhead[k] = Last(B, Nothing, d1, L, k) /\ HighAhead[k] = Last(B, Nothing, d2, H, k)
        /\ LowKept[k] = Last(t1, Nothing, d1, L, k) /\ HighKept[k] = Last(t2, Nothing, d2, H, k)
    <2>1. Ahead = B
        BY GroupSent, DocTypes, OverlayIs DEF Ahead
    <2> QED BY <2>1, ChainIs DEF LowAhead, HighAhead, LowKept, HighKept
<1>3. \A k \in Keys :
        /\ LowAhead'[k] = Last(B, S, d1', L, k) /\ HighAhead'[k] = Last(B, S, d2', H, k)
        /\ LowKept'[k] = Last(t1', Nothing, d1', L, k) /\ HighKept'[k] = Last(t2', Nothing, d2', H, k)
    BY <1>1, ChainIs DEF LowAhead, HighAhead, LowKept, HighKept, Ahead
<1>4. \A k \in Keys : /\ L[k].src \in LowLeaves \cup {0} /\ d1[k].src \in LowLeaves \cup {0}
                       /\ t1[k].src \in LowLeaves \cup {0}
                       /\ H[k].src \in HighLeaves \cup {0} /\ d2[k].src \in HighLeaves \cup {0}
                       /\ t2[k].src \in HighLeaves \cup {0}
    BY DEF LowOrigins, HighOrigins, From
<1>5. /\ \A l \in LowLeaves : l # 0 /\ l \notin HighLeaves
      /\ \A l \in HighLeaves : l # 0 /\ l \notin LowLeaves
    BY LayeredAssumption DEF LowLeaves, HighLeaves
<1>6. /\ Nothing = d1' /\ d2' = d2 /\ t1' = d1 /\ t2' = t2
         /\ \A k \in Keys : S[k] = IF Defines(t2, k) THEN t2[k]
                                   ELSE IF Defines(d1, k) THEN d1[k] ELSE Absent
      \/ /\ Nothing = d2' /\ d1' = d1 /\ t2' = d2 /\ t1' = t1
         /\ \A k \in Keys : S[k] = IF Defines(d2, k) THEN d2[k] ELSE Absent
    <2>1. CASE g = 1
        <3>1. 2 \in 1..2 \ {g}
            BY <2>1
        <3> QED BY <2>1, <3>1, GroupSent
    <2>2. CASE g = 2
        <3>1. 1 \in 1..2 \ {g}
            BY <2>2
        <3> QED BY <2>2, <3>1, GroupSent
    <2> QED BY <2>1, <2>2
<1>7. Top!WatchTypeOK' /\ UNCHANGED <<lowVars, highVars, readVars, envVars>>
    BY GroupSent
<1> HIDE DEF B, S, L, H, d1, d2, t1, t2
<1>8. \A k \in Keys :
        /\ LowAhead'[k].src \in LowLeaves => LowAhead'[k] = LowAhead[k] \/ LowAhead'[k] = LowKept[k]
        /\ LowKept'[k].src \in LowLeaves => LowKept'[k] = LowAhead[k] \/ LowKept'[k] = LowKept[k]
        /\ HighAhead'[k].src \in HighLeaves =>
              HighAhead'[k] = HighAhead[k] \/ HighAhead'[k] = HighKept[k]
        /\ HighKept'[k].src \in HighLeaves =>
              HighKept'[k] = HighAhead[k] \/ HighKept'[k] = HighKept[k]
    <2> TAKE k \in Keys
    <2>1. ~Defines(Nothing, k) /\ Absent.src = 0
        BY DEF Defines, Nothing, Absent
    <2> QED BY <1>2, <1>3, <1>4, <1>5, <1>6, <2>1 DEF Last, Defines
<1>9. LowRespected' /\ HighRespected'
    <2>1. LowLeaves = 0 + 1 .. 0 + NLow /\ HighLeaves = NLow + 1 .. NLow + NHigh
        BY LayeredAssumption DEF LowLeaves, HighLeaves
    <2>2. /\ Respects(LowAhead', lowCached, NLow, 0) /\ Respects(LowKept', lowCached, NLow, 0)
        BY <1>8, <2>1, RespectsFrom DEF LowRespected
    <2>3. /\ Respects(HighAhead', highCached, NHigh, NLow)
          /\ Respects(HighKept', highCached, NHigh, NLow)
        BY <1>8, <2>1, RespectsFrom DEF HighRespected
    <2> QED BY <1>1, <2>2, <2>3 DEF LowRespected, HighRespected, Respects
<1>10. LowOrigins' /\ HighOrigins'
    <2>1. From(Waiting(1)', LowLeaves) /\ From(topCached'[1], LowLeaves)
        BY <1>4, <1>6 DEF From, Nothing, Absent, d1, t1
    <2>2. From(Waiting(2)', HighLeaves) /\ From(topCached'[2], HighLeaves)
        BY <1>4, <1>6 DEF From, Nothing, Absent, d2, t2
    <2> QED BY <1>1, <1>7, <2>1, <2>2 DEF LowOrigins, HighOrigins, lowVars, highVars, From, LowLeaves,
                HighLeaves
<1>11. TypeOK'
    BY <1>7 DEF TypeOK, lowVars, highVars, readVars, envVars, Low!WatchTypeOK, High!WatchTypeOK
<1> QED
    BY <1>9, <1>10, <1>11

-----------------------------------------------------------------------------
(* The initial state: everything has been loaded, nothing is on its way. *)
LEMMA Loaded ==
    ASSUME NEW n \in Nat \ {0}, NEW base \in Nat, NEW docs \in [1..n -> Document],
           \A j \in 1..n : From(docs[j], {base + j})
    PROVE  /\ Concat(docs, 1, n) \in Document
           /\ From(Concat(docs, 1, n), base + 1 .. base + n)
           /\ Respects(Concat(docs, 1, n), docs, n, base)
<1>1. n \in Nat /\ 1 \in 1..n
    OBVIOUS
<1>2. Concat(docs, 1, n) \in Document /\ From(Concat(docs, 1, n), base + 1 .. base + n)
    BY <1>1, ConcatType, AnnouncedFrom
<1>3. Respects(Concat(docs, 1, n), docs, n, base)
    <2> SUFFICES ASSUME NEW j \in 1..n, NEW k \in Keys, Defines(docs[j], k)
                 PROVE  Concat(docs, 1, n)[k].src > base + j \/ Concat(docs, 1, n)[k] = docs[j][k]
        BY DEF Respects
    <2>1. PICK m \in 1..n : /\ Defines(docs[m], k) /\ Concat(docs, 1, n)[k] = docs[m][k]
                            /\ \A l \in 1..n : Defines(docs[l], k) => l <= m
        BY <1>1, ConcatIs
    <2>2. j <= m /\ docs[m][k].src = base + m
        BY <2>1 DEF From, Defines
    <2> QED BY <2>1, <2>2
<1> QED
    BY <1>2, <1>3

LEMMA InitInv == Init => IInv
<1> SUFFICES ASSUME Init PROVE IInv
    OBVIOUS
<1>0. /\ NLow \in Nat \ {0} /\ NHigh \in Nat \ {0} /\ MaxChanges \in Nat /\ MaxFails \in Nat
      /\ LowLeaves = 1..NLow /\ HighLeaves = NLow + 1 .. NLow + NHigh
    BY LayeredAssumption DEF LowLeaves, HighLeaves
<1>1. PICK defined \in SUBSET (Leaves \X Keys) :
         content = [l \in Leaves |-> [k \in Keys |->
                      IF <<l, k>> \in defined THEN [src |-> l, ver |-> 0] ELSE Absent]]
    BY DEF Init
<1>2. \A l \in Leaves : l \in Nat /\ content[l] \in Document /\ From(content[l], {l})
    <2> TAKE l \in Leaves
    <2>1. l \in Nat
        BY <1>0 DEF Leaves
    <2>2. content[l] = [k \in Keys |-> IF <<l, k>> \in defined THEN [src |-> l, ver |-> 0] ELSE Absent]
        BY <1>1
    <2> QED BY <2>1, <2>2 DEF From, Document, Value, Absent
<1>3. content \in [Leaves -> Document]
    BY <1>1, <1>2
<1>4. /\ lowCached \in [1..NLow -> Document] /\ \A i \in 1..NLow : From(lowCached[i], {0 + i})
      /\ \A i \in 1..NLow : From(content[i], {i}) /\ From(lowCached[i], {i})
    <2>1. \A i \in 1..NLow : i \in Leaves /\ 0 + i = i
        BY <1>0 DEF Leaves
    <2>2. lowCached = [i \in 1..NLow |-> content[i]]
        BY <1>0 DEF Init
    <2> QED BY <1>2, <2>1, <2>2
<1>5. /\ highCached \in [1..NHigh -> Document] /\ \A i \in 1..NHigh : From(highCached[i], {NLow + i})
      /\ \A i \in 1..NHigh : From(content[NLow + i], {NLow + i})
    <2>1. \A i \in 1..NHigh : NLow + i \in Leaves
        BY <1>0 DEF Leaves
    <2>2. highCached = [i \in 1..NHigh |-> content[NLow + i]]
        BY DEF Init
    <2> QED BY <1>2, <2>1, <2>2
<1> DEFINE low == Concat(lowCached, 1, NLow)
           high == Concat(highCached, 1, NHigh)
<1>6. low \in Document /\ From(low, LowLeaves) /\ Respects(low, lowCached, NLow, 0)
    <2>1. LowLeaves = 0 + 1 .. 0 + NLow
        BY <1>0
    <2> QED BY <1>0, <1>4, <2>1, Loaded
<1>7. high \in Document /\ From(high, HighLeaves) /\ Respects(high, highCached, NHigh, NLow)
    BY <1>0, <1>5, Loaded
<1>8. topCached = <<low, high>> /\ view = Concat(topCached, 1, 2)
    BY DEF Init
<1> HIDE DEF low, high
<1>9. topCached[1] = low /\ topCached[2] = high /\ topCached \in [1..2 -> Document]
    BY <1>6, <1>7, <1>8
<1>10. view \in Document /\ \A k \in Keys : view[k] = low[k] \/ view[k] = high[k] \/ view[k] = Absent
    <2>1. 1 \in 1..2 /\ 2 \in Nat /\ \A m \in 1..2 : m = 1 \/ m = 2
        OBVIOUS
    <2>2. view \in Document
        BY <1>8, <1>9, <2>1, ConcatType
    <2>3. ASSUME NEW k \in Keys PROVE view[k] = low[k] \/ view[k] = high[k] \/ view[k] = Absent
        <3>1. view[k] = Absent \/ \E m \in 1..2 : view[k] = topCached[m][k]
            <4>1. CASE \A j \in 1..2 : ~Defines(topCached[j], k)
                BY <1>8, <2>1, <4>1, ConcatIs
            <4>2. CASE \E j \in 1..2 : Defines(topCached[j], k)
                <5>1. PICK m \in 1..2 : Concat(topCached, 1, 2)[k] = topCached[m][k]
                    BY <2>1, <4>2, ConcatIs
                <5> QED BY <1>8, <5>1
            <4> QED BY <4>1, <4>2
        <3> QED BY <1>9, <2>1, <3>1
    <2> QED BY <2>2, <2>3
<1>11. /\ LowSent = Nothing /\ HighSent = Nothing /\ TopSent = Nothing /\ Merging = Nothing
       /\ \A g \in 1..2 : Waiting(g) = Nothing
       /\ rbuf = Nothing
    BY DEF Init, LowSent, HighSent, TopSent, Merging, Waiting, Nothing
<1>12. /\ Ahead = view /\ LowAhead = view /\ HighAhead = view
       /\ LowKept = low /\ HighKept = high
    <2>1. 1 \in 1..2 /\ 2 \in 1..2
        OBVIOUS
    <2>2. Ahead = view
        BY <1>10, <1>11, OverlayIs DEF Ahead
    <2> QED BY <1>6, <1>7, <1>9, <1>10, <1>11, <2>1, <2>2, OverlayIs
            DEF LowAhead, HighAhead, LowKept, HighKept
<1>13. TypeOK
    <2>0. /\ lowLock = 0 /\ highLock = 0 /\ topLock = 0
          /\ lowPc = [i \in 1..NLow |-> "next"] /\ lowKvs = [i \in 1..NLow |-> Nothing]
          /\ highPc = [i \in 1..NHigh |-> "next"] /\ highKvs = [i \in 1..NHigh |-> Nothing]
          /\ topPc = [g \in 1..2 |-> "next"] /\ topKvs = [g \in 1..2 |-> Nothing]
          /\ pending = [l \in Leaves |-> FALSE] /\ rpc = "next" /\ changes = 0 /\ fails = 0
        BY <1>0, <1>11 DEF Init
    <2>1. Low!WatchTypeOK
        <3>1. 0 \notin 1..NLow
            OBVIOUS
        <3> QED BY <1>4, <2>0, <3>1, NothingType, SameDocument
                DEF Low!WatchTypeOK, Low!Sources, Low!PCs, Low!Free
    <2>2. High!WatchTypeOK
        <3>1. 0 \notin 1..NHigh
            OBVIOUS
        <3> QED BY <1>5, <2>0, <3>1, NothingType, SameDocument
                DEF High!WatchTypeOK, High!Sources, High!PCs, High!Free
    <2>3. Top!WatchTypeOK
        <3>1. 0 \notin 1..2
            OBVIOUS
        <3> QED BY <1>9, <2>0, <3>1, NothingType, SameDocument
                DEF Top!WatchTypeOK, Top!Sources, Top!PCs, Top!Free
    <2>4. 0 \in 0..MaxChanges /\ 0 \in 0..MaxFails
        BY <1>0
    <2> QED BY <1>3, <1>10, <1>11, <2>0, <2>1, <2>2, <2>3, <2>4, NothingType DEF TypeOK
<1>14. LowOrigins /\ HighOrigins
    <2>1. \A S : From(Nothing, S)
        BY DEF From, Nothing, Absent
    <2>2. \A i \in 1..NLow : lowPc[i] = "next"
        BY <1>0 DEF Init
    <2>3. \A i \in 1..NHigh : highPc[i] = "next"
        BY DEF Init
    <2> QED BY <1>4, <1>5, <1>6, <1>7, <1>9, <1>11, <2>1, <2>2, <2>3 DEF LowOrigins, HighOrigins
<1>15. LowRespected /\ HighRespected
    <2>1. \A k \in Keys : /\ view[k].src \in LowLeaves => view[k] = low[k]
                          /\ view[k].src \in HighLeaves => view[k] = high[k]
        <3>1. /\ \A k \in Keys : low[k].src \in LowLeaves \cup {0}
                                 /\ high[k].src \in HighLeaves \cup {0}
              /\ Absent.src = 0
            BY <1>6, <1>7 DEF From, Absent
        <3>2. 0 \notin LowLeaves /\ 0 \notin HighLeaves
              /\ \A l \in LowLeaves : l \notin HighLeaves
            BY <1>0
        <3> QED BY <1>10, <3>1, <3>2
    <2>2. LowLeaves = 0 + 1 .. 0 + NLow
        BY <1>0
    <2>3. Respects(view, lowCached, NLow, 0)
        BY <1>6, <2>1, <2>2, RespectsFrom
    <2>4. Respects(view, highCached, NHigh, NLow)
        BY <1>0, <1>7, <2>1, RespectsFrom
    <2> QED BY <1>6, <1>7, <1>12, <2>3, <2>4 DEF LowRespected, HighRespected
<1> QED
    BY <1>13, <1>14, <1>15 DEF IInv

-----------------------------------------------------------------------------
(* Every step keeps the invariant. *)
LEMMA StutterKeeps == IInv /\ UNCHANGED vars => IInv'
<1> SUFFICES ASSUME IInv, UNCHANGED vars PROVE IInv'
    OBVIOUS
<1>1. UNCHANGED <<lowVars, highVars, topVars, readVars, envVars>>
    BY DEF vars
<1>2. Low!WatchTypeOK' /\ High!WatchTypeOK'
    BY <1>1, WatchTypes DEF IInv, lowVars, highVars, Low!WatchTypeOK, High!WatchTypeOK
<1>3. Quiet
    BY <1>1 DEF IInv, TypeOK, Quiet, lowVars, highVars, topVars, readVars, envVars, LowSent, HighSent
<1>4. /\ \A j \in 1..NLow : lowPc'[j] = "got" => From(lowKvs'[j], {j})
      /\ \A j \in 1..NHigh : highPc'[j] = "got" => From(highKvs'[j], {NLow + j})
    BY <1>1 DEF IInv, LowOrigins, HighOrigins, lowVars, highVars
<1> QED
    BY <1>2, <1>3, <1>4, QuietKeeps

LEMMA LeafKeeps ==
    ASSUME IInv, NEW l \in Leaves,
           LeafNext(l) \/ LeafError(l) \/ LeafRetry(l) \/ LeafStore(l) \/ PassOn(l)
    PROVE  IInv'
<1>0. /\ l \in LowLeaves => l \in 1..NLow
      /\ l \in HighLeaves => l - NLow \in 1..NHigh
    BY LeafNumbers
<1>1. CASE LeafNext(l)
    BY <1>1, LowQuietKeeps, HighQuietKeeps DEF LeafNext
<1>2. CASE LeafError(l)
    BY <1>2, LowQuietKeeps, HighQuietKeeps DEF LeafError
<1>3. CASE LeafRetry(l)
    BY <1>3, LowQuietKeeps, HighQuietKeeps DEF LeafRetry
<1>4. CASE LeafStore(l)
    BY <1>0, <1>4, LowStoreKeeps, HighStoreKeeps DEF LeafStore
<1>5. CASE PassOn(l)
    BY <1>0, <1>5, LowPassOnKeeps, HighPassOnKeeps DEF PassOn, LowGroup, HighGroup
<1> QED
    BY <1>1, <1>2, <1>3, <1>4, <1>5

LEMMA StepInv == IInv /\ [Next]_vars => IInv'
<1> SUFFICES ASSUME IInv, [Next]_vars PROVE IInv'
    OBVIOUS
<1>1. CASE UNCHANGED vars
    BY <1>1, StutterKeeps
<1>2. CASE \E l \in Leaves, k \in Keys : Change(l, k)
    BY <1>2, ChangeKeeps
<1>3. CASE \E l \in Leaves :
              LeafNext(l) \/ LeafError(l) \/ LeafRetry(l) \/ LeafStore(l) \/ PassOn(l)
    BY <1>3, LeafKeeps
<1>4. CASE \E g \in 1..2 : GroupStore(g)
    BY <1>4, GroupStoreKeeps
<1>5. CASE \E g \in 1..2 : Receive(g)
    BY <1>5, ReceiveKeeps
<1>6. CASE Merge
    BY <1>6, MergeKeeps
<1> QED
    BY <1>1, <1>2, <1>3, <1>4, <1>5, <1>6 DEF Next

(* When nothing is on its way the view is the one ahead. *)
LEMMA Prioritised == IInv => GroupPriority
<1> SUFFICES ASSUME IInv, Settled, NEW l \in Leaves, NEW k \in Keys,
                    Defines(LeafDocs[l], k), view[k].src \in GroupOf(l)
             PROVE  view[k].src > l \/ view[k] = LeafDocs[l][k]
    BY DEF GroupPriority
<1>0. /\ l \in LowLeaves => l \in 1..NLow
      /\ l \in HighLeaves => l - NLow \in 1..NHigh /\ NLow + (l - NLow) = l
      /\ LowLeaves = 0 + 1 .. 0 + NLow /\ HighLeaves = NLow + 1 .. NLow + NHigh
    BY LeafNumbers, LayeredAssumption DEF LowLeaves, HighLeaves
<1>1. lowLock = 0 /\ highLock = 0 /\ topLock = 0
    <2>1. 1..NLow = LowLeaves
        BY DEF LowLeaves
    <2> QED BY <2>1 DEF IInv, TypeOK, Settled, Low!WatchTypeOK, High!WatchTypeOK, Top!WatchTypeOK,
               Low!Sources, High!Sources, Top!Sources, Low!Free, High!Free, Top!Free
<1>2. /\ LowSent = Nothing /\ HighSent = Nothing /\ TopSent = Nothing /\ Merging = Nothing
      /\ Waiting(1) = Nothing /\ Waiting(2) = Nothing
    <2>1. topPc[1] = "next" /\ topPc[2] = "next" /\ rpc = "next"
        BY DEF Settled
    <2> QED BY <1>1, <2>1 DEF LowSent, HighSent, TopSent, Waiting, Merging
<1>3. LowAhead = view /\ HighAhead = view
    <2>1. view \in Document
        BY DEF IInv, TypeOK
    <2> QED BY <1>2, <2>1, OverlayIs DEF Ahead, LowAhead, HighAhead
<1>4. CASE l \in LowLeaves
    <2>1. LeafDocs[l] = lowCached[l] /\ view[k].src \in 0 + 1 .. 0 + NLow /\ 0 + l = l
        BY <1>0, <1>4 DEF LeafDocs, GroupOf
    <2>2. Respects(view, lowCached, NLow, 0)
        BY <1>3 DEF IInv, LowRespected
    <2> QED BY <1>0, <1>4, <2>1, <2>2 DEF Respects
<1>5. CASE l \notin LowLeaves
    <2>1. l \in HighLeaves
        BY <1>5 DEF Leaves
    <2>2. LeafDocs[l] = highCached[l - NLow] /\ view[k].src \in NLow + 1 .. NLow + NHigh
        BY <1>0, <1>5 DEF LeafDocs, GroupOf
    <2>3. Respects(view, highCached, NHigh, NLow)
        BY <1>3 DEF IInv, HighRespected
    <2>4. view[k].src > NLow + (l - NLow) \/ view[k] = highCached[l - NLow][k]
        BY <1>0, <2>1, <2>2, <2>3 DEF Respects
    <2> QED BY <1>0, <2>1, <2>2, <2>4
<1> QED
    BY <1>4, <1>5

-----------------------------------------------------------------------------
\* The invariant of the nested sources (priority_config_source.go:73-99,
\* under config.go:55-79).
THEOREM Invariance == Spec => []IInv
BY InitInv, StepInv, PTL DEF Spec

\* In the composition the nested sources are the chosen part or stay as they are.
THEOREM PartsInvariance == Parts => []IInv
<1>1. Inits => IInv
    BY InitInv DEF Inits
<1>2. IInv /\ [NextPart]_<<part, vars, singleVars>> => IInv'
    <2>1. [NextPart]_<<part, vars, singleVars>> => [Next]_vars
        BY DEF NextPart
    <2> QED BY <2>1, StepInv
<1> QED
    BY <1>1, <1>2, PTL DEF Parts

\* The types of the three sources, and that the goroutine which holds a mutex
\* is the one that is sending (priority_config_source.go:85-96).
THEOREM TypeCorrect == Spec => []TypeOK
<1>1. IInv => TypeOK
    BY DEF IInv
<1> QED
    BY <1>1, Invariance, PTL

\* Once nothing is on its way, a key the reader takes from a group has the
\* value of the last path of the group that defines it, whatever the order in
\* which the goroutines of the paths and of the groups got their mutexes and
\* whatever the other group's announcements repeated (consul_source.go:31).
THEOREM GroupPriorityCorrect == Spec => []GroupPriority
BY Invariance, Prioritised, PTL

\* Both, for the state machine the run explores.
THEOREM PartsCorrect == Parts => [](TypeOK /\ GroupPriority)
<1>1. IInv => TypeOK
    BY DEF IInv
<1> QED
    BY <1>1, PartsInvariance, Prioritised, PTL
=============================================================================
