------------------------------ MODULE KeyValues ------------------------------
(***************************************************************************)
(* What a list of configuration documents means to the reader that merges  *)
(* it (kratos' config reader, outside src/: later documents override       *)
(* earlier ones key by key and no key is ever removed).  A list of         *)
(* documents is represented by the document its in-order merge defines, so *)
(* appending one list to another is Overlay.  Every value carries the      *)
(* priority of the source it comes from.                                   *)
(***************************************************************************)
EXTENDS Integers

CONSTANT Keys

\* src 0 marks a key the document does not define.
Absent == [src |-> 0, ver |-> 0]

Value == [src : Nat, ver : Nat]

Document == [Keys -> Value]

Defines(doc, k) == doc[k].src # 0

\* append(base, doc...) followed by a merge: doc wins wherever it is defined.
Overlay(base, doc) ==
    [k \in Keys |-> IF Defines(doc, k) THEN doc[k] ELSE base[k]]

Greatest(S) == CHOOSE m \in S : \A n \in S : n <= m

\* The documents docs[i], docs[i+1], ..., docs[n] appended in this order.
Concat(docs, i, n) ==
    [k \in Keys |->
        LET definers == {j \in i..n : Defines(docs[j], k)}
        IN  IF definers = {} THEN Absent ELSE docs[Greatest(definers)][k]]
=============================================================================
