-------------------------- MODULE InstrumentsProofs --------------------------
(***************************************************************************)
(* The registry of instruments for any sets of goroutines and names: the   *)
(* types, the one instrument of a name, and the refinement to AtomicCache. *)
(* MaxInstruments only bounds the runs of TLC; all the theorems ask of it  *)
(* is to be a number.                                                      *)
(***************************************************************************)
EXTENDS Instruments, TLAPS

USE DEF None, Failed, Exists, Invalid

\* Once a name is in the map it stays, with the same instrument: that is what
\* a call relies on between creating or finding it and reading it again.
Named == \A t \in Threads : pc[t] = "reread" => table[name[t]] # None

IInv == TypeOK /\ OneInstrument /\ Named

LEMMA InitInv == ASSUME MaxInstruments \in Nat PROVE Init => IInv
BY DEF Init, IInv, TypeOK, OneInstrument, Named

\* What Make does to the map.
LEMMA MakeInv ==
    ASSUME MaxInstruments \in Nat, TypeOK, NEW n \in Names, Make(n), table[n] = None
    PROVE  /\ made \in Nat /\ made' = made + 1 /\ made + 1 \in Insts
           /\ table' = [table EXCEPT ![n] = made']
           /\ table' \in [Names -> 0..made'] /\ table'[n] = made'
           /\ \A m \in Names : table[m] # None => table'[m] = table[m]
BY DEF Make, TypeOK, Insts

\* A step that only makes instruments for names without one keeps the types.
LEMMA TableKept ==
    ASSUME MaxInstruments \in Nat, TypeOK, NEW n \in Names,
           (table[n] = None /\ Make(n)) \/ UNCHANGED <<table, made>>
    PROVE  /\ made' \in 0..MaxInstruments /\ made' >= made
           /\ table' \in [Names -> 0..made']
           /\ \A m \in Names : table[m] # None => table'[m] = table[m]
<1>1. CASE table[n] = None /\ Make(n)
    BY <1>1, MakeInv DEF TypeOK, Insts
<1>2. CASE UNCHANGED <<table, made>>
    BY <1>2 DEF TypeOK
<1> QED BY <1>1, <1>2

\* What RegisterOwn and RegisterNew do to the map and answer.
LEMMA Registered ==
    ASSUME TypeOK, NEW t \in Threads, RegisterOwn(t) \/ RegisterNew(t)
    PROVE  /\ Move(t, "register", "idle") /\ UNCHANGED <<kind, invalid, name, inst>>
           /\ \/ table[name[t]] = None /\ Make(name[t]) /\ Answer(t, made')
              \/ UNCHANGED <<table, made>> /\ (Answer(t, Exists) \/ Answer(t, Invalid))
BY DEF RegisterOwn, RegisterNew

LEMMA StepInv == ASSUME MaxInstruments \in Nat PROVE IInv /\ [Next]_vars => IInv'
<1> SUFFICES ASSUME IInv, [Next]_vars PROVE IInv'
    OBVIOUS
<1> USE DEF IInv
<1> DEFINE Kept ==
        /\ made' \in 0..MaxInstruments /\ made' >= made
        /\ table' \in [Names -> 0..made']
        /\ \A m \in Names : table[m] # None => table'[m] = table[m]
<1>1. ASSUME NEW t \in Threads, NEW n \in Names, CallAdd(t, n) \/ CallRegister(t, n)
      PROVE  IInv'
    BY <1>1 DEF CallAdd, CallRegister, Move, Answer, TypeOK, OneInstrument, Named
<1>2. ASSUME NEW t \in Threads, LookUp(t) PROVE IInv'
    BY <1>2 DEF LookUp, Move, TypeOK, OneInstrument, Named
<1>3. ASSUME NEW t \in Threads, Create(t) PROVE IInv'
    <2>1. name[t] \in Names
        BY DEF TypeOK
    <2>2. (table[name[t]] = None /\ Make(name[t])) \/ UNCHANGED <<table, made>>
        BY <1>3 DEF Create
    <2>3. Kept
        BY <2>1, <2>2, TableKept
    <2>4. table'[name[t]] # None
        BY <1>3, <2>1, MakeInv DEF Create, TypeOK
    <2>5. TypeOK'
        BY <1>3, <2>3 DEF Create, Move, TypeOK
    <2>6. OneInstrument' /\ Named'
        BY <1>3, <2>3, <2>4 DEF Create, Move, TypeOK, OneInstrument, Named
    <2> QED BY <2>5, <2>6
<1>4. ASSUME NEW t \in Threads, CreateFails(t) PROVE IInv'
    BY <1>4 DEF CreateFails, Move, Answer, TypeOK, OneInstrument, Named
<1>5. ASSUME NEW t \in Threads, ReadAgain(t) PROVE IInv'
    BY <1>5 DEF ReadAgain, Move, TypeOK, OneInstrument, Named
<1>6. ASSUME NEW t \in Threads, Use(t) PROVE IInv'
    BY <1>6 DEF Use, Move, Answer, TypeOK, OneInstrument, Named
<1>7. ASSUME NEW t \in Threads, RegisterOwn(t) \/ RegisterNew(t) PROVE IInv'
    <2>1. name[t] \in Names
        BY DEF TypeOK
    <2>2. Kept
        BY <1>7, <2>1, Registered, TableKept
    <2>3. got' \in [Threads -> {Failed, Exists, Invalid} \cup 0..made']
        BY <1>7, <2>2, Registered DEF Answer, TypeOK
    <2>4. TypeOK'
        BY <1>7, <2>2, <2>3, Registered DEF Move, TypeOK
    <2>5. OneInstrument' /\ Named'
        BY <1>7, <2>2, Registered DEF Move, TypeOK, OneInstrument, Named
    <2> QED BY <2>4, <2>5
<1>8. CASE UNCHANGED vars
    BY <1>8 DEF vars, callVars, TypeOK, OneInstrument, Named
<1> QED
    BY <1>1, <1>2, <1>3, <1>4, <1>5, <1>6, <1>7, <1>8 DEF Next, CallStep

LEMMA Invariance == ASSUME MaxInstruments \in Nat PROVE Spec => []IInv
BY InitInv, StepInv, PTL DEF Spec

\* The types, for any sets of goroutines and names.
THEOREM TypeCorrect == ASSUME MaxInstruments \in Nat PROVE Spec => []TypeOK
<1>1. IInv => TypeOK
    BY DEF IInv
<1> QED
    BY <1>1, Invariance, PTL

\* What a recording call is about to use is the one instrument of its name.
THEOREM OneInstrumentCorrect == ASSUME MaxInstruments \in Nat PROVE Spec => []OneInstrument
<1>1. IInv => OneInstrument
    BY DEF IInv
<1> QED
    BY <1>1, Invariance, PTL

-----------------------------------------------------------------------------
(* The refinement.  got is abstracted in AtomicGot; what a step does to it *)
(* is stated for one thread.                                               *)
LEMMA AtomicInit == Init => Registry!Init
BY DEF Init, Registry!Init, AtomicGot

LEMMA GotFunction ==
    /\ AtomicGot = [u \in Threads |-> AtomicGot[u]]
    /\ AtomicGot' = [u \in Threads |-> AtomicGot'[u]]
BY Zenon DEF AtomicGot

\* AtomicGot changes only at the thread that takes a step, if no name loses
\* its instrument.
LEMMA OneAnswer ==
    ASSUME IInv, NEW t \in Threads, NEW a,
           UNCHANGED <<kind, invalid>>,
           \A u \in Threads \ {t} :
               pc'[u] = pc[u] /\ name'[u] = name[u] /\ inst'[u] = inst[u] /\ got'[u] = got[u],
           \A n \in Names : table[n] # None => table'[n] = table[n],
           AtomicGot'[t] = a
    PROVE  AtomicGot' = [AtomicGot EXCEPT ![t] = a]
<1>1. \A u \in Threads \ {t} : AtomicGot'[u] = AtomicGot[u]
    BY DEF AtomicGot, IInv, TypeOK, Named
<1> QED
    BY <1>1, GotFunction

\* Making an instrument for a name without one, answered to t.
LEMMA MakeCreates ==
    ASSUME MaxInstruments \in Nat, IInv, NEW t \in Threads, NEW n \in Names,
           Make(n), table[n] = None, AtomicGot' = [AtomicGot EXCEPT ![t] = made']
    PROVE  Registry!Next
<1>1. made' \in Insts \ 1..made /\ 1..made' = 1..made \cup {made'}
    BY DEF Make, IInv, TypeOK, Insts
<1>2. Registry!Create(t, n)
    BY <1>1 DEF Make, Registry!Create
<1> QED
    BY <1>2 DEF Registry!Next

LEMMA AtomicStep ==
    ASSUME MaxInstruments \in Nat
    PROVE  IInv /\ [Next]_vars => [Registry!Next]_(Registry!vars)
<1> SUFFICES ASSUME IInv, [Next]_vars PROVE Registry!Next \/ UNCHANGED Registry!vars
    OBVIOUS
<1>1. ASSUME NEW t \in Threads, NEW n \in Names, CallAdd(t, n) \/ CallRegister(t, n)
      PROVE  Registry!Next
    <2>1. AtomicGot'[t] = None /\ UNCHANGED <<table, made>>
        BY <1>1 DEF CallAdd, CallRegister, Move, Answer, AtomicGot, IInv, TypeOK
    <2>2. AtomicGot' = [AtomicGot EXCEPT ![t] = None]
        BY <1>1, <2>1, OneAnswer DEF CallAdd, CallRegister, Move, Answer, IInv, TypeOK
    <2>3. Registry!Ask(t)
        BY <2>1, <2>2 DEF Registry!Ask
    <2> QED BY <2>3 DEF Registry!Next
<1>2. ASSUME NEW t \in Threads, LookUp(t) PROVE Registry!Next \/ UNCHANGED Registry!vars
    <2>1. name[t] \in Names /\ UNCHANGED <<table, made>>
        BY <1>2 DEF LookUp, IInv, TypeOK
    <2>2. CASE table[name[t]] = None
        <3>1. AtomicGot[t] = None /\ AtomicGot'[t] \in {None, Failed}
            BY <1>2, <2>2 DEF LookUp, Move, AtomicGot, IInv, TypeOK
        <3>2. AtomicGot' = [AtomicGot EXCEPT ![t] = AtomicGot'[t]]
            BY <1>2, OneAnswer DEF LookUp, Move, IInv, TypeOK
        <3>3. CASE AtomicGot'[t] = None
            <4>1. AtomicGot' = AtomicGot
                BY <3>1, <3>2, <3>3, GotFunction
            <4> QED BY <2>1, <4>1 DEF Registry!vars
        <3>4. CASE AtomicGot'[t] = Failed
            <4>1. Registry!Fail(t, name[t])
                BY <2>1, <2>2, <3>2, <3>4 DEF Registry!Fail
            <4> QED BY <2>1, <4>1 DEF Registry!Next
        <3> QED BY <3>1, <3>3, <3>4
    <2>3. CASE table[name[t]] # None
        <3>1. AtomicGot'[t] = table[name[t]]
            BY <1>2, <2>3 DEF LookUp, Move, AtomicGot, IInv, TypeOK
        <3>2. AtomicGot' = [AtomicGot EXCEPT ![t] = table[name[t]]]
            BY <1>2, <3>1, OneAnswer DEF LookUp, Move, IInv, TypeOK
        <3>3. Registry!Hit(t, name[t])
            BY <2>1, <2>3, <3>2 DEF Registry!Hit
        <3> QED BY <2>1, <3>3 DEF Registry!Next
    <2> QED BY <2>2, <2>3
<1>3. ASSUME NEW t \in Threads, Create(t) PROVE Registry!Next
    <2>1. name[t] \in Names
        BY DEF IInv, TypeOK
    <2>2. AtomicGot'[t] = table'[name[t]]
        BY <1>3 DEF Create, Move, AtomicGot, IInv, TypeOK
    <2>3. \A n \in Names : table[n] # None => table'[n] = table[n]
        BY <1>3, <2>1, MakeInv DEF Create, IInv
    <2>4. AtomicGot' = [AtomicGot EXCEPT ![t] = table'[name[t]]]
        BY <1>3, <2>2, <2>3, OneAnswer DEF Create, Move, IInv, TypeOK
    <2>5. CASE table[name[t]] = None /\ Make(name[t])
        <3>1. table'[name[t]] = made'
            BY <2>1, <2>5, MakeInv DEF IInv
        <3> QED BY <2>1, <2>4, <2>5, <3>1, MakeCreates
    <2>6. CASE table[name[t]] # None /\ UNCHANGED <<table, made>>
        <3>1. Registry!Hit(t, name[t])
            BY <2>4, <2>6 DEF Registry!Hit
        <3> QED BY <2>1, <3>1 DEF Registry!Next
    <2> QED BY <1>3, <2>5, <2>6 DEF Create
<1>4. ASSUME NEW t \in Threads, CreateFails(t) PROVE Registry!Next \/ UNCHANGED Registry!vars
    <2>1. name[t] \in Names /\ UNCHANGED <<table, made>>
        BY <1>4 DEF CreateFails, IInv, TypeOK
    <2>2. AtomicGot'[t] = Failed
        BY <1>4 DEF CreateFails, Move, Answer, AtomicGot, IInv, TypeOK
    <2>3. AtomicGot' = [AtomicGot EXCEPT ![t] = Failed]
        BY <1>4, <2>2, OneAnswer DEF CreateFails, Move, Answer, IInv, TypeOK
    <2>4. CASE kind = "counter"
        <3>1. AtomicGot[t] = Failed
            BY <1>4, <2>4 DEF CreateFails, Refused, Move, AtomicGot, IInv, TypeOK
        <3>2. AtomicGot' = AtomicGot
            BY <2>3, <3>1, GotFunction
        <3> QED BY <2>1, <3>2 DEF Registry!vars
    <2>5. CASE kind # "counter"
        <3>1. table[name[t]] = None
            BY <1>4, <2>5 DEF CreateFails, Refused
        <3>2. Registry!Fail(t, name[t])
            BY <2>1, <2>3, <3>1 DEF Registry!Fail
        <3> QED BY <2>1, <3>2 DEF Registry!Next
    <2> QED BY <2>4, <2>5
<1>5. ASSUME NEW t \in Threads, ReadAgain(t) \/ Use(t) PROVE UNCHANGED Registry!vars
    <2>1. UNCHANGED <<table, made>>
        BY <1>5 DEF ReadAgain, Use
    <2>2. AtomicGot'[t] = AtomicGot[t]
        <3>1. CASE ReadAgain(t)
            BY <3>1 DEF ReadAgain, Move, AtomicGot, IInv, TypeOK
        <3>2. CASE Use(t)
            BY <3>2 DEF Use, Move, Answer, AtomicGot, IInv, TypeOK, OneInstrument
        <3> QED BY <1>5, <3>1, <3>2
    <2>3. AtomicGot' = [AtomicGot EXCEPT ![t] = AtomicGot'[t]]
        BY <1>5, <2>1, OneAnswer DEF ReadAgain, Use, Move, Answer, IInv, TypeOK
    <2>4. AtomicGot' = AtomicGot
        BY <2>2, <2>3, GotFunction
    <2> QED BY <2>1, <2>4 DEF Registry!vars
<1>6. ASSUME NEW t \in Threads, RegisterOwn(t) \/ RegisterNew(t)
      PROVE  Registry!Next \/ UNCHANGED Registry!vars
    <2>1. name[t] \in Names
        BY DEF IInv, TypeOK
    <2>2. AtomicGot[t] = None
        BY <1>6, Registered DEF Move, AtomicGot, IInv, TypeOK
    <2>3. \A n \in Names : table[n] # None => table'[n] = table[n]
        BY <1>6, <2>1, Registered, MakeInv DEF IInv
    <2>4. AtomicGot' = [AtomicGot EXCEPT ![t] = AtomicGot'[t]]
        BY <1>6, <2>3, Registered, OneAnswer DEF Move, Answer, IInv, TypeOK
    <2>5. CASE table[name[t]] = None /\ Make(name[t]) /\ Answer(t, made')
        <3>1. made' > 0
            BY <2>5 DEF Make, IInv, TypeOK
        <3>2. AtomicGot'[t] = made'
            BY <1>6, <2>5, <3>1, Registered DEF Move, Answer, AtomicGot, IInv, TypeOK
        <3> QED BY <2>1, <2>4, <2>5, <3>2, MakeCreates
    <2>6. CASE UNCHANGED <<table, made>> /\ (Answer(t, Exists) \/ Answer(t, Invalid))
        <3>1. AtomicGot'[t] = None
            BY <1>6, <2>6, Registered DEF Move, Answer, AtomicGot, IInv, TypeOK
        <3>2. AtomicGot' = AtomicGot
            BY <2>2, <2>4, <3>1, GotFunction
        <3> QED BY <2>6, <3>2 DEF Registry!vars
    <2> QED BY <1>6, <2>5, <2>6, Registered DEF IInv
<1>7. CASE UNCHANGED vars
    BY <1>7 DEF vars, callVars, Registry!vars, AtomicGot
<1> QED
    BY <1>1, <1>2, <1>3, <1>4, <1>5, <1>6, <1>7 DEF Next, CallStep

\* Looking up and registering implements the registry that answers in one
\* step, for any sets of goroutines and names.
THEOREM AtomicRegistryCorrect == ASSUME MaxInstruments \in Nat PROVE Spec => AtomicRegistry
BY AtomicInit, AtomicStep, Invariance, PTL DEF Spec, AtomicRegistry, Registry!Spec
=============================================================================
