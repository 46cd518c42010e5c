----------------------------- MODULE Instruments -----------------------------
(***************************************************************************)
(* The named instruments of pkg/metrics: AddCounter, RecordGauge and       *)
(* RecordHistogram find the instrument of a name or register a new one,    *)
(* while others register under the same names.  Each section between Lock  *)
(* and Unlock is one step.                                                 *)
(***************************************************************************)
EXTENDS Integers

CONSTANTS
    Threads,
    Names,
    MaxInstruments  \* bound: how many instruments are made

VARIABLES
    kind,           \* "counter", or "gauge" for gauges and histograms
    invalid,        \* the names the meter refuses
    table,          \* counterMap, gaugeMap or histogramMap
    made,           \* instruments are numbered in the order they are made
    pc, name,       \* where a call is and the name it was given
    inst,           \* the instrument a call has read
    got             \* what a call was answered

callVars == <<pc, name, inst, got>>
vars == <<kind, invalid, table, made, callVars>>

None == 0
Failed == -1
Exists == -2
Invalid == -3
Insts == 1..MaxInstruments

TypeOK ==
    /\ kind \in {"counter", "gauge"}
    /\ invalid \subseteq Names
    /\ made \in 0..MaxInstruments
    /\ table \in [Names -> 0..made]
    /\ pc \in [Threads -> {"idle", "lookup", "create", "reread", "use", "register"}]
    /\ name \in [Threads -> Names]
    /\ inst \in [Threads -> 0..made]
    /\ got \in [Threads -> {Failed, Exists, Invalid} \cup 0..made]

Init ==
    /\ kind \in {"counter", "gauge"}
    /\ invalid \in SUBSET Names
    /\ table = [n \in Names |-> None]
    /\ made = 0
    /\ pc = [t \in Threads |-> "idle"]
    /\ name \in [Threads -> Names]
    /\ inst = [t \in Threads |-> None]
    /\ got = [t \in Threads |-> None]

Move(t, from, to) == pc[t] = from /\ pc' = [pc EXCEPT ![t] = to]

Answer(t, a) == got' = [got EXCEPT ![t] = a]

Make(n) ==
    /\ made < MaxInstruments
    /\ made' = made + 1
    /\ table' = [table EXCEPT ![n] = made + 1]

-----------------------------------------------------------------------------
\* AddCounter, RecordGauge or RecordHistogram.
CallAdd(t, n) ==
    /\ Move(t, "idle", "lookup")
    /\ name' = [name EXCEPT ![t] = n]
    /\ Answer(t, None)
    /\ UNCHANGED <<kind, invalid, table, made, inst>>

\* The first read, under RLock.
LookUp(t) ==
    /\ IF table[name[t]] = None THEN Move(t, "lookup", "create") ELSE Move(t, "lookup", "use")
    /\ inst' = [inst EXCEPT ![t] = table[name[t]]]
    /\ UNCHANGED <<kind, invalid, table, made, name, got>>

\* The meter is asked before the map for a counter, after it for the others.
Refused(n) == n \in invalid /\ (kind = "counter" \/ table[n] = None)

\* Mutant: RegisterNew stores without looking whether the name is taken.
CreateAgain(t) ==
    /\ Move(t, "create", "reread")
    /\ ~Refused(name[t])
    /\ Make(name[t])
    /\ UNCHANGED <<kind, invalid, name, inst, got>>

\* RegisterNew..., called by AddCounter.  That the name exists is no error.
Create(t) ==
    /\ Move(t, "create", "reread")
    /\ ~Refused(name[t])
    /\ \/ table[name[t]] = None /\ Make(name[t])
       \/ table[name[t]] # None /\ UNCHANGED <<table, made>>
    /\ UNCHANGED <<kind, invalid, name, inst, got>>

CreateFails(t) ==
    /\ Move(t, "create", "idle")
    /\ Refused(name[t])
    /\ Answer(t, Failed)
    /\ UNCHANGED <<kind, invalid, table, made, name, inst>>

ReadAgain(t) ==
    /\ Move(t, "reread", "use")
    /\ inst' = [inst EXCEPT ![t] = table[name[t]]]
    /\ UNCHANGED <<kind, invalid, table, made, name, got>>

\* counter.Add: the value goes to the instrument that was read.
Use(t) ==
    /\ Move(t, "use", "idle")
    /\ Answer(t, inst[t])
    /\ UNCHANGED <<kind, invalid, table, made, name, inst>>

\* RegisterCounter with an instrument of one's own, or RegisterNewCounter.
CallRegister(t, n) ==
    /\ Move(t, "idle", "register")
    /\ name' = [name EXCEPT ![t] = n]
    /\ Answer(t, None)
    /\ UNCHANGED <<kind, invalid, table, made, inst>>

RegisterOwn(t) ==
    /\ Move(t, "register", "idle")
    /\ \/ table[name[t]] = None /\ Make(name[t]) /\ Answer(t, made')
       \/ table[name[t]] # None /\ Answer(t, Exists) /\ UNCHANGED <<table, made>>
    /\ UNCHANGED <<kind, invalid, name, inst>>

RegisterNew(t) ==
    /\ Move(t, "register", "idle")
    /\ \/ ~Refused(name[t]) /\ table[name[t]] = None /\ Make(name[t]) /\ Answer(t, made')
       \/ ~Refused(name[t]) /\ table[name[t]] # None /\ Answer(t, Exists)
          /\ UNCHANGED <<table, made>>
       \/ Refused(name[t]) /\ Answer(t, Invalid) /\ UNCHANGED <<table, made>>
    /\ UNCHANGED <<kind, invalid, name, inst>>

CallStep(t) ==
    \/ LookUp(t) \/ Create(t) \/ CreateFails(t) \/ ReadAgain(t) \/ Use(t)
    \/ RegisterOwn(t) \/ RegisterNew(t)

Next ==
    \E t \in Threads :
        (\E n \in Names : CallAdd(t, n) \/ CallRegister(t, n)) \/ CallStep(t)

Spec == Init /\ [][Next]_vars

-----------------------------------------------------------------------------
\* A value is never recorded on an instrument that has been lost, or on none:
\* what a call is about to use is the one instrument of its name, however
\* many goroutines meet the name for the first time (metrics.go:130-153).
OneInstrument == \A t \in Threads : pc[t] = "use" => inst[t] # None /\ inst[t] = table[name[t]]

(* The calls as steps of an atomic registry.  A refused counter fails at   *)
(* the moment the name was found missing: it is not looked up again.  That *)
(* a name is taken or refused changes nothing and answers no instrument.   *)
AtomicGot ==
    [t \in Threads |->
        CASE pc[t] = "create" /\ kind = "counter" /\ name[t] \in invalid -> Failed
          [] pc[t] = "reread" -> table[name[t]]
          [] pc[t] = "use" -> inst[t]
          [] pc[t] = "idle" /\ (got[t] > 0 \/ got[t] = Failed) -> got[t]
          [] OTHER -> None]

Registry == INSTANCE AtomicCache WITH
    Keys <- Names, Clients <- Insts, conn <- table, used <- 1..made, got <- AtomicGot

\* Looking a name up and registering it is linearizable (metrics.go:130-153).
AtomicRegistry == Registry!Spec
=============================================================================
