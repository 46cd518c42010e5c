--------------------------- MODULE WebSocketProofs ---------------------------
(***************************************************************************)
(* One writer at a time and no Send after a Close, for any number of       *)
(* goroutines that handle messages of the connection and any number of     *)
(* repeated reads.                                                         *)
(***************************************************************************)
EXTENDS WebSocket, TLAPS

\* What the theorems ask of the constants.
Constants == Nobody \notin Callers /\ MaxRepeats \in Nat \ {0}

\* Whoever is between locking and unlocking c.writeLock holds it.
HasLock(c) == pc[c] \in Writing \cup {"sent", "refused"}

Locked == \A c \in Callers : HasLock(c) => writeLock = c

\* A close frame has been written before any Close returns, and a Send that
\* began after that is on its way to its refusal.
Refusing ==
    /\ closeOnce = "done" => writeErr
    /\ closed => writeErr
    /\ \A c \in after : closed /\ pc[c] \in {"lock", "begin", "refused"}

\* resolve goes on reading only while gorilla does not panic, and OnClose is
\* its last step.
Reading ==
    /\ loop \in {"new", "connect", "read"} => repeats < MaxRepeats
    /\ loop = "error" /\ readErr # "close" => repeats < MaxRepeats
    /\ loop \in {"connect", "new"} => readErr = "none"
    /\ loop = "read" => readErr # "close"
    /\ loop # "done" => closes = 0

IInv == TypeOK /\ Locked /\ Refusing /\ Reading

LEMMA InitInv == Constants /\ Init => IInv
<1> SUFFICES ASSUME Constants, Init PROVE IInv
    OBVIOUS
<1>1. TypeOK
    <2>1. pc \in [Callers -> {"none", "idle"}]
        BY DEF Init
    <2>2. writeErr \in BOOLEAN /\ closed \in BOOLEAN
        BY DEF Init
    <2> QED BY <2>1, <2>2 DEF Constants, Init, TypeOK, Writing
<1>2. Locked
    BY DEF Init, Locked, HasLock, Writing
<1>3. Refusing /\ Reading
    BY DEF Constants, Init, Refusing, Reading
<1> QED
    BY <1>1, <1>2, <1>3 DEF IInv

\* The goroutine of resolve and the peer touch no call, but that a message
\* gives a free handler something to do and that writing may be ruled out.
LEMMA LoopCalls ==
    ASSUME IInv, LoopStep \/ PeerStep
    PROVE  Locked' /\ Refusing' /\ pc' \in [Callers -> {"none", "idle", "lock", "sent",
               "refused", "once", "closeLock"} \cup Writing]
           /\ UNCHANGED <<writeLock, closeOnce, closed, after>> /\ writeErr' \in BOOLEAN
<1> USE DEF IInv, Locked, HasLock, Refusing, TypeOK
<1>1. CASE ReadMessage
    BY <1>1 DEF ReadMessage, loopVars, Callers, Writing
<1>2. CASE PeerStep
    BY <1>2 DEF PeerStep, loopVars, callVars, Writing
<1>3. CASE LoopStep /\ ~ReadMessage
    <2>1. UNCHANGED callVars /\ (writeErr' = writeErr \/ writeErr' = TRUE)
        BY <1>3 DEF LoopStep, Upgrade, OnConnect, ReadClose, ReadEOF, ReadFails, OnError,
                    CloseConn, OnClose
    <2> QED BY <2>1 DEF callVars, Writing
<1> QED
    BY <1>1, <1>2, <1>3

LEMMA LoopInv ==
    ASSUME Constants, IInv, LoopStep \/ PeerStep PROVE IInv'
<1>1. /\ loop' \in {"new", "rejected", "connect", "read", "error", "close", "onClose", "done"}
      /\ readErr' \in {"none", "close", "net"} /\ repeats' \in 0..MaxRepeats
      /\ closes' \in 0..1 /\ conn' \in {"open", "closed"}
      /\ peer' \in {"reading", "stalled", "closed", "gone"} /\ Reading'
    <2> USE DEF IInv, TypeOK, Reading, Constants
    <2>0. peer' \in {"reading", "stalled", "closed", "gone"}
        <3>1. CASE PeerStep
            BY <3>1 DEF PeerStep
        <3>2. CASE LoopStep
            BY <3>2 DEF LoopStep, Upgrade, OnConnect, ReadMessage, ReadClose, ReadEOF,
                        ReadFails, OnError, CloseConn, OnClose
        <3> QED BY <3>1, <3>2
    <2>1. CASE Upgrade \/ OnConnect \/ ReadMessage \/ OnError \/ CloseConn \/ OnClose
        BY <2>0, <2>1 DEF Upgrade, OnConnect, ReadMessage, OnError, CloseConn, OnClose, Goto, loopVars
    <2>2. CASE ReadClose \/ ReadEOF
        BY <2>0, <2>2 DEF ReadClose, ReadEOF, Goto
    <2>3. CASE ReadFails
        BY <2>0, <2>3 DEF ReadFails, Goto
    <2>4. CASE PeerStep
        BY <2>0, <2>4 DEF PeerStep, loopVars
    <2> QED BY <2>1, <2>2, <2>3, <2>4 DEF LoopStep
<1>2. after' \subseteq Callers
    BY LoopCalls DEF IInv, TypeOK
<1> QED
    BY <1>1, <1>2, LoopCalls DEF IInv, TypeOK

\* A step of a call changes nothing of resolve.
LEMMA CallInv ==
    ASSUME Constants, IInv, NEW c \in Callers,
           \/ CallSend(c) \/ CallClose(c) \/ Locks(c) \/ WriteEnds(c) \/ CallStep(c)
           \/ c \in Handlers /\ HandlerEnds(c)
    PROVE  IInv'
<1> USE DEF IInv, TypeOK, Move, Constants
<1>1. UNCHANGED <<loopVars, conn, peer>>
    BY DEF CallSend, CallClose, Locks, LockSend, LockClose, WriteEnds, CallStep, BeginWrite,
           SendReturns, FirstClose, NextClose, WriteControl, HandlerEnds
<1>2. Reading' /\ UNCHANGED <<loop, readErr, repeats, closes, conn, peer>>
    BY <1>1 DEF Reading, loopVars
<1>3. Locked'
    <2> USE DEF Locked, HasLock, Writing
    <2>1. CASE CallSend(c) \/ CallClose(c) \/ (c \in Handlers /\ HandlerEnds(c)) \/ Locks(c)
        BY <2>1 DEF CallSend, CallClose, HandlerEnds, Locks, LockSend, LockClose
    <2>2. CASE WriteEnds(c) \/ BeginWrite(c) \/ SendReturns(c)
        BY <2>2 DEF WriteEnds, BeginWrite, SendReturns
    <2>3. CASE FirstClose(c) \/ NextClose(c) \/ WriteControl(c)
        BY <2>3 DEF FirstClose, NextClose, WriteControl
    <2> QED BY <2>1, <2>2, <2>3 DEF CallStep
<1>4. Refusing'
    <2> USE DEF Refusing
    <2>1. CASE CallSend(c)
        BY <2>1 DEF CallSend
    <2>2. CASE CallClose(c) \/ (c \in Handlers /\ HandlerEnds(c))
        BY <2>2 DEF CallClose, HandlerEnds
    <2>3. CASE Locks(c)
        BY <2>3 DEF Locks, LockSend, LockClose
    <2>4. CASE WriteEnds(c)
        BY <2>4 DEF WriteEnds
    <2>5. CASE BeginWrite(c)
        BY <2>5 DEF BeginWrite
    <2>6. CASE SendReturns(c)
        BY <2>6 DEF SendReturns
    <2>7. CASE FirstClose(c)
        BY <2>7 DEF FirstClose
    <2>8. CASE NextClose(c)
        BY <2>8 DEF NextClose
    <2>9. CASE WriteControl(c)
        BY <2>9 DEF WriteControl
    <2> QED BY <2>1, <2>2, <2>3, <2>4, <2>5, <2>6, <2>7, <2>8, <2>9 DEF CallStep
<1>5. /\ pc' \in [Callers -> {"none", "idle", "lock", "sent", "refused", "once", "closeLock"}
                              \cup Writing]
      /\ writeLock' \in Callers \cup {Nobody} /\ closeOnce' \in {"new", "running", "done"}
      /\ after' \subseteq Callers
    <2>1. CASE CallSend(c) \/ CallClose(c) \/ (c \in Handlers /\ HandlerEnds(c)) \/ Locks(c)
        BY <2>1 DEF CallSend, CallClose, HandlerEnds, Locks, LockSend, LockClose, Writing
    <2>2. CASE WriteEnds(c) \/ BeginWrite(c) \/ SendReturns(c)
        BY <2>2 DEF WriteEnds, BeginWrite, SendReturns, Writing
    <2>3. CASE FirstClose(c) \/ NextClose(c) \/ WriteControl(c)
        BY <2>3 DEF FirstClose, NextClose, WriteControl, Writing
    <2> QED BY <2>1, <2>2, <2>3 DEF CallStep
<1>6. writeErr' \in BOOLEAN /\ closed' \in BOOLEAN
    <2>1. (writeErr' = writeErr \/ writeErr' = TRUE) /\ (closed' = closed \/ closed' = TRUE)
        BY Zenon DEF CallSend, CallClose, HandlerEnds, Locks, LockSend, LockClose, WriteEnds,
           BeginWrite, SendReturns, FirstClose, NextClose, WriteControl, CallStep
    <2> QED BY <2>1
<1> QED
    BY <1>2, <1>3, <1>4, <1>5, <1>6

LEMMA StepInv == ASSUME Constants PROVE IInv /\ [Next]_vars => IInv'
<1> SUFFICES ASSUME IInv, [Next]_vars PROVE IInv'
    OBVIOUS
<1>1. CASE PeerStep \/ LoopStep
    BY <1>1, LoopInv
<1>2. CASE \E c \in Callers :
             CallSend(c) \/ CallClose(c) \/ Locks(c) \/ WriteEnds(c) \/ CallStep(c)
    BY <1>2, CallInv
<1>3. CASE \E h \in Handlers : HandlerEnds(h)
    BY <1>3, CallInv DEF Callers
<1>4. CASE UNCHANGED vars
    BY <1>4 DEF vars, loopVars, callVars, IInv, TypeOK, Locked, HasLock, Refusing, Reading
<1> QED
    BY <1>1, <1>2, <1>3, <1>4 DEF Next

LEMMA Invariance == ASSUME Constants PROVE Spec => []IInv
BY InitInv, StepInv, PTL DEF Spec

\* The types, for any handlers.
THEOREM TypeCorrect == ASSUME Constants PROVE Spec => []TypeOK
<1>1. IInv => TypeOK
    BY DEF IInv
<1> QED
    BY <1>1, Invariance, PTL

\* No two goroutines write to the connection at the same time.
THEOREM OneWriterCorrect == ASSUME Constants PROVE Spec => []OneWriter
<1>1. IInv => OneWriter
    BY DEF IInv, Locked, HasLock, OneWriter
<1> QED
    BY <1>1, Invariance, PTL

\* A Send that begins after any Close has returned is refused.
THEOREM ClosedCorrect == ASSUME Constants PROVE Spec => []ClosedMeansRefused
<1>1. IInv => ClosedMeansRefused
    BY DEF IInv, Refusing, ClosedMeansRefused
<1> QED
    BY <1>1, Invariance, PTL

\* When resolve has ended the connection is closed and OnClose called once:
\* the safety part of LoopEnds.
Ended == /\ loop \in {"onClose", "done"} => conn = "closed"
         /\ loop = "done" => closes = 1

THEOREM ReleasedCorrect == ASSUME Constants PROVE Spec => [](loop = "done" => Released)
<1>1. Init => Ended
    BY DEF Init, Ended
<1>2. IInv /\ Ended /\ [Next]_vars => Ended'
    <2> SUFFICES ASSUME IInv, Ended, [Next]_vars PROVE Ended'
        OBVIOUS
    <2> USE DEF IInv, Reading, Ended
    <2>1. CASE LoopStep
        BY <2>1 DEF LoopStep, Upgrade, OnConnect, ReadMessage, ReadClose, ReadEOF, ReadFails,
                    OnError, CloseConn, OnClose, Goto, loopVars
    <2>2. CASE PeerStep
        BY <2>2 DEF PeerStep, loopVars
    <2>3. CASE \E c \in Callers :
                 CallSend(c) \/ CallClose(c) \/ Locks(c) \/ WriteEnds(c) \/ CallStep(c)
        BY <2>3 DEF CallSend, CallClose, Locks, LockSend, LockClose, WriteEnds, CallStep,
                    BeginWrite, SendReturns, FirstClose, NextClose, WriteControl, loopVars
    <2>4. CASE \E h \in Handlers : HandlerEnds(h)
        BY <2>4 DEF HandlerEnds, loopVars
    <2>5. CASE UNCHANGED vars
        BY <2>5 DEF vars, loopVars
    <2> QED BY <2>1, <2>2, <2>3, <2>4, <2>5 DEF Next
<1>3. Ended => (loop = "done" => Released)
    BY DEF Ended, Released
<1> QED
    BY <1>1, <1>2, <1>3, Invariance, PTL DEF Spec
=============================================================================
