------------------------------ MODULE MCShared -------------------------------
(***************************************************************************)
(* One run for what the goroutines of a service share: the cache of        *)
(* clients, a WebSocket connection, a subscription and the goroutine pool. *)
(* They are independent state machines; a behaviour is one of them, chosen *)
(* at the start, while the variables of the others keep their initial      *)
(* values.                                                                 *)
(***************************************************************************)
EXTENDS ClientCache

CONSTANTS
    Handlers, Loop, Nobody, MaxRepeats,
    ChSize, ErrSize, MaxMessages,
    Max, NTasks

VARIABLES
    part,           \* the state machine of this behaviour
    loop, readErr, repeats, closes, wsConn, peer, writeErr, wsPc, writeLock, closeOnce,
    closed, after,
    published, rec, recOpen, cancelled, subPc, msg, taken, ch, chOpen, errCh, errOpen,
    reader, subGot, errs,
    parent, state, sem, count, waited

Socket == INSTANCE WebSocket WITH conn <- wsConn, pc <- wsPc
Subscriber == INSTANCE Subscription WITH pc <- subPc, got <- subGot
Pool == INSTANCE GoroutinePool

socketVars == <<loop, readErr, repeats, closes, wsConn, peer, writeErr, wsPc, writeLock,
                closeOnce, closed, after>>
subscriberVars == <<published, rec, recOpen, cancelled, subPc, msg, taken, ch, chOpen,
                    errCh, errOpen, reader, subGot, errs>>
poolVars == <<parent, state, sem, count, waited>>

allVars == <<part, vars, socketVars, subscriberVars, poolVars>>

\* The first values of closing and key do not matter, the steps of a release
\* and of a call set them.  The parts that do not run have one initial state.
Pinned ==
    /\ closing = (CHOOSE k \in Keys : TRUE)
    /\ key = [t \in Threads |-> closing]
    /\ \/ part = "subscriber"
       \/ part # "subscriber" /\ reader = "both"
    /\ \/ part = "pool"
       \/ part # "pool" /\ parent = [t \in 1..NTasks |-> Pool!Caller]

Inits ==
    /\ part \in {"cache", "socket", "subscriber", "pool"}
    /\ Pinned
    /\ Init /\ Socket!Init /\ Subscriber!Init /\ Pool!Init

NextPart ==
    \/ /\ part = "cache" /\ Next
       /\ UNCHANGED <<part, socketVars, subscriberVars, poolVars>>
    \/ /\ part = "socket" /\ Socket!Next
       /\ UNCHANGED <<part, vars, subscriberVars, poolVars>>
    \/ /\ part = "subscriber" /\ Subscriber!Next
       /\ UNCHANGED <<part, vars, socketVars, poolVars>>
    \/ /\ part = "pool" /\ Pool!Next
       /\ UNCHANGED <<part, vars, socketVars, subscriberVars>>

Parts ==
    /\ Inits /\ [][NextPart]_allVars
    /\ \/ part = "cache" /\ Fairness
       \/ part = "socket" /\ Socket!Fairness
       \/ part = "subscriber" /\ Subscriber!Fairness
       \/ part = "pool" /\ Pool!Fairness

\* The types of every part.
TypesOK == TypeOK /\ Socket!TypeOK /\ Subscriber!TypeOK /\ Pool!TypeOK

\* One goroutine writes at a time (websocket_client.go:138-151).
OneWriter == Socket!OneWriter
\* A Send after a Close is refused (websocket_client.go:138-151).
ClosedMeansRefused == Socket!ClosedMeansRefused
\* A broken connection ends resolve (websocket_client.go:110-131).
LoopEnds == Socket!LoopEnds
\* The end of resolve frees every Send and Close (websocket_client.go:101-102).
CallsEnd == Socket!CallsEnd
\* Every message has one outcome, in order (subscribe.go:102-131).
Accounted == Subscriber!Accounted
\* The end of the context closes both channels (subscribe.go:85-134).
SubscriptionEnds == Subscriber!SubscriptionEnds
\* Wait returns when every function has (goroutine_pool.go:27-38).
WaitCovers == Pool!WaitCovers
\* The pool empties when fewer functions than slots submit others (goroutine_pool.go:25-33).
PoolDrains == part = "pool" => Pool!PoolDrains
=============================================================================
