------------------------------ MODULE WebSocket ------------------------------
(***************************************************************************)
(* One WebSocket connection of pkg/server (websocket_client.go): the       *)
(* goroutine of resolve reads from the peer and starts a goroutine for     *)
(* every message; handlers, and the callbacks resolve itself makes, call   *)
(* Send and Close.  gorilla's Conn is external: a failed or a close write  *)
(* makes every later one fail, a failed read is repeated by every later    *)
(* one until, at the MaxRepeats-th, it panics.                             *)
(***************************************************************************)
EXTENDS Integers

CONSTANTS
    Handlers,       \* bound: how many goroutines handle messages at a time
    Loop,           \* the goroutine of resolve, as a caller
    Nobody,
    MaxRepeats      \* 1000 in gorilla

VARIABLES
    loop,           \* where resolve is
    readErr,        \* the sticky error of reading
    repeats,        \* how often it has been returned
    closes,         \* how often OnClose has been called
    conn,           \* whether the connection is open on this side
    peer,           \* what the other side does
    writeErr,       \* writing has failed, or a close frame has been written
    pc,             \* where each caller's Send or Close is
    writeLock,      \* who holds c.writeLock
    closeOnce,      \* the state of c.closeOnce
    closed,         \* some Close has returned (ghost)
    after           \* callers whose Send began after that (ghost)

loopVars == <<loop, readErr, repeats, closes>>
callVars == <<pc, writeLock, closeOnce, closed, after>>
vars == <<loopVars, conn, peer, writeErr, callVars>>

Callers == Handlers \cup {Loop}
Writing == {"begin", "write", "control"}

TypeOK ==
    /\ loop \in {"new", "rejected", "connect", "read", "error", "close", "onClose", "done"}
    /\ readErr \in {"none", "close", "net"}
    /\ repeats \in 0..MaxRepeats
    /\ closes \in 0..1
    /\ conn \in {"open", "closed"}
    /\ peer \in {"reading", "stalled", "closed", "gone"}
    /\ writeErr \in BOOLEAN
    /\ pc \in [Callers -> {"none", "idle", "lock", "sent", "refused", "once", "closeLock"}
                          \cup Writing]
    /\ writeLock \in Callers \cup {Nobody}
    /\ closeOnce \in {"new", "running", "done"}
    /\ closed \in BOOLEAN
    /\ after \subseteq Callers

Init ==
    /\ loop = "new" /\ readErr = "none" /\ repeats = 0 /\ closes = 0
    /\ conn = "open" /\ peer = "reading" /\ writeErr = FALSE
    /\ pc = [c \in Callers |-> IF c = Loop THEN "idle" ELSE "none"]
    /\ writeLock = Nobody /\ closeOnce = "new" /\ closed = FALSE /\ after = {}

-----------------------------------------------------------------------------
\* What the other side and the network do.
PeerStep ==
    /\ peer' \in CASE peer = "reading" -> {"stalled", "closed", "gone"}
                   [] peer = "stalled" -> {"reading", "closed", "gone"}
                   [] OTHER -> {"gone"}
    /\ UNCHANGED <<loopVars, conn, writeErr, callVars>>

-----------------------------------------------------------------------------
(* resolve.  Its callbacks may call Send and Close, so it goes on only when *)
(* its own call has returned; a panic of one goes on with the cleanup.     *)
InCallback == loop \in {"connect", "error", "onClose"}

Goto(to) == loop' = to /\ UNCHANGED <<closes>>

\* upgrade and Handle: the handshake or the upgrade may fail.
Upgrade ==
    /\ loop = "new"
    /\ Goto("connect") \/ Goto("rejected")
    /\ UNCHANGED <<readErr, repeats, conn, peer, writeErr, callVars>>

OnConnect ==
    /\ loop = "connect" /\ pc[Loop] = "idle"
    /\ Goto("read") \/ Goto("close")
    /\ UNCHANGED <<readErr, repeats, conn, peer, writeErr, callVars>>

\* A message is handled in a goroutine of its own.
ReadMessage ==
    /\ loop = "read" /\ readErr = "none" /\ peer \in {"reading", "stalled"}
    /\ \E h \in Handlers :
         /\ pc[h] = "none"
         /\ pc' = [pc EXCEPT ![h] = "idle"]
    /\ UNCHANGED <<loopVars, conn, peer, writeErr, writeLock, closeOnce, closed, after>>

\* A close frame is answered with one, unless a write lasts for a second.
ReadClose ==
    /\ loop = "read" /\ readErr = "none" /\ peer = "closed"
    /\ readErr' = "close"
    /\ repeats' = 1
    /\ Goto("error")
    /\ \/ writeErr' = TRUE
       \/ (\E c \in Callers : pc[c] \in {"write", "control"}) /\ UNCHANGED writeErr
    /\ UNCHANGED <<conn, peer, callVars>>

\* gorilla reports the end of the stream as a close error as well.
ReadEOF ==
    /\ loop = "read" /\ readErr = "none" /\ peer = "gone"
    /\ readErr' = "close"
    /\ repeats' = 1
    /\ Goto("error")
    /\ UNCHANGED <<conn, peer, writeErr, callVars>>

\* Mutant: every read recovers its own panic.
ReadForever ==
    /\ loop = "read" /\ readErr # "close" /\ peer = "gone"
    /\ readErr' = "net"
    /\ repeats' = IF repeats = MaxRepeats THEN repeats ELSE repeats + 1
    /\ Goto("error")
    /\ UNCHANGED <<conn, peer, writeErr, callVars>>

ReadFails ==
    /\ loop = "read" /\ readErr # "close" /\ peer = "gone"
    /\ readErr' = "net"
    /\ repeats' = repeats + 1
    /\ IF repeats' = MaxRepeats THEN Goto("close") ELSE Goto("error")
    /\ UNCHANGED <<conn, peer, writeErr, callVars>>

\* OnError, then the break for a close error only.
OnError ==
    /\ loop = "error" /\ pc[Loop] = "idle"
    /\ \/ Goto(IF readErr = "close" THEN "close" ELSE "read")
       \/ Goto("close")
    /\ UNCHANGED <<readErr, repeats, conn, peer, writeErr, callVars>>

\* Mutant: the connection is left to the garbage collector.
CloseNothing ==
    /\ loop = "close"
    /\ Goto("onClose")
    /\ UNCHANGED <<readErr, repeats, conn, peer, writeErr, callVars>>

CloseConn ==
    /\ loop = "close"
    /\ Goto("onClose")
    /\ conn' = "closed"
    /\ UNCHANGED <<readErr, repeats, peer, writeErr, callVars>>

OnClose ==
    /\ loop = "onClose" /\ pc[Loop] = "idle"
    /\ loop' = "done"
    /\ closes' = closes + 1
    /\ UNCHANGED <<readErr, repeats, conn, peer, writeErr, callVars>>

LoopStep ==
    \/ Upgrade \/ OnConnect \/ ReadMessage \/ ReadClose \/ ReadEOF \/ ReadFails
    \/ OnError \/ CloseConn \/ OnClose

-----------------------------------------------------------------------------
(* Send and Close. *)
Move(c, from, to) == pc[c] = from /\ pc' = [pc EXCEPT ![c] = to]

MayCall(c) == pc[c] = "idle" /\ (c = Loop => InCallback)

CallSend(c) ==
    /\ MayCall(c)
    /\ Move(c, "idle", "lock")
    /\ after' = IF closed THEN after \cup {c} ELSE after
    /\ UNCHANGED <<loopVars, conn, peer, writeErr, writeLock, closeOnce, closed>>

\* Mutant: Send writes without the lock.
SendUnlocked(c) ==
    /\ Move(c, "lock", "begin")
    /\ UNCHANGED <<loopVars, conn, peer, writeErr, writeLock, closeOnce, closed, after>>

LockSend(c) ==
    /\ Move(c, "lock", "begin")
    /\ writeLock = Nobody
    /\ writeLock' = c
    /\ UNCHANGED <<loopVars, conn, peer, writeErr, closeOnce, closed, after>>

\* WriteMessage fails at once after a failed write or a close frame.
BeginWrite(c) ==
    /\ IF writeErr THEN Move(c, "begin", "refused") ELSE Move(c, "begin", "write")
    /\ UNCHANGED <<loopVars, conn, peer, writeErr, writeLock, closeOnce, closed, after>>

\* There is no write deadline: while the peer takes nothing, only a buffer
\* that still has room ends the write.
WriteEnds(c) ==
    /\ \/ Move(c, "write", "sent") /\ conn = "open" /\ UNCHANGED writeErr
       \/ Move(c, "write", "refused") /\ (conn = "closed" \/ peer = "gone") /\ writeErr' = TRUE
    /\ UNCHANGED <<loopVars, conn, peer, writeLock, closeOnce, closed, after>>

SendReturns(c) ==
    /\ Move(c, "sent", "idle") \/ Move(c, "refused", "idle")
    /\ writeLock' = IF writeLock = c THEN Nobody ELSE writeLock
    /\ after' = after \ {c}
    /\ UNCHANGED <<loopVars, conn, peer, writeErr, closeOnce, closed>>

CallClose(c) ==
    /\ MayCall(c)
    /\ Move(c, "idle", "once")
    /\ UNCHANGED <<loopVars, conn, peer, writeErr, writeLock, closeOnce, closed, after>>

\* The first Close runs the function of closeOnce.
FirstClose(c) ==
    /\ Move(c, "once", "closeLock")
    /\ closeOnce = "new"
    /\ closeOnce' = "running"
    /\ UNCHANGED <<loopVars, conn, peer, writeErr, writeLock, closed, after>>

\* Mutant: a flag instead of sync.Once: later calls do not wait for the first.
NextCloseFlag(c) ==
    /\ Move(c, "once", "idle")
    /\ closeOnce # "new"
    /\ closed' = TRUE
    /\ UNCHANGED <<loopVars, conn, peer, writeErr, writeLock, closeOnce, after>>

\* Later ones wait for it.
NextClose(c) ==
    /\ Move(c, "once", "idle")
    /\ closeOnce = "done"
    /\ closed' = TRUE
    /\ UNCHANGED <<loopVars, conn, peer, writeErr, writeLock, closeOnce, after>>

LockClose(c) ==
    /\ Move(c, "closeLock", "control")
    /\ writeLock = Nobody
    /\ writeLock' = c
    /\ UNCHANGED <<loopVars, conn, peer, writeErr, closeOnce, closed, after>>

\* WriteControl ends within a second, and no write succeeds after it.
WriteControl(c) ==
    /\ Move(c, "control", "idle")
    /\ writeErr' = TRUE
    /\ writeLock' = Nobody
    /\ closeOnce' = "done"
    /\ closed' = TRUE
    /\ UNCHANGED <<loopVars, conn, peer, after>>

\* A handler returns, or panics and is recovered.
HandlerEnds(h) ==
    /\ Move(h, "idle", "none")
    /\ UNCHANGED <<loopVars, conn, peer, writeErr, writeLock, closeOnce, closed, after>>

Locks(c) == LockSend(c) \/ LockClose(c)

CallStep(c) ==
    \/ BeginWrite(c) \/ SendReturns(c) \/ FirstClose(c) \/ NextClose(c) \/ WriteControl(c)

\* A write that ends because the peer reads, or fails.
PeerLets(c) == (conn = "closed" \/ peer \in {"reading", "gone"}) /\ WriteEnds(c)

Next ==
    \/ PeerStep \/ LoopStep
    \/ \E c \in Callers :
         CallSend(c) \/ CallClose(c) \/ Locks(c) \/ WriteEnds(c) \/ CallStep(c)
    \/ \E h \in Handlers : HandlerEnds(h)

Spec == Init /\ [][Next]_vars

\* Goroutines are scheduled, a mutex reaches everyone who waits for it, and a
\* callback does not call for ever.  A write needs a peer that reads, or ends
\* because the connection is closed here or broken.
Fairness ==
    /\ WF_vars(LoopStep)
    /\ SF_vars(OnConnect \/ OnError \/ OnClose)
    /\ \A c \in Callers :
         /\ WF_vars(CallStep(c))
         /\ SF_vars(Locks(c))
         /\ WF_vars(PeerLets(c))

FairSpec == Spec /\ Fairness

-----------------------------------------------------------------------------
\* No two goroutines write to the connection at the same time, which gorilla
\* answers with a panic, whoever calls Send and Close (websocket_client.go:138-151).
OneWriter ==
    \A b, c \in Callers : pc[b] \in Writing /\ pc[c] \in Writing => b = c

\* Once any Close has returned, a Send that begins is refused: also when that
\* Close was not the first and the first was still at its write.
ClosedMeansRefused == \A c \in after : pc[c] # "sent"

\* A connection that breaks ends resolve: the loop that repeats a failed read
\* is ended by gorilla's panic, a callback that waits in Send or Close gets on,
\* and in the end, also after the panic of a callback, the connection has been
\* closed and OnClose called once (websocket_client.go:95-132).
Released == conn = "closed" /\ closes = 1

LoopEnds == peer = "gone" ~> loop = "rejected" \/ (loop = "done" /\ Released)

\* The end of resolve frees everyone: a Send to a peer that takes nothing has
\* no deadline, and those who wait behind it depend on it.
CallsEnd ==
    \A c \in Callers : (loop = "done" /\ pc[c] # "none") ~> pc[c] \in {"none", "idle"}
=============================================================================
