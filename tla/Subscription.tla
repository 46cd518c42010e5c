----------------------------- MODULE Subscription -----------------------------
(***************************************************************************)
(* Subscribe of pkg/redis/subscribe.go: one goroutine takes the messages   *)
(* of go-redis' PubSub (external), parses them, and sends each result to   *)
(* the message or the error channel of the subscriber.                     *)
(***************************************************************************)
EXTENDS Integers, Sequences, Functions

CONSTANTS
    ChSize, ErrSize,    \* capacities of the two channels
    MaxMessages         \* bound: how many messages are published

VARIABLES
    published,      \* the number of messages published
    rec,            \* what the channel of the PubSub holds
    recOpen,
    cancelled,      \* the subscriber's context has ended
    pc,             \* where the goroutine is
    msg,            \* the message it is at
    taken,          \* messages it has received (ghost)
    ch, chOpen,     \* the message channel
    errCh, errOpen, \* the error channel
    reader,         \* how the subscriber reads, and whether it still does
    got, errs       \* what it has read

pubVars == <<published, rec, recOpen>>
subVars == <<pc, msg, taken>>
chanVars == <<ch, chOpen, errCh, errOpen>>
readVars == <<reader, got, errs>>
vars == <<pubVars, cancelled, subVars, chanVars, readVars>>

\* The error of sub.Close, beside the errors of messages.
CloseError == 0
Messages == 1..MaxMessages

\* The messages of s are in the order in which they were published.
InOrder(s) == \A i, j \in DOMAIN s : i < j /\ s[j] # CloseError => s[i] < s[j]

TypeOK ==
    /\ published \in 0..MaxMessages
    /\ rec \in Seq(Messages)
    /\ recOpen \in BOOLEAN /\ cancelled \in BOOLEAN
    /\ pc \in {"select", "parse", "send", "sendErr", "subClose", "closeErr", "closeErrCh",
               "closeCh", "done"}
    /\ msg \in Messages \cup {CloseError} /\ taken \in Seq(Messages)
    /\ ch \in Seq(Messages) /\ Len(ch) <= ChSize /\ chOpen \in BOOLEAN
    /\ errCh \in Seq(Messages \cup {CloseError}) /\ Len(errCh) <= ErrSize /\ errOpen \in BOOLEAN
    /\ reader \in {"example", "both", "left"}
    /\ got \in Seq(Messages) /\ errs \in Seq(Messages \cup {CloseError})

Init ==
    /\ published = 0 /\ rec = <<>> /\ recOpen = TRUE
    /\ cancelled = FALSE
    /\ pc = "select" /\ msg = CloseError /\ taken = <<>>
    /\ ch = <<>> /\ chOpen = TRUE /\ errCh = <<>> /\ errOpen = TRUE
    /\ reader \in {"example", "both"} /\ got = <<>> /\ errs = <<>>

-----------------------------------------------------------------------------
\* A message reaches the PubSub, or is lost on the way or dropped there.
PublishMessage ==
    /\ published < MaxMessages
    /\ published' = published + 1
    /\ rec' \in {rec} \cup IF recOpen THEN {Append(rec, published')} ELSE {}
    /\ UNCHANGED <<recOpen, cancelled, subVars, chanVars, readVars>>

\* The client is closed under the subscription.
ClientClosed ==
    /\ recOpen
    /\ recOpen' = FALSE
    /\ UNCHANGED <<published, rec, cancelled, subVars, chanVars, readVars>>

CancelSubscription ==
    /\ ~cancelled
    /\ cancelled' = TRUE
    /\ UNCHANGED <<pubVars, subVars, chanVars, readVars>>

-----------------------------------------------------------------------------
(* The goroutine. *)
Goto(from, to) == pc = from /\ pc' = to

\* select: the end of the context has no precedence over a message.
SelectMessage ==
    /\ Goto("select", "parse")
    /\ rec # <<>>
    /\ msg' = Head(rec) /\ rec' = Tail(rec)
    /\ taken' = Append(taken, msg')
    /\ UNCHANGED <<published, recOpen, cancelled, chanVars, readVars>>

SelectEnd ==
    /\ Goto("select", "subClose")
    /\ cancelled \/ (~recOpen /\ rec = <<>>)
    /\ UNCHANGED <<pubVars, cancelled, msg, taken, chanVars, readVars>>

\* An error and a panic of the parser both go to the error channel.
Parse ==
    /\ Goto("parse", "send") \/ Goto("parse", "sendErr")
    /\ UNCHANGED <<pubVars, cancelled, msg, taken, chanVars, readVars>>

\* The sends wait for room and do not look at the context.
Send ==
    /\ Goto("send", "select")
    /\ Len(ch) < ChSize
    /\ ch' = Append(ch, msg)
    /\ UNCHANGED <<pubVars, cancelled, msg, taken, chOpen, errCh, errOpen, readVars>>

SendTo(e, to) ==
    /\ Len(errCh) < ErrSize
    /\ errCh' = Append(errCh, e)
    /\ pc' = to
    /\ UNCHANGED <<pubVars, cancelled, msg, taken, ch, chOpen, errOpen, readVars>>

\* Mutant: the else of the parser's error is missing.
SendErrorToo == pc = "sendErr" /\ SendTo(msg, "send")

SendError == pc = "sendErr" /\ SendTo(msg, "select")

\* Mutant: the channels are closed by a function deferred after the one that
\* closes the subscription.
CloseChFirst ==
    /\ Goto("subClose", "closeErr") \/ Goto("subClose", "closeErrCh")
    /\ recOpen' = FALSE /\ chOpen' = FALSE
    /\ UNCHANGED <<published, rec, cancelled, msg, taken, ch, errCh, errOpen, readVars>>

\* The deferred functions: close the subscription, send its error, close the
\* error channel, close the message channel.
CloseSub ==
    /\ Goto("subClose", "closeErr") \/ Goto("subClose", "closeErrCh")
    /\ recOpen' = FALSE
    /\ UNCHANGED <<published, rec, cancelled, msg, taken, chanVars, readVars>>

SendCloseError == pc = "closeErr" /\ SendTo(CloseError, "closeErrCh")

CloseErrCh ==
    /\ Goto("closeErrCh", "closeCh")
    /\ errOpen' = FALSE
    /\ UNCHANGED <<pubVars, cancelled, msg, taken, ch, chOpen, errCh, readVars>>

CloseCh ==
    /\ Goto("closeCh", "done")
    /\ chOpen' = FALSE
    /\ UNCHANGED <<pubVars, cancelled, msg, taken, ch, errCh, errOpen, readVars>>

GoStep ==
    \/ SelectMessage \/ SelectEnd \/ Parse \/ Send \/ SendError
    \/ CloseSub \/ SendCloseError \/ CloseErrCh \/ CloseCh

-----------------------------------------------------------------------------
(* The subscriber: the loop of the example of Subscribe leaves at the      *)
(* first channel it finds closed, another one reads both to their end.     *)
ReadCh ==
    /\ reader # "left" /\ ch # <<>>
    /\ got' = Append(got, Head(ch)) /\ ch' = Tail(ch)
    /\ UNCHANGED <<pubVars, cancelled, subVars, chOpen, errCh, errOpen, reader, errs>>

ReadErrCh ==
    /\ reader # "left" /\ errCh # <<>>
    /\ errs' = Append(errs, Head(errCh)) /\ errCh' = Tail(errCh)
    /\ UNCHANGED <<pubVars, cancelled, subVars, ch, chOpen, errOpen, reader, got>>

ChEnds == ~chOpen /\ ch = <<>>
ErrChEnds == ~errOpen /\ errCh = <<>>

ReaderLeaves ==
    /\ \/ reader = "example" /\ (ChEnds \/ ErrChEnds)
       \/ reader = "both" /\ ChEnds /\ ErrChEnds
    /\ reader' = "left"
    /\ UNCHANGED <<pubVars, cancelled, subVars, chanVars, got, errs>>

Next ==
    \/ PublishMessage \/ ClientClosed \/ CancelSubscription
    \/ GoStep
    \/ ReadCh \/ ReadErrCh \/ ReaderLeaves

Spec == Init /\ [][Next]_vars

\* The goroutine is scheduled and the subscriber reads on, which the
\* documentation of Subscribe demands; select chooses among ready channels at
\* random, so it does not neglect one for ever.
Fairness ==
    /\ WF_vars(GoStep)
    /\ SF_vars(SelectEnd)
    /\ WF_vars(ReadCh) /\ WF_vars(ReadErrCh) /\ WF_vars(ReaderLeaves)

FairSpec == Spec /\ Fairness

-----------------------------------------------------------------------------
\* Every message taken from the PubSub has one outcome: it is read, waits in
\* one of the channels or is at the goroutine, and the ones that were parsed
\* keep their order (subscribe.go:103-131).
Accounted ==
    LET good == got \o ch
        bad == errs \o errCh
        held == IF pc \in {"parse", "send", "sendErr"} THEN {msg} ELSE {}
    IN  /\ InOrder(good) /\ InOrder(bad)
        /\ Range(good) \cap Range(bad) = {}
        /\ (Range(good) \cup Range(bad)) \cap held = {}
        /\ (Range(good) \cup Range(bad) \cup held) \ {CloseError} = Range(taken)

\* The end of the context, or of the PubSub, ends the goroutine and closes
\* both channels, also for the subscriber of the example, which stops reading
\* at the first closed one (subscribe.go:42, :54-69).
SubscriptionEnds == (cancelled \/ ~recOpen) ~> pc = "done" /\ ~chOpen /\ ~errOpen
=============================================================================
