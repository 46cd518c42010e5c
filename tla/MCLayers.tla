------------------------------- MODULE MCLayers ------------------------------
(***************************************************************************)
(* One run for what the configuration sources do in the end: a single      *)
(* priority source with the reader of its configuration, and the nested    *)
(* sources of NewConfig.  They are independent state machines; a behaviour *)
(* is one of them, chosen at the start, while the variables of the other   *)
(* keep their initial values.                                              *)
(***************************************************************************)
EXTENDS LayeredConfig

CONSTANTS N, Replaying

VARIABLES
    part,           \* the state machine of this behaviour
    cached, lock, pc, kvs, phase, loaded, stopped,
    ownContent, ownPending, ownRpc, ownRbuf, ownView, ownChanges, ownFails

Single == INSTANCE Config WITH
    content <- ownContent, pending <- ownPending, rpc <- ownRpc, rbuf <- ownRbuf,
    view <- ownView, changes <- ownChanges, fails <- ownFails

singleVars == <<cached, lock, pc, kvs, phase, loaded, stopped,
                ownContent, ownPending, ownRpc, ownRbuf, ownView, ownChanges, ownFails>>

Inits ==
    /\ part \in {"layers", "single"}
    /\ Init /\ (part # "layers" => content = [l \in Leaves |-> rbuf])
    /\ Single!Init /\ (part # "single" => ownContent = cached)

NextPart ==
    \/ part = "layers" /\ Next /\ UNCHANGED <<part, singleVars>>
    \/ part = "single" /\ Single!Next /\ UNCHANGED <<part, vars>>

\* The fairness of the two, each asked where it is the chosen one (a
\* disjunction of them would double the work of TLC).
LayersFairness ==
    /\ \A l \in Leaves :
         /\ WF_vars(part = "layers" /\ LeafNext(l))
         /\ WF_vars(part = "layers" /\ LeafRetry(l))
         /\ WF_vars(part = "layers" /\ LeafStore(l))
         /\ WF_vars(part = "layers" /\ PassOn(l))
    /\ \A g \in 1..2 :
         /\ WF_vars(part = "layers" /\ GroupStore(g))
         /\ WF_vars(part = "layers" /\ Receive(g))
    /\ WF_vars(part = "layers" /\ Merge)

SingleFairness ==
    /\ \A i \in Single!Sources :
         /\ WF_singleVars(part = "single" /\ Single!LoadSource(i))
         /\ WF_singleVars(part = "single" /\ Single!OpenWatch(i))
         /\ WF_singleVars(part = "single" /\ Single!SourceNext(i))
         /\ WF_singleVars(part = "single" /\ Single!SourceRetry(i))
         /\ WF_singleVars(part = "single" /\ Single!SourceCanceled(i))
         /\ WF_singleVars(part = "single" /\ Single!Store(i))
         /\ WF_singleVars(part = "single" /\ Single!Receive(i))
         /\ WF_singleVars(part = "single" /\ Single!StopSource(i))
    /\ WF_singleVars(part = "single" /\ Single!LoadDone)
    /\ WF_singleVars(part = "single" /\ Single!Merge)
    /\ WF_singleVars(part = "single" /\ Single!ReaderExit)
    /\ WF_singleVars(part = "single" /\ Single!Cancel)

Parts ==
    /\ Inits /\ [][NextPart]_<<part, vars, singleVars>>
    /\ LayersFairness /\ SingleFairness

\* The configuration ends up as what the sources hold (priority_config_source.go:73-98).
Converges == Single!Converges
\* After the cleanup function has been called the reader ends (priority_config_source.go:101-122).
ReaderEnds == Single!ReaderEnds
=============================================================================
