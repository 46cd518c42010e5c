---------------------------- MODULE NodeFilters ------------------------------
(***************************************************************************)
(* Which nodes of a service a client may pick from: the filters of         *)
(* internal/filter in the chain pkg/client/client_config.go builds, which  *)
(* kratos' selector applies one after the other.                           *)
(***************************************************************************)
EXTENDS Integers, Sequences, SequencesExt, FiniteSetsExt

CONSTANTS
    MaxNodes        \* bound: how many nodes the service has

VARIABLES
    appEnv,         \* the environment of this program, on the host "here"
    protocol,       \* that of the client
    version,        \* what its target asks for, "" if nothing
    nodes,          \* what discovery returned
    asked,          \* the filters have run
    picked          \* the indices of the nodes that pass

vars == <<appEnv, protocol, version, nodes, asked, picked>>

Schemes == {"grpc", "http"}
Absent == ""        \* what Go reads for a key that a map does not have

Metadata == [env : {"local", "prod"}, hostname : {"here", "there"}, version : {Absent, "v1"}]
NoMetadata == [env |-> "nil", hostname |-> "nil", version |-> "nil"]
Nodes == [scheme : Schemes, md : Metadata \cup {NoMetadata}]

TypeOK ==
    /\ appEnv \in {"local", "prod"}
    /\ protocol \in Schemes
    /\ version \in {Absent, "v1"}
    /\ nodes \in Seq(Nodes) /\ Len(nodes) <= MaxNodes
    /\ asked \in BOOLEAN
    /\ ToSet(picked) \subseteq DOMAIN nodes

Init ==
    /\ appEnv \in {"local", "prod"}
    /\ protocol \in Schemes
    /\ version \in {Absent, "v1"}
    /\ \E n \in 0..MaxNodes : nodes \in [1..n -> Nodes]
    /\ asked = FALSE /\ picked = <<>>

-----------------------------------------------------------------------------
\* The loop of a filter over a list: the nodes that pass, in their order.
Kept(list, passing) ==
    LET kept[i \in 0..Len(list)] ==
            IF i = 0 THEN <<>>
            ELSE IF list[i] \in passing THEN Append(kept[i - 1], list[i])
            ELSE kept[i - 1]
    IN  kept[Len(list)]

\* Metadata(mdFilter): the nodes that have all of its entries.
WithMetadata(entries, list) ==
    Kept(list, {n \in DOMAIN nodes : /\ nodes[n].md # NoMetadata
                                     /\ \A key \in DOMAIN entries :
                                           nodes[n].md[key] = entries[key]})

\* Mutant: the last filter that leaves a node.
SelectLast(lists, list) ==
    LET leaving == {i \in DOMAIN lists : lists[i] # <<>>}
    IN  IF leaving # {} THEN lists[Max(leaving)] ELSE list

\* The first filter that leaves a node, or no filter at all.
SelectFirstOrFallbackAll(lists, list) ==
    LET leaving == {i \in DOMAIN lists : lists[i] # <<>>}
    IN  IF leaving # {} THEN lists[Min(leaving)] ELSE list

Env(list) ==
    IF appEnv = "local"
    THEN SelectFirstOrFallbackAll(<<WithMetadata([env |-> appEnv, hostname |-> "here"], list),
                                    WithMetadata([env |-> appEnv], list)>>, list)
    ELSE WithMetadata([env |-> appEnv], list)

Scheme(list) == Kept(list, {n \in DOMAIN nodes : nodes[n].scheme = protocol})

Target(list) == IF version = Absent THEN list ELSE WithMetadata([version |-> version], list)

Select ==
    /\ ~asked /\ asked' = TRUE
    /\ picked' = Target(Scheme(Env([n \in DOMAIN nodes |-> n])))
    /\ UNCHANGED <<appEnv, protocol, version, nodes>>

Next == Select

Spec == Init /\ [][Next]_vars

-----------------------------------------------------------------------------
Far(n) ==
    IF nodes[n].md = NoMetadata \/ nodes[n].md.env # appEnv THEN 3
    ELSE IF appEnv = "local" /\ nodes[n].md.hostname = "here" THEN 1
    ELSE 2

\* Locally only the nearest class of nodes that has any is left: this host,
\* then local nodes elsewhere, then all; elsewhere only this environment.  Of
\* that class every node with the protocol and metadata passes, in the order
\* of discovery, none twice (env.go:12-41, client_config.go:36-64).
NearestClass ==
    asked =>
        LET near == IF appEnv = "local" /\ nodes # <<>>
                    THEN Min({Far(n) : n \in DOMAIN nodes})
                    ELSE 2
            class == {n \in DOMAIN nodes : Far(n) = near}
        IN  /\ ToSet(picked) =
                 {n \in class : nodes[n].scheme = protocol
                      /\ (version # Absent => nodes[n].md # NoMetadata /\ nodes[n].md.version = version)}
            /\ \A i, j \in DOMAIN picked : i < j => picked[i] < picked[j]
=============================================================================
