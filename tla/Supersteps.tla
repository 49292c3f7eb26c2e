----------------------------- MODULE Supersteps -----------------------------
(***************************************************************************)
(* What the user of a graph may rely on, with no goroutines in it: an      *)
(* execution is a sequence of supersteps, each a single step.  Which nodes *)
(* of a superstep succeed is open; what the lasting channels hold after it *)
(* follows from that and from what they held before, and from nothing      *)
(* else.  Checkpoints hold whole supersteps, and the outcome is final.     *)
(***************************************************************************)
EXTENDS Integers, Sequences, FiniteSets

CONSTANTS Node, NodeNames, Channel, None, RecursionLimit

VARIABLES
    graph, durability,
    past,       \* the lasting channels after each superstep so far
    done,       \* the nodes that succeeded, with their supersteps
    saved,      \* the supersteps that the checkpointer holds
    outcome     \* "running", "done" or "error"

vars == <<graph, durability, past, done, saved, outcome>>

\* The channels that keep their values from one superstep to the next.
Lasting == {c \in Channel : graph.kind[c] # "ephemeral"}

\* What they hold when the next superstep begins: at first, the input.
InputOf(c) == IF c \in graph.input THEN <<[node |-> None, step |-> 0]>> ELSE <<>>
State == IF past = <<>> THEN [c \in Lasting |-> InputOf(c)] ELSE past[Len(past)]

Init ==
    /\ past = <<>> /\ done = {} /\ saved = {}
    /\ outcome = "running"

-----------------------------------------------------------------------------
(* Which nodes run together.                                               *)

Succeeded == {w.node : w \in done}
JustSucceeded == {w.node : w \in {x \in done : x.step = Len(past) - 1}}

Edge(p, n) == \E i \in DOMAIN graph.edges : graph.edges[i] = <<p, n>>

\* An edge, a condition or a branch of p may lead to n.
Follows(p, n) ==
    \/ Edge(p, n)
    \/ \E i \in DOMAIN graph.conds :
          graph.conds[i].from = p /\ n \in graph.conds[i].to
    \/ \E i \in DOMAIN graph.branches :
          graph.branches[i].from = p /\ n \in UNION graph.branches[i].to

\* The entry runs first.  Nodes that wait for all their predecessors run after
\* them, and not again; others follow one node of the superstep before.
MayRun(S) ==
    /\ S # {} /\ S \subseteq graph.nodes
    /\ past = <<>> => S = {graph.entry}
    /\ past # <<>> /\ graph.mode = "all" =>
          /\ S \cap Succeeded = {}
          /\ \A n \in S, p \in Node : Edge(p, n) => p \in Succeeded
    /\ past # <<>> /\ graph.mode = "any" =>
          \E p \in JustSucceeded : \A n \in S : Follows(p, n)

\* The values that a superstep of which S succeeds writes to c, in the order
\* of the nodes' names.
Rank(n) == CHOOSE i \in 1 .. Len(NodeNames) : NodeNames[i] = n
Place(n, W) == Cardinality({m \in W : Rank(m) <= Rank(n)})
Batch(S, c) ==
    LET W == {n \in S : c \in graph.writes[n]}
    IN  [k \in 1 .. Cardinality(W) |->
           [node |-> CHOOSE n \in W : Place(n, W) = k, step |-> Len(past)]]

After(S, c) ==
    IF Batch(S, c) = <<>> THEN State[c]
    ELSE IF graph.kind[c] = "acc" THEN State[c] \o Batch(S, c)
    ELSE <<Batch(S, c)[Len(Batch(S, c))]>>

AllSaved == saved = {[step |-> k - 1, state |-> past[k]] : k \in DOMAIN past}

\* A LastValue takes one value at a time.  A synchronous save comes first.
Superstep(S) ==
    /\ outcome = "running" /\ Len(past) < RecursionLimit
    /\ done' = done \cup {[node |-> n, step |-> Len(past)] : n \in S}
    /\ MayRun(S)
    /\ \A c \in Channel : graph.kind[c] = "last" => Len(Batch(S, c)) <= 1
    /\ durability = "sync" => AllSaved
    /\ past' = Append(past, [c \in Lasting |-> After(S, c)])
    /\ UNCHANGED <<graph, durability, saved, outcome>>

\* Saves may be late, also after the end.
Save(k) ==
    /\ durability # "none"
    /\ saved' = saved \cup {[step |-> k - 1, state |-> past[k]]}
    /\ UNCHANGED <<graph, durability, past, done, outcome>>

\* An execution that is not saved as it should be is not done.
Ends(o) ==
    /\ outcome = "running"
    /\ o = "done" /\ durability \in {"sync", "exit"} => AllSaved
    /\ outcome' = o
    /\ UNCHANGED <<graph, durability, past, done, saved>>

Next ==
    \/ \E S \in SUBSET Node : Superstep(S)
    \/ \E k \in DOMAIN past : Save(k)
    \/ \E o \in {"done", "error"} : Ends(o)

Spec == Init /\ [][Next]_vars
=============================================================================
