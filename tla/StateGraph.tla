----------------------------- MODULE StateGraph -----------------------------
(***************************************************************************)
(* StateGraph and CompiledGraph (graphengine/graph/graph.go): a graph is   *)
(* built call by call, validated by Compile, and run by the inline loop,   *)
(* which is what Invoke falls back to when no engine is plugged in.  The   *)
(* compiled graph is the builder's graph, which may still grow; runs are   *)
(* made one after the other, on one thread of a checkpointer.              *)
(*                                                                         *)
(* Every node writes the channel of the state, a LastValue; a value is the *)
(* node that wrote it.  What nodes and conditions return is external.      *)
(* Branches and data edges are only kept, and are left out.                *)
(***************************************************************************)
EXTENDS Integers, FiniteSets

CONSTANTS
    Node,
    Interrupts,         \* nodes WithInterrupts names
    RecursionLimit,
    MaxEdges,           \* bound: edges
    MaxConds,           \* bound: conditional edges
    MaxInvokes          \* bound: runs

Start == "__start__"
End == "__end__"
NoNode == ""
Input == "input"

VARIABLES
    nodes, edges, conds, entryPoint, finishPoints,
    compiled,
    pc, step, completedTasks, lastCompletedNode, tasks,
    channel,            \* what the state's channel holds
    saved,              \* what the checkpointer holds of the thread
    result,             \* how the last run ended
    ran,                \* history: nodes that were run since Compile
    invokes

graphVars == <<nodes, edges, conds, entryPoint, finishPoints, compiled, pc, step,
               completedTasks, lastCompletedNode, tasks, channel, saved, result,
               ran, invokes>>
builder == <<nodes, edges, conds, entryPoint, finishPoints>>
running == <<pc, step, completedTasks, lastCompletedNode, tasks, channel, saved,
             result, ran, invokes>>

GraphInit ==
    /\ nodes = {} /\ edges = {} /\ conds = {}
    /\ entryPoint = NoNode /\ finishPoints = {}
    /\ compiled = FALSE
    /\ pc = "idle" /\ step = 0 /\ completedTasks = {}
    /\ lastCompletedNode = NoNode /\ tasks = {}
    /\ channel = NoNode /\ saved = NoNode /\ result = "none" /\ ran = {}
    /\ invokes = 0

-----------------------------------------------------------------------------
(* Building.  Nothing is ever taken away, except that the entry point may  *)
(* be set again.                                                           *)

Building == pc = "idle" /\ UNCHANGED <<compiled, running>>

AddNode(n) ==
    /\ Building /\ n \notin nodes
    /\ nodes' = nodes \cup {n}
    /\ UNCHANGED <<edges, conds, entryPoint, finishPoints>>

\* Mutant: the target may be missing.
AddEdge_Unchecked(x, y) ==
    /\ Building /\ Cardinality(edges) < MaxEdges
    /\ x \in nodes \cup {Start}
    /\ edges' = edges \cup {<<x, y>>}
    /\ entryPoint' = IF x = Start THEN y ELSE entryPoint
    /\ finishPoints' = IF y = End THEN finishPoints \cup {x} ELSE finishPoints
    /\ UNCHANGED <<nodes, conds>>

AddEdge(x, y) ==
    /\ Building /\ Cardinality(edges) < MaxEdges
    /\ x \in nodes \cup {Start} /\ y \in nodes \cup {End}
    /\ edges' = edges \cup {<<x, y>>}
    /\ entryPoint' = IF x = Start THEN y ELSE entryPoint
    /\ finishPoints' = IF y = End THEN finishPoints \cup {x} ELSE finishPoints
    /\ UNCHANGED <<nodes, conds>>

AddConditionalEdges(n, targets) ==
    /\ Building /\ Cardinality(conds) < MaxConds
    /\ n \in nodes /\ targets \subseteq nodes \cup {End}
    /\ conds' = conds \cup {[from |-> n, mapping |-> targets]}
    /\ UNCHANGED <<nodes, edges, entryPoint, finishPoints>>

SetEntryPoint(n) ==
    /\ Building /\ n \in nodes
    /\ entryPoint' = n
    /\ UNCHANGED <<nodes, edges, conds, finishPoints>>

SetFinishPoint(n) ==
    /\ Building /\ n \in nodes
    /\ finishPoints' = finishPoints \cup {n}
    /\ UNCHANGED <<nodes, edges, conds, entryPoint>>

-----------------------------------------------------------------------------
(* Compiling.                                                              *)

Successors(n) ==
    ({e[2] : e \in {e \in edges : e[1] = n}}
       \cup UNION {c.mapping : c \in {c \in conds : c.from = n}}) \ {End}

\* The search, breadth first.
computeReachable ==
    LET layer[i \in 0 .. Cardinality(nodes)] ==
          IF i = 0 THEN {entryPoint}
          ELSE layer[i - 1] \cup UNION {Successors(n) : n \in layer[i - 1]}
    IN  layer[Cardinality(nodes)]

Validate ==
    /\ entryPoint # NoNode /\ finishPoints # {}
    /\ nodes \subseteq computeReachable

Compile ==
    /\ pc = "idle" /\ ~compiled /\ Validate
    /\ compiled' = TRUE
    /\ UNCHANGED <<builder, running>>

-----------------------------------------------------------------------------
(* The inline loop.                                                        *)

Ends(r) ==
    /\ pc' = "idle" /\ result' = r
    /\ UNCHANGED <<step, completedTasks, lastCompletedNode, tasks, channel, saved,
                   ran, invokes>>

\* The input is applied first, and what the thread has saved replaces it.
Invoke ==
    /\ pc = "idle" /\ compiled /\ invokes < MaxInvokes
    /\ invokes' = invokes + 1
    /\ channel' = IF saved = NoNode THEN Input ELSE saved
    /\ step' = 0 /\ completedTasks' = {} /\ lastCompletedNode' = NoNode
    /\ tasks' = {}
    /\ pc' = "next"
    /\ UNCHANGED <<builder, compiled, saved, result, ran>>

From(n) == {c \in conds : c.from = n}

\* What the conditions after the last node may answer.
Routes == {f \in [From(lastCompletedNode) -> nodes \cup {End}] :
             \A c \in From(lastCompletedNode) : f[c] \in c.mapping}

\* The nodes that follow; none when an edge, or a condition, leads to the end.
Follow(route) ==
    LET to == IF DOMAIN route # {} THEN {route[c] : c \in DOMAIN route}
              ELSE {e[2] : e \in {e \in edges : e[1] = lastCompletedNode}}
    IN  IF End \in to THEN {} ELSE to

\* The checkpointer's error is not looked at.
Save(v) == saved' \in {v, saved}

\* inlineGetNextTasks and what the loop does with its answer.
NextTasks(next) ==
    IF next = {} THEN Ends("output")
    ELSE IF next \cap Interrupts # {}
      THEN /\ pc' = "idle" /\ result' = "interrupt"
           /\ Save(channel)
           /\ UNCHANGED <<step, completedTasks, lastCompletedNode, tasks, channel,
                          ran, invokes>>
      ELSE /\ tasks' = next /\ pc' = "execute"
           /\ UNCHANGED <<step, completedTasks, lastCompletedNode, channel, saved,
                          result, ran, invokes>>

\* A condition fails, or its answer is not in the mapping.
ConditionFails ==
    /\ pc = "next" /\ step < RecursionLimit /\ completedTasks # {}
    /\ From(lastCompletedNode) # {}
    /\ Ends("condition")
    /\ UNCHANGED <<builder, compiled>>

inlineNext ==
    /\ pc = "next"
    /\ IF step >= RecursionLimit THEN Ends("recursion")
       ELSE IF completedTasks = {}
         THEN IF entryPoint \in nodes THEN NextTasks({entryPoint})
                                      ELSE Ends("notFound")
       ELSE \E route \in Routes : NextTasks(Follow(route) \cap nodes)
    /\ UNCHANGED <<builder, compiled>>

\* The tasks one after the other; a task that fails or panics writes nothing
\* and is not told.  The order of the tasks is that of a map, and the last
\* one that succeeded is followed.  Two values in one step are refused.
Execute ==
    /\ pc = "execute"
    /\ ran' = ran \cup tasks
    /\ \E good \in SUBSET tasks :
         /\ completedTasks' = completedTasks \cup good
         /\ IF good = {} THEN UNCHANGED lastCompletedNode
                         ELSE lastCompletedNode' \in good
         /\ IF Cardinality(good) > 1
              THEN /\ pc' = "idle" /\ result' = "writes"
                   /\ UNCHANGED <<channel, saved, step>>
              ELSE /\ channel' = IF good = {} THEN channel ELSE lastCompletedNode'
                   /\ Save(channel')
                   /\ step' = step + 1 /\ pc' = "next"
                   /\ UNCHANGED result
    /\ tasks' = {}
    /\ UNCHANGED <<builder, compiled, invokes>>

GraphNext ==
    \/ \E n \in Node : AddNode(n) \/ SetEntryPoint(n) \/ SetFinishPoint(n)
    \/ \E x \in Node \cup {Start}, y \in Node \cup {End} : AddEdge(x, y)
    \/ \E n \in Node, targets \in SUBSET (Node \cup {End}) \ {{}} :
         AddConditionalEdges(n, targets)
    \/ Compile \/ Invoke \/ inlineNext \/ ConditionFails \/ Execute

-----------------------------------------------------------------------------
(* Properties.                                                             *)

Closed(S) == \A n \in S : Successors(n) \subseteq S

\* The search finds exactly what edges and conditions can lead to.  A run of a
\* compiled graph, also if the graph was extended since, only runs nodes that
\* the graph has and that the entry point leads to, ends without an entry node
\* only if the graph was told to start at the end, and never passes a
\* breakpoint; what the thread has saved is what a node wrote or the input.
RunStaysReachable ==
    /\ entryPoint # NoNode =>
         /\ entryPoint \in computeReachable /\ Closed(computeReachable)
         /\ \A S \in SUBSET (nodes \cup {entryPoint}) :
              entryPoint \in S /\ Closed(S) => computeReachable \subseteq S
    /\ tasks \subseteq nodes /\ tasks \subseteq computeReachable
    /\ pc # "idle" /\ lastCompletedNode # NoNode =>
         lastCompletedNode \in computeReachable \cap nodes
    /\ result = "notFound" => <<Start, End>> \in edges
    /\ ran \cap Interrupts = {}
    /\ saved \in ran \cup {NoNode, Input}
=============================================================================
