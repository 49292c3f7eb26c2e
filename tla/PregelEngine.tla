---------------------------- MODULE PregelEngine ----------------------------
(***************************************************************************)
(* One execution of a graph by the Pregel engine: the superstep loop of    *)
(* Engine.Run (graphengine/pregel/engine.go), the goroutines that run the  *)
(* nodes of a superstep with their retries, the channels they read and     *)
(* write, and the three ways of saving a checkpoint after each superstep.  *)
(*                                                                         *)
(* A value written to a channel is known by its author: the node and the   *)
(* superstep.  A channel holds a sequence of them, empty when the channel  *)
(* is Missing.  What conditions and branches decide is a free choice among *)
(* their targets.  Left out, because nothing decides on them: channel      *)
(* versions, pending writes and the events of the stream (RunStream).      *)
(* Left out, because no execution reaches it: the load of a checkpoint,    *)
(* which needs a nil input that applyInput has refused before, and the     *)
(* interrupts, which need a trigger and createTask is given none.          *)
(***************************************************************************)
EXTENDS Integers, Sequences, FiniteSets

CONSTANTS
    Node,
    NodeNames,      \* the nodes, sorted by name
    Channel,
    End,            \* constants.End
    None,           \* no node: a condition that fails or maps to nothing,
                    \* an entry point that is not set, an unknown key
    Graphs,         \* the graphs, with what each node reads and writes
    Durabilities,   \* how checkpoints are saved; "none": no checkpointer
    RecursionLimit,
    MaxAttempts,    \* of DefaultRetryPolicy
    CtxMayEnd       \* the caller may cancel the context

Target == Node \cup {End, None}

Kind == {"last", "any", "acc", "ephemeral"}

Graph == [nodes : SUBSET Node,
          mode : {"any", "all"},
          entry : Target,
          edges : Seq(Node \X (Node \cup {End})),
          conds : Seq([from : Node, to : SUBSET Target]),
          branches : Seq([from : Node, to : SUBSET SUBSET (Node \cup {End})]),
          triggers : [Node -> SUBSET Channel],
          writes : [Node -> SUBSET Channel],
          kind : [Channel -> Kind],
          input : SUBSET (Channel \cup {None})]

ASSUME EngineAssumption ==
    /\ NodeNames \in Seq(Node)
    /\ \A n \in Node : \E i \in 1 .. Len(NodeNames) :
          NodeNames[i] = n /\ \A j \in 1 .. Len(NodeNames) :
                                 NodeNames[j] = n => i = j
    /\ End \notin Node /\ None \notin Node \cup Channel /\ End # None
    /\ Graphs \subseteq Graph
    /\ \A gr \in Graphs : /\ gr.entry \in gr.nodes \cup {End, None}
                         /\ \A i \in DOMAIN gr.edges : gr.edges[i][1] \in gr.nodes
    /\ Durabilities \subseteq {"none", "sync", "async", "exit"}
    /\ RecursionLimit \in Nat \ {0}
    /\ MaxAttempts \in Nat \ {0}
    /\ CtxMayEnd \in BOOLEAN

HasEdge(gr, p, n) == \E i \in DOMAIN gr.edges : gr.edges[i] = <<p, n>>

\* The graphs NodeTriggerAllPredecessor is for: it "does not support cycles"
\* (graph.go:650, types.go:19), of edges or through a condition.  A cycle of
\* edges is a set of nodes each of which has a predecessor in it; as every
\* node is reachable from the entry (Validate), an edge back to the entry
\* closes one.  Nothing checks it: it is a hypothesis of DagRunsInOrder.
DagsAreAcyclic ==
    \A gr \in Graphs :
        gr.mode = "all" =>
            /\ \A p \in gr.nodes : ~HasEdge(gr, p, gr.entry)
            /\ \A S \in SUBSET gr.nodes :
                  S # {} => \E n \in S : \A p \in S : ~HasEdge(gr, p, n)

VARIABLES
    g, durability,  \* the engine's graph and config
    pc,             \* where Engine.Run has come to
    step, completedTasks, lastCompletedNode, channels,
    tasks,          \* of the superstep
    task,           \* their goroutines in executeTasksAsync
    result,         \* what those put into results
    input,          \* what readTaskInput returned
    fn, attempt,    \* the goroutines of ExecuteWithRetry
    ctxDone,
    err,            \* what was sent on errCh
    deferred, saveErr,  \* deferredCheckpoints, lastErr of saving them
    saves,          \* the goroutines of asynchronous saves
    store,          \* what the checkpointer holds for the thread
    committed,      \* history: the channels after each superstep
    wrote           \* history: the successful tasks, with their supersteps

taskVars == <<tasks, task, result, input, fn, attempt>>
loopVars == <<step, completedTasks, lastCompletedNode, channels>>
saveVars == <<deferred, saveErr, saves, store>>
history == <<committed, wrote>>
vars == <<g, durability, pc, loopVars, taskVars, ctxDone, err, saveVars, history>>

Missing == <<>>
Empty == [c \in Channel |-> Missing]
Author(n, s) == [node |-> n, step |-> s]
Checkpoint(s) == [step |-> s, channels |-> channels]

Init ==
    /\ g \in Graphs
    /\ durability \in Durabilities
    /\ pc = "input"
    /\ step = 0 /\ completedTasks = {} /\ lastCompletedNode = None
    /\ channels = Empty
    /\ tasks = {}
    /\ task = [n \in Node |-> "none"]
    /\ result = [n \in Node |-> "none"]
    /\ input = [n \in Node |-> Empty]
    /\ fn = [n \in Node |-> "idle"]
    /\ attempt = [n \in Node |-> 0]
    /\ ctxDone = FALSE /\ err = "none"
    /\ deferred = <<>> /\ saveErr = FALSE /\ saves = {} /\ store = <<>>
    /\ committed = <<>> /\ wrote = {}

\* An error of Run: it is sent on errCh and the goroutine returns.
Fails(e) == err' = e /\ pc' = "ended"

-----------------------------------------------------------------------------
(* Channels: Update and Get of the kinds that behave differently.          *)

\* Update refuses a second value in one superstep.
Refuses(c, values) == g.kind[c] = "last" /\ Len(values) > 1

Update(c, values) ==
    IF values = <<>> THEN channels[c]
    ELSE IF g.kind[c] = "acc" THEN channels[c] \o values
    ELSE <<values[Len(values)]>>

\* Get of an EphemeralValue clears it.
AfterGet(chs, cs) ==
    [c \in Channel |-> IF c \in cs /\ g.kind[c] = "ephemeral"
                         THEN Missing ELSE chs[c]]

\* toMap refuses a nil input and UpdateChannels an unknown key.
applyInput ==
    /\ pc = "input"
    /\ \/ /\ None \in g.input
          /\ Fails("input")
          /\ UNCHANGED channels
       \/ /\ None \notin g.input
          /\ channels' = [c \in Channel |->
                            IF c \in g.input THEN Update(c, <<Author(None, 0)>>)
                                             ELSE Missing]
          /\ pc' = "top"
          /\ UNCHANGED err
    /\ UNCHANGED <<g, durability, step, completedTasks, lastCompletedNode,
                   taskVars, ctxDone, saveVars, history>>

-----------------------------------------------------------------------------
(* Which nodes run next.                                                   *)

EdgesFrom(n) == [i \in {j \in DOMAIN g.edges : g.edges[j][1] = n} |-> g.edges[i][2]]
From(s, n) == {i \in DOMAIN s : s[i].from = n}

\* The targets in order, up to the first that is End.
HasEnd(ts) == \E i \in DOMAIN ts : ts[i] = End
UpToEnd(ts) ==
    {ts[i] : i \in {j \in DOMAIN ts : \A k \in DOMAIN ts : k <= j => ts[k] # End}}
      \ {None}

\* What the conditional edges of n may decide.
CondResults(n) ==
    LET mine == From(g.conds, n)
    IN {ts \in [mine -> Target] : \A i \in mine : ts[i] \in g.conds[i].to}

\* What the branches of n may decide.
BranchResults(n) ==
    LET mine == From(g.branches, n)
    IN {UNION {pick[i] : i \in mine} :
          pick \in {p \in [mine -> SUBSET (Node \cup {End})] :
                      \A i \in mine : p[i] \in g.branches[i].to}}

\* An edge to End ends the search at once, with what was found before.
getNextNodes(n, conds, branch) ==
    LET found == IF UpToEnd(conds) # {} THEN UpToEnd(conds)
                                        ELSE UpToEnd(EdgesFrom(n))
    IN  IF HasEnd(conds) THEN UpToEnd(conds)
        ELSE IF UpToEnd(conds) = {} /\ HasEnd(EdgesFrom(n)) THEN found
        ELSE found \cup (branch \ {End})

incomingEdges(n) == {g.edges[i][1] : i \in {j \in DOMAIN g.edges : g.edges[j][2] = n}}

\* Mutant: one predecessor is enough.
prepareNextTasksDAG_Some ==
    {n \in g.nodes \ completedTasks :
        incomingEdges(n) = {} \/ incomingEdges(n) \cap completedTasks # {}}

\* Mutant: completed nodes are not skipped.
prepareNextTasksDAG_Again ==
    {n \in g.nodes : incomingEdges(n) \subseteq completedTasks}

prepareNextTasksDAG ==
    {n \in g.nodes \ completedTasks : incomingEdges(n) \subseteq completedTasks}

\* The sets of tasks prepareNextTasks may return.
NextTasks ==
    IF completedTasks = {} THEN {{g.entry} \ {End}}
    ELSE IF g.mode = "all" THEN {prepareNextTasksDAG}
    ELSE {getNextNodes(lastCompletedNode, conds, branch) \cap g.nodes :
            conds \in CondResults(lastCompletedNode),
            branch \in BranchResults(lastCompletedNode)}

\* Mutant: the recursion limit is not looked at.
LoopEnds_NoLimit ==
    /\ pc = "top"
    /\ \/ ctxDone /\ Fails("ctx")
       \/ /\ ~ctxDone /\ completedTasks = {} /\ g.entry = None
          /\ Fails("prepare")
    /\ UNCHANGED <<g, durability, loopVars, taskVars, ctxDone, saveVars, history>>

\* The checks at the top of a superstep, in their order.
LoopEnds ==
    /\ pc = "top"
    /\ \/ ctxDone /\ Fails("ctx")
       \/ ~ctxDone /\ step >= RecursionLimit /\ Fails("recursion")
       \/ /\ ~ctxDone /\ step < RecursionLimit
          /\ completedTasks = {} /\ g.entry = None
          /\ Fails("prepare")
    /\ UNCHANGED <<g, durability, loopVars, taskVars, ctxDone, saveVars, history>>

prepareNextTasks ==
    /\ pc = "top"
    /\ ~ctxDone /\ step < RecursionLimit
    /\ completedTasks = {} => g.entry # None
    /\ \E next \in NextTasks :
          /\ tasks' = next
          /\ task' = [n \in Node |-> IF n \in next THEN "spawned" ELSE "none"]
          /\ pc' = IF next = {} THEN "output" ELSE "exec"
    /\ result' = [n \in Node |-> "none"]
    /\ UNCHANGED <<g, durability, loopVars, input, fn, attempt, ctxDone, err,
                   saveVars, history>>

-----------------------------------------------------------------------------
(* The tasks of a superstep, one goroutine each.                           *)

\* The function is called with what the task has read.
Starts(n) ==
    /\ task' = [task EXCEPT ![n] = "waiting"]
    /\ fn' = [fn EXCEPT ![n] = "running"]
    /\ attempt' = [attempt EXCEPT ![n] = 1]

ReadsEphemeral(n) ==
    \E c \in g.triggers[n] : g.kind[c] = "ephemeral" /\ channels[c] # Missing

\* The tasks share the channels without a lock: two of them may read an
\* ephemeral value before either clears it.
readTaskInput(n) ==
    /\ task[n] = "spawned"
    /\ input' = [input EXCEPT ![n] = [c \in Channel |->
                   IF c \in g.triggers[n] THEN channels[c] ELSE Missing]]
    /\ \/ /\ ReadsEphemeral(n)
          /\ task' = [task EXCEPT ![n] = "clearing"]
          /\ UNCHANGED <<fn, attempt>>
       \/ ~ReadsEphemeral(n) /\ Starts(n)
    /\ UNCHANGED <<g, durability, pc, loopVars, tasks, result, ctxDone, err,
                   saveVars, history>>

ClearRead(n) ==
    /\ task[n] = "clearing"
    /\ channels' = AfterGet(channels, g.triggers[n])
    /\ Starts(n)
    /\ UNCHANGED <<g, durability, pc, step, completedTasks, lastCompletedNode,
                   tasks, result, input, ctxDone, err, saveVars, history>>

\* The node's function returns: a value, an error worth a retry or, as when
\* it panics, one that is not.
NodeReturns(n) ==
    /\ fn[n] = "running"
    /\ \E f \in {"ok", "failed"} \cup
                (IF attempt[n] < MaxAttempts THEN {"backoff"} ELSE {}) :
          fn' = [fn EXCEPT ![n] = f]
    /\ UNCHANGED <<g, durability, pc, loopVars, tasks, task, result, input,
                   attempt, ctxDone, err, saveVars, history>>

\* The backoff ends with the next attempt or with the context.
Retry(n) ==
    /\ fn[n] = "backoff"
    /\ \/ /\ fn' = [fn EXCEPT ![n] = "running"]
          /\ attempt' = [attempt EXCEPT ![n] = @ + 1]
       \/ /\ ctxDone
          /\ fn' = [fn EXCEPT ![n] = "failed"]
          /\ UNCHANGED attempt
    /\ UNCHANGED <<g, durability, pc, loopVars, tasks, task, result, input,
                   ctxDone, err, saveVars, history>>

\* Mutant: the task waits for its function only.
TaskEnds_NoCtx(n) ==
    /\ task[n] = "waiting"
    /\ task' = [task EXCEPT ![n] = "done"]
    /\ fn[n] \in {"ok", "failed"} /\ result' = [result EXCEPT ![n] = fn[n]]
    /\ UNCHANGED <<g, durability, pc, loopVars, tasks, input, fn, attempt,
                   ctxDone, err, saveVars, history>>

\* The task takes the result, or leaves its function running.
TaskEnds(n) ==
    /\ task[n] = "waiting"
    /\ task' = [task EXCEPT ![n] = "done"]
    /\ \/ fn[n] \in {"ok", "failed"} /\ result' = [result EXCEPT ![n] = fn[n]]
       \/ ctxDone /\ result' = [result EXCEPT ![n] = "failed"]
    /\ UNCHANGED <<g, durability, pc, loopVars, tasks, input, fn, attempt,
                   ctxDone, err, saveVars, history>>

-----------------------------------------------------------------------------
(* The end of a superstep, once every task is done.                        *)

Successful == {n \in tasks : result[n] = "ok"}

Rank(n) == CHOOSE i \in 1 .. Len(NodeNames) : NodeNames[i] = n

\* A set of nodes, sorted by name.
Place(n, W) == Cardinality({m \in W : Rank(m) <= Rank(n)})
Sorted(W) == [k \in 1 .. Cardinality(W) |-> CHOOSE n \in W : Place(n, W) = k]

Written(authors) == [k \in DOMAIN Sorted(authors) |-> Author(Sorted(authors)[k], step)]

\* Mutant: failed tasks write too.
Values_Failed(c) == Written({n \in tasks : c \in g.writes[n]})

\* applyWrites takes the results in the order of their names.
Values(c) == Written({n \in Successful : c \in g.writes[n]})

WaitAll == pc = "exec" /\ \A n \in tasks : task[n] = "done"

AllFailed ==
    /\ WaitAll
    /\ Successful = {}
    /\ Fails("all failed")
    /\ UNCHANGED <<g, durability, loopVars, taskVars, ctxDone, saveVars, history>>

\* Mutant: a failed task can be the last one.
Completes_Failed ==
    /\ WaitAll
    /\ completedTasks' = completedTasks \cup Successful
    /\ Successful # {} /\ lastCompletedNode' \in tasks

\* The results were collected in the order of a map, so any successful task
\* can be the last one.
Completes ==
    /\ WaitAll
    /\ completedTasks' = completedTasks \cup Successful
    /\ lastCompletedNode' \in Successful

\* A channel refuses its values: some of the others have been updated.
applyWritesFails ==
    /\ Completes
    /\ \E c \in Channel : Refuses(c, Values(c))
    /\ \E done \in SUBSET {c \in Channel : ~Refuses(c, Values(c))} :
          channels' = [c \in Channel |-> IF c \in done THEN Update(c, Values(c))
                                                       ELSE channels[c]]
    /\ Fails("writes")
    /\ UNCHANGED <<g, durability, step, taskVars, ctxDone, saveVars, history>>

\* With the values event: GetValues reads every channel.
applyWrites ==
    /\ Completes
    /\ \A c \in Channel : ~Refuses(c, Values(c))
    /\ channels' = AfterGet([c \in Channel |-> Update(c, Values(c))], Channel)
    /\ pc' = "save"
    /\ committed' = Append(committed, channels')
    /\ wrote' = wrote \cup {Author(n, step) : n \in Successful}
    /\ UNCHANGED <<g, durability, step, taskVars, ctxDone, err, saveVars>>

-----------------------------------------------------------------------------
(* Saving: the checkpointer keeps what Put gives it, or Put fails.         *)

Put(cp) == store' = Append(store, cp)

NextStep == step' = step + 1 /\ pc' = "top"

\* Mutant: a failed save is ignored.
SaveSync_Ignores ==
    /\ pc = "save" /\ durability = "sync"
    /\ Put(Checkpoint(step)) \/ UNCHANGED store
    /\ NextStep
    /\ UNCHANGED <<g, durability, completedTasks, lastCompletedNode, channels,
                   taskVars, ctxDone, err, deferred, saveErr, saves, history>>

SaveSync ==
    /\ pc = "save" /\ durability = "sync"
    /\ \/ /\ Put(Checkpoint(step))
          /\ NextStep
          /\ UNCHANGED err
       \/ /\ Fails("save")
          /\ UNCHANGED <<step, store>>
    /\ UNCHANGED <<g, durability, completedTasks, lastCompletedNode, channels,
                   taskVars, ctxDone, deferred, saveErr, saves, history>>

SaveLater ==
    /\ pc = "save" /\ durability # "sync"
    /\ saves' = IF durability = "async" THEN saves \cup {Checkpoint(step)}
                                        ELSE saves
    /\ deferred' = IF durability = "exit" THEN Append(deferred, Checkpoint(step))
                                          ELSE deferred
    /\ NextStep
    /\ UNCHANGED <<g, durability, completedTasks, lastCompletedNode, channels,
                   taskVars, ctxDone, err, saveErr, store, history>>

\* The goroutines of asynchronous saves end in any order.
AsyncSave ==
    /\ \E cp \in saves :
          /\ saves' = saves \ {cp}
          /\ Put(cp) \/ UNCHANGED store
    /\ UNCHANGED <<g, durability, pc, loopVars, taskVars, ctxDone, err,
                   deferred, saveErr, history>>

\* The final state is what the channels hold.
buildOutput ==
    /\ pc = "output"
    /\ channels' = AfterGet(channels, Channel)
    /\ pc' = "exit"
    /\ UNCHANGED <<g, durability, step, completedTasks, lastCompletedNode,
                   taskVars, ctxDone, err, saveVars, history>>

\* saveDeferredCheckpoints goes on after a failed save.
SaveDeferred ==
    /\ pc = "exit" /\ deferred # <<>>
    /\ deferred' = Tail(deferred)
    /\ \/ Put(Head(deferred)) /\ UNCHANGED saveErr
       \/ saveErr' = TRUE /\ UNCHANGED store
    /\ UNCHANGED <<g, durability, pc, loopVars, taskVars, ctxDone, err, saves,
                   history>>

\* The error of the deferred saves, or the final event.
Finish ==
    /\ pc = "exit" /\ deferred = <<>>
    /\ \/ saveErr /\ Fails("deferred")
       \/ ~saveErr /\ pc' = "ended" /\ UNCHANGED err
    /\ UNCHANGED <<g, durability, loopVars, taskVars, ctxDone, saveVars, history>>

CancelCtx ==
    /\ CtxMayEnd /\ ~ctxDone /\ pc # "ended"
    /\ ctxDone' = TRUE
    /\ UNCHANGED <<g, durability, pc, loopVars, taskVars, err, saveVars, history>>

-----------------------------------------------------------------------------
Task(n) == readTaskInput(n) \/ ClearRead(n) \/ NodeReturns(n) \/ Retry(n)
             \/ TaskEnds(n)

Loop == applyInput \/ LoopEnds \/ prepareNextTasks \/ AllFailed
          \/ applyWritesFails \/ applyWrites \/ SaveSync \/ SaveLater
          \/ buildOutput \/ SaveDeferred \/ Finish

Next == Loop \/ AsyncSave \/ CancelCtx \/ \E n \in Node : Task(n)

\* Goroutines run; a node's function may hang.
Fairness ==
    /\ WF_vars(Loop) /\ WF_vars(AsyncSave)
    /\ \A n \in Node : /\ WF_vars(readTaskInput(n)) /\ WF_vars(ClearRead(n))
                       /\ WF_vars(Retry(n)) /\ WF_vars(TaskEnds(n))

Spec == Init /\ [][Next]_vars /\ Fairness

-----------------------------------------------------------------------------
(* Properties.                                                             *)

Value == Seq([node : Node \cup {None}, step : Nat])
Contents == [Channel -> Value]
CheckpointType == [step : Nat, channels : Contents]

\* What Engine.Run works on.
LoopOK ==
    /\ g \in Graphs /\ durability \in Durabilities
    /\ pc \in {"input", "top", "exec", "save", "output", "exit", "ended"}
    /\ step \in 0 .. RecursionLimit
    /\ completedTasks \subseteq Node
    /\ lastCompletedNode \in Node \cup {None}
    /\ channels \in Contents
    /\ ctxDone \in BOOLEAN
    /\ err \in {"none", "input", "ctx", "recursion", "prepare", "all failed",
               "writes", "save", "deferred"}

\* Its tasks: a node is attempted at most MaxAttempts times.
TasksOK ==
    /\ tasks \subseteq Node
    /\ task \in [Node -> {"none", "spawned", "clearing", "waiting", "done"}]
    /\ result \in [Node -> {"none", "ok", "failed"}]
    /\ input \in [Node -> Contents]
    /\ fn \in [Node -> {"idle", "running", "backoff", "ok", "failed"}]
    /\ attempt \in [Node -> 0 .. MaxAttempts]

\* What it has saved and done.
SavedOK ==
    /\ deferred \in Seq(CheckpointType) /\ store \in Seq(CheckpointType)
    /\ saves \subseteq CheckpointType /\ saveErr \in BOOLEAN

HistoryOK ==
    /\ committed \in Seq(Contents)
    /\ wrote \subseteq [node : Node, step : Nat]

\* The values the variables of Engine.Run, of its task goroutines and of the
\* checkpointer range over.
TypeOK == LoopOK /\ TasksOK /\ SavedOK /\ HistoryOK

Before(v, w) ==
    \/ v.node = None
    \/ v.step < w.step
    \/ v.step = w.step /\ Rank(v.node) < Rank(w.node)

WritesTo(c) == {w \in wrote : c \in g.writes[w.node]}

\* Whatever the order in which the tasks of a superstep ended or were
\* retried, an aggregating channel holds each value a successful task wrote
\* to it once, in the order of supersteps and of names, and nothing of a
\* failed or cancelled one; a LastValue holds the latest (applyWrites).
ChannelsReflectResults ==
    err # "writes" => \A c \in Channel :
        /\ g.kind[c] = "acc" =>
              /\ WritesTo(c) = {channels[c][i] : i \in
                    {j \in DOMAIN channels[c] : channels[c][j].node # None}}
              /\ \A j \in DOMAIN channels[c], i \in DOMAIN channels[c] :
                    i < j => Before(channels[c][i], channels[c][j])
        /\ g.kind[c] = "last" => \A w \in WritesTo(c) :
              channels[c] # Missing /\ channels[c][1].step >= w.step

Committed == [i \in DOMAIN committed |->
                [step |-> i - 1, channels |-> committed[i]]]

\* The checkpointer never holds half a superstep: every checkpoint is what
\* the channels were at the end of its superstep.  With DurabilitySync the
\* store is, in order, the supersteps so far, the one being saved excepted;
\* with DurabilityExit it is empty while the graph runs, and complete when
\* Run ends without an error (saveCheckpoint, saveDeferredCheckpoints).
StoreHoldsSteps ==
    /\ \A i \in DOMAIN store :
          \E j \in DOMAIN committed : store[i] = Committed[j]
    /\ durability = "sync" =>
          \/ store = Committed
          \/ pc \in {"save", "ended"} /\ Append(store, Committed[Len(committed)]) = Committed
    /\ durability = "exit" =>
          /\ store # <<>> => pc \in {"exit", "ended"}
          /\ pc = "ended" /\ err = "none" => store = Committed

\* With NodeTriggerAllPredecessor a fan-in never starts on the results of
\* some of its predecessors: what a node reads from an aggregating channel
\* holds what each of them wrote there.  No node succeeds twice, however often
\* it fails and is scheduled again, and an execution that ends without an
\* error has run every node of the graph (prepareNextTasksDAG, readTaskInput).
DagRunsInOrder ==
    g.mode = "all" =>
        /\ pc = "exec" =>
             \A n \in {m \in tasks : task[m] # "spawned"} :
                 \A p \in incomingEdges(n), c \in g.triggers[n] :
                     g.kind[c] = "acc" /\ c \in g.writes[p] =>
                         \E i \in DOMAIN input[n][c] : input[n][c][i].node = p
        /\ \A v \in wrote, w \in wrote : v.node = w.node => v = w
        /\ pc = "ended" /\ err = "none" /\ g.entry # End =>
              {w.node : w \in wrote} = g.nodes

\* The lasting channels of Supersteps, in chs.
Lasts(chs) == [c \in {x \in Channel : g.kind[x] # "ephemeral"} |-> chs[c]]

Past == [i \in DOMAIN committed |-> Lasts(committed[i])]
SavedSteps ==
    {[step |-> store[i].step, state |-> Lasts(store[i].channels)] : i \in DOMAIN store}
Outcome ==
    IF pc # "ended" THEN "running" ELSE IF err = "none" THEN "done" ELSE "error"

Abstract == INSTANCE Supersteps WITH
    graph <- g, past <- Past, done <- wrote, saved <- SavedSteps, outcome <- Outcome

\* The engine implements Supersteps: whatever the order in which goroutines
\* run, fail, are retried, read and save, each superstep has its effect at
\* once, and one that depends only on which of its tasks succeeded; a cancel
\* or a refused value leaves none behind; and the next superstep follows one
\* of those tasks, or all of them (executeTasksAsync, applyWrites,
\* prepareNextTasks, saveCheckpoint).
ImplementsSupersteps == Abstract!Spec

\* A cancelled context ends Run even if a node's function never returns: the
\* tasks wait for the context as well (executeTasksAsync).
CancelEndsRun == ctxDone ~> pc = "ended"

\* Run ends if the functions of the nodes return: graphs with loops, nodes
\* that fail at every attempt and DAGs with a node that fails are all
\* stopped (the recursion limit, the check that every task failed).
RunEnds == (\A n \in Node : WF_vars(NodeReturns(n))) => <>(pc = "ended")
=============================================================================
