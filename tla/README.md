# Verification of harness-go

TLA+ models of the parts of harness-go that are hardest to test, with TLC
configurations that check them on small instances and TLAPS proofs of the most
important facts for instances of every size. File names without a directory
are those of `agentcore/`, and of `graphengine/` in what is said about the
engine and the services around it.

## 1. The system

harness-go is a Go framework for LLM agents in three layers. Layer 1
(`graphengine/`) runs state graphs in supersteps, after Pregel, with channels,
checkpoint savers, stores, streams and an HTTP server on top. Layer 2
(`agentcore/`) builds agents on a model and tools, workflows of agents, and a
runner with interrupts, resume and cancellation. Layer 3 is the push-based
`AgentLoop`, which feeds pushed items to an agent, turn by turn.

### 1.1 Inventory

| Component | State | Operations | Talks to | What is hard |
|---|---|---|---|---|
| `turnBuffer` | queue, closed, woken | Send, TrySend, Receive, TakeAll, PushFront, Close, Wakeup | pushers, loop, stop | items taken, given back and closed on concurrently |
| `preemptController` | phase, turn number, pushes in flight, pending request, notify token | begin/abort/end of turns, begin/end of pushes, request, receive, close | pushers, loop, watchers | requests aimed at a turn that is gone; acknowledgements closed never or twice; panics |
| `stopController` | phase, pending cancel, idle duration, skipCheckpoint | requestStop, commit, receiveCancel, begin/end of turns, close | stoppers, timers, loop, watchers | idle stops, stop against turn start and end |
| `AgentLoop` | checkpoint, late list, result of the turn | Push, Stop, Run, Wait | all of the above, Runner, store | about ten kinds of goroutines in one object |
| `cancelRequestState` | mode, recursive, deadline | new, merge, cancelOptions | both controllers | merged requests with deadlines |
| `cancelContext` | state, mode, flags, channels, deadline | cancel function, InterruptFromGraph, timeout, derive, markDone, markHandled | agents, workflow, loop | lock-free fields, one timeout goroutine for many calls, propagation to children |
| Workflow agents, session | loop counters, place of the interrupt, run path, history, lanes | sequential, loop and parallel run, resume | sub-agents, cancelContext, runner | interrupts and cancels at any place, one run path that several goroutines change and compare |
| Flow agents | session, one goroutine per run | run, hand-over, transfer back | sub-agents | runs nobody waits for share the session |
| ReAct agent, tools | messages, iteration, tool calls, loop guard | model call, tool batches, return-directly | model, tools | parallel tools that fail or panic, limits |
| Model chain | attempt, model in use, calls made and sent, copies of a stream | retry, failover, event sender, stream wrappers | model, client | what was sent before a retry, streams closed at both ends |
| Summarization middleware | messages of the agent | drop stale reads, split, summarize, compress, finalize | ReAct agent, model | calls split from their answers, summaries of summaries |
| Pregel engine | channels, versions, completed tasks, step | superstep: prepare, execute, apply writes, save | graph, channels, checkpointer, streams | order of concurrent writes, interrupts, durability |
| Graph builder | nodes, edges, conditions, compiled flag | build, validate, inline run, stream | engine, savers | a graph that grows after Compile; selects with several ready cases |
| Channels, channel writes | value, seen names; pending entries, batches | update, get, consume, finish, checkpoint; write, flush | engine | update rules of each kind, restored channels, failed writes |
| Streams | bounded channels, pending chunks | emit, forward, flush, cancel, close | engine, clients | full channels, close against emit |
| Executors | slots, active tasks, queue, workers | execute, submit, cancel, wait, start, stop | engine | slots and results under cancels and shutdown |
| Retry, cache | attempt, backoff; entries, TTL, hits, worker queue | execute, get, set, delete | nodes | attempts of nested executors, eviction and expiry while a value is computed |
| Remote graphs | connections, read loops, message channel | connect, invoke, stream, close | server | a connection that breaks or is made anew, calls that share one channel, writes without a lock |
| Checkpoint manager and savers | versions per thread, tables, key-value bucket | put, get, list, delete, garbage collection | engine, server | versions of concurrent writers, last checkpoint, readers overtaken by writers |
| Stores | items, TTL, embeddings, lock | put, get, search, batch, cleanup, close | server, users | expiry before and after the cleanup |
| Managed values, configurations, scratchpad | maps shared by reference | clone, merge, override, patch, get | tasks | who shares which map |
| HTTP server | assistants, threads, runs | CRUD, background runs, wait, batch, stream | graphs, clients | runs deleted, waited for and finished concurrently |

Other middlewares, prebuilt agents, tools, telemetry, drawing and examples hold
no concurrent state of their own; `PROJECT.json` lists them with the reason they
are left out.

### 1.2 What makes the components correct

* Buffer and loop: no accepted item is lost, duplicated or reordered; Push
  reports what became of its item; every item is served while the loop runs.
* Preempt: a request only ever cancels the turn it was made for, and it is
  acknowledged exactly once and eventually.
* Stop: every stop ends the loop; after the commit no new turn begins; what a
  cancelled turn leaves is saved so that it can be resumed.
* Cancellation: the reported mode is at least as strong as what every caller
  asked for; shallow cancels stay shallow and recursive ones arrive; timeouts
  escalate; every Wait returns; the state agrees with the events sent.
* Workflows: through interrupts and cancels each agent runs as often as the
  place that is reported says, no output is lost, and the history has every
  event in its order; a hand-over gives the next agent what was said before.
* ReAct and model: every tool call is answered once and in order before the
  model is asked again; writing tools run alone; limits hold; the caller gets
  the last accepted answer, and the client sees no other one. What a summary does
  not tell of is still there, and whole.
* Engine: the result of a superstep does not depend on the order in which its
  tasks finish; a DAG node waits for all its predecessors and succeeds once; a
  checkpoint is a whole superstep; every execution ends.
* Graphs: only reachable nodes run; a failure is told before the end.
* Channels: a restored channel is the saved one; a barrier waits for every
  name; an aggregate holds the sum; a write is lost by no failure.
* Streams: events arrive as they were taken, nobody sends on a closed channel,
  the caller learns the outcome, and no goroutine is left behind.
* Executors: slots are neither lost nor made, a task runs at most once, a Wait
  that returns has waited.
* Retry and cache: attempts and waits, with jitter or without, are bounded; a
  value belongs to its key
  and has not expired.
* Storage: what was put last is found; versions follow parents; a reader never
  goes back; an expired value stays hidden.
* Server: runs are what `RunLifecycle` promises; a thread's state is whole.

## 2. Plan

Done: the loop with its controllers (`AgentLoop`), `CancelRequest`,
`CancelContext`, `PregelEngine`, `RunStream` and `Server`; an abstract engine
(`Supersteps`) that `PregelEngine` is proved to implement; savers, stores and
caches; graphs, channels, executors, retries and streams; workflows, flows,
ReAct, the model chain and the summarization of messages. The safety properties
of the runs are proved but for what section 5 names.

Left, in this order:

1. An item ledger (items only move from accepted to handed or reported)
   implemented by `AgentLoop`.
2. Proofs of what section 5 still lists as only model-checked.
3. Compositions: a workflow whose agents are `CancelContext`'s, a server whose
   runs are `PregelEngine`'s.
4. What section 6 lists, where it has state: sub-graphs and plan tasks.

## 3. The modules

A module declares the variables of one Go struct, or of a few that work
together, and has one action per method, handler or step of a goroutine; a
method that holds the struct's mutex throughout is one atomic step, and a method
that gives it up, or does without, is several.

| Module | Code | State |
|---|---|---|
| `TurnBuffer` | agent_loop_buffer.go | `buf`, `bufClosed`, `woken` |
| `PreemptController` | agent_loop_preempt.go | `turnPhase`, `turnID`, `pushInFlight`, `pending`, `preNotify`, `preClosed`, `ack` (the channels handed out) |
| `StopController` | agent_loop_stop.go | `stopPhase`, `hasActiveCancelTarget`, `stopPending`, `stopNotify`, `idleFor`, `skipCheckpoint`, `stopClosed` |
| `AgentLoop` | agent_loop.go, _push, _run, _agent, _checkpoint, _bridge | extends the three above; the loop goroutine (`pc`), callers (`pushPC`, `stopperPC`), timers, per-turn goroutines (`agent`, `handler`, `watchP`, `watchS`), `store` |
| `CancelRequest` | agent_loop_config.go | `request`, `now`, and history of what was asked |
| `CancelContext` | cancel.go, workflow.go (runSeq) | the fields of each context, the pcs of callers, timeout goroutine and propagating goroutines, the execution |
| `Workflow` | workflow.go, flow.go (runLoop), session.go | counters `iter` and `idx`, `place` of the last interrupt, the run `path` of the context, `history`, for each sub-agent its flow agent's goroutine and its lane |
| `FlowAgent` | flow.go, agent_handoff.go | the `runs`, each a goroutine with its input and output, and the `session` |
| `ReActAgent` | react_agent.go, react_loop.go, tools_node.go | `messages`, `remaining` iterations, `calls` with their state, `sameArgs` of the loop guard |
| `ModelCalls` | model_chain.go, retry.go, failover.go, state_guard.go; schema/types.go and the stream wrappers | the chain: how it is configured (`cfg`), `attempt`, `model`, the `calls` made and which were `sent`; a copy of a stream: two readers with their `closed` fields, source and copying goroutine |
| `Summarization` | middlewares/summarization/ | `messages`, and `all` there have been; a summary is lines with the messages they tell of |
| `PregelEngine` | pregel/engine.go, retry.go, async.go (ExecuteWithRetry), channels, checkpoint/memory.go | locals of `Run` (`pc`, `step`, `completedTasks`, `lastCompletedNode`), `channels`, per node the task goroutine (`task`, `result`, `input`) and its function (`fn`, `attempt`), `deferred`, `saves`, `store` |
| `Supersteps` | | abstract: what the user of a graph may rely on: `past` states of the lasting channels, `done` nodes, `saved` supersteps, `outcome` |
| `RunStream` | pregel/engine.go (Run's frame, RunSync), stream.go | `eventCh`, `outputCh`, `errCh` with their closed flags, the pcs of engine, forwarding goroutine and caller |
| `StateGraph` | graph/graph.go | the graph being built, the locals of the inline run, `saved` |
| `GraphStream` | graph/graph.go (Stream), server.go (streamed runs) | both channels, the run, what is `written` to the client |
| `GraphMessages` | graph/message.go | `messages`; the reducer and the filter are operators |
| `Channels` | channels/ | one `channel` of each kind, its `checkpoint` |
| `ChannelAccess` | pregel/write.go, read.go | pending `entries`, `batch`es of the contexts, `version`s |
| `AsyncExecutor` | pregel/async.go | `slots`, `activeTasks`, result channels; pipeline channels and `tokens` of a limiter |
| `BackgroundExecutor` | pregel/background.go | `taskQueue`, `worker`s, the flags of Start and Stop, the `heap` |
| `NodeRetry` | pregel/retry.go, retry_multi.go, task/decorator.go, types/types.go | `attempt`, `inner` executor, `backoff`, `calls` |
| `NodeCache` | pregel/cache.go, cache_async.go | what is `cached`, the `client`s inside Execute, worker queue |
| `RemoteGraph` | pregel/websocket.go, remote.go | the last `conn`ection, those that are `broken`, a read `loop` for each Connect, `closer`, `messageChan`, the `call`s |
| `MessageStreams`, `ChannelStreams`, `EventStreams` | pregel/messages.go, types/stream.go, pregel/stream.go | chunks and messages; sources, forwarders and output; event channel and emitters |
| `RuntimeValues` | managed/managed.go, types/config.go, scratchpad.go | `objects` that point to `maps`, the managed value read last, the stack |
| `CheckpointManager` | checkpoint/checkpoint.go | history per thread, the checkpoint each client holds |
| `CheckpointSavers` | checkpoint/memory.go, sqlite.go, nats.go | versions, rows, stream of the bucket, the collector |
| `PostgresSaver` | checkpoint/postgres.go | table, blobs, reads under way and their connections |
| `MemoryStore` | store/memory.go | `data`, `ttl`, `indexes`, the lock |
| `Server` | server/server.go | the maps, run objects, their goroutines, waiting handlers |
| `RunLifecycle` | | abstract: what a client may rely on for its runs |
| `MC...` | | values of constants for TLC |
| `AgentLoopProofs`, `CancelContextProofs`, `PregelEngineProofs` | | theorems about the module each is named for |
| `ComponentProofs` | | for the executors, streams, stores, retries and caches: the inductive invariant of each and its lemmas |
| `AgentsProofs`, `ServicesProofs` | | the theorems about `MCAgents` and `MCServices`; those about `RunStream`, `CancelRequest` and `Server`. What `ModelCalls` and `ReActAgent` promise by themselves is proved in these modules |

**AgentLoop.** An item is its own Push: `pushPC[i]` walks through
pushWithStrategy or pushWithConfig up to the deferred endPush, and a delayed
preempt leaves `delayed[i]` behind. `StopCall`, `StopWake`, `StopTimeout`,
`IdleTimerFires`, `IdleCommit` and `finishStopCommit` are Stop, its timer and
the idle path. The loop goroutine's `pc` names the statement of `run`,
`runAgentAndHandleEvents` or `cleanup` it has come to; a step ends wherever
another goroutine can see a difference. Each turn t has an agent (external;
it ends in one of the ways of `AgentOutcomes`), the proxy and handler, and the
two watchers, which outlive their turn as they do in the code. A request is
represented by the set of items whose acknowledgement it carries; what
it asks of the agent is the subject of `CancelRequest`. `Restart` is a new
loop on the same store. `accepted` and `handed` are history variables.
A checkpoint's runner state is the set of items the runner has consumed.

**CancelContext.** A mode is a set of safe points, with the empty set for
CancelImmediate, as in the bit mask. Every atomic access that another
goroutine can tell apart is a step, and `cancelMu` is explicit. The execution
is one agent or `SubAgents` agents one after the other that share the context.

**PregelEngine.** One execution of one graph. `applyInput`, `prepareNextTasks`,
`applyWrites`, the saves and `Finish` are the loop of `Run` between the points
where its goroutines meet it; each task reads its channels, runs its function
with retries and ends with its result or with the context. A value in a channel
is known by the node and superstep that wrote it, which is what the properties
need; the kinds of channels differ in what they do with several values and with
reads. What conditions decide, whether functions and saves fail and in which
order goroutines and maps are walked is free. The load of a checkpoint (it
needs a nil input, which applyInput refuses first) and interrupts (they need a
trigger, and createTask is given none) are not reached by any execution and
have no action.

**RunStream.** The frame of the same `Run`: what is emitted, the forwarding
goroutine, the deferred clean-up in its order, and the caller, who either reads
outputCh to its end and then errCh ("drain", as Run's comment demands) or is
RunSync ("sync"). The loop is reduced to the events it emits in
StreamModeValues, which is the mode of RunSync. `accepted`, `received` and
`failed` are history variables.

**Agents.** In `Workflow` what a sub-agent emits is one of `SubRuns`. A
sub-agent, the workflow and the flow agent around it are three goroutines: the
first adds an event to the history and gives it the run path of the moment, the
workflow changes that path for the next sub-agent, and the last one adds the
event once more if the path is still the same. A parallel run has a goroutine, a
forked path and a lane for each agent. An interrupt reports its `place`, but a
resume only ever gives an error: loadCheckpoint (interrupt.go:161) and
buildResumeInfo (interrupt.go:228) leave out the state that Resume asks for.
`FlowAgent` keeps every run that was ever started, because the code never waits
for one. `ReActAgent` walks through the batches of calls of the ToolsNode with
the semaphore, the guard, and tools that answer, fail or panic. `ModelCalls` has
one call through the wrappers in the order in which the chain is built, and the
shape that all copies of a stream share. An agent builds the chain without an
execution context, calls Generate and sends the answer itself (react_loop.go:44,
:71); a caller of the wrappers may have a context in the session, where the
retry finds it, and may stream. A failover is built around the bare models.
`Summarization` alternates what the middleware does before a call of the model
with what the model and its tools add; what they say, and whether it is too
much, is free.

**Storage and server.** A checkpoint or a value is the number of the Put that
made it. `PostgresSaver` takes the connections of a read one by one, and its
tuple goes through FromMap, which leaves out the channel values. In
`CheckpointManager` a client adds any of `VersionSteps` to the version of its
clone, so that a Save may conflict. `CheckpointSavers` lets the collector of
idle threads stop between its Get and its Delete. A thread whose last Put the
collector has deleted is in `lostThreads` until its next Put, and nothing is
promised of it till then. The backoff of `NodeRetry` takes the powers of the
factor from a constant, `powFloat`, so that what is proved of it holds for any
factor of at least one; the jitter takes off any part up to a half.
`RemoteGraph` may be connected at any time, each Connect with a read loop of its
own on the one channel, and Close writes to the connection beside a Send.
`Server` keeps run objects apart from the map of runs, as the pointers do, so
that a run can be deleted while it executes; a handler that waits polls without
the lock.

**Implementation of an abstract specification.** `RunLifecycle` says what a
client sees of runs: created, pending, running, success or error, forgotten at
any time, and answers that are final statuses. `Server` implements it with
runStatus the status of the run objects, known the ids in the map, and
answered the history of answers (`RunsImplementLifecycle`).

`Supersteps` is the Pregel machine without goroutines, maps and late saves: an
execution is a sequence of atomic supersteps, and what the lasting (not
ephemeral) channels hold is a function of which nodes succeeded in each.
`PregelEngine` implements it (`ImplementsSupersteps`) with past the contents of
the channels after each committed superstep, which `Lasts` reads off the
history of successful tasks, saved the checkpoints in the store, and outcome
"running" until `Run` returns its final state or an error.

**Composition for TLC.** `MCServices` and `MCAgents` hold components that share
no state in the code. A behaviour is one of one component, which `part` names
from the initial state on; the components' variables are renamed to v1, v2, ...
by INSTANCE ... WITH, so that a state is no larger than that of the largest
component, and an unused variable is 0. The run's state space is the sum, not
the product, of those of its components; each property is a conjunction with
one named property per component. `StateGraph` has two instances: "graph" with
conditions and a breakpoint, and "fan" with one edge more and neither.
`MCAgents` extends `RunStream` and `CancelRequest`, and `MCServices` extends
`Server`; both instantiate the others. `MCServices` takes what is proved in
`ComponentProofs` from one instance of that module (`Ex`).

**External parts.** Agents, models, tools, user callbacks, the Go context, the
clock, databases, connections and the checkpoint store are modelled by what
the code lets them do: end in any way, fail, break, or answer in any order.

## 4. The runs

Passing runs, with the distinct states TLC finds:

| Run | Shows | States |
|---|---|---|
| AgentLoop | two pushes (plain; delayed preempt), a cancelling or idle stop, two turns: panics unreachable, requests stay with their turn, one holder per acknowledgement, items conserved, Push tells the truth | 1.6 M |
| AgentLoopErrors | a loop and its successor on one store, with a context that ends, callbacks, agents, saves and loads that fail and handlers that return early: items are conserved on the error paths, and a turn that a stop and no preempt cancelled is saved with its items | 0.6 M |
| AgentLoopServes | every acknowledgement is closed; every accepted item is served, with preempts at once, delayed and from a strategy | 35 k |
| AgentLoopStopLive | every stop ends the loop; after its commit no turn that was not active becomes active | 67 k |
| CancelContext | two calls, a chain of two derived contexts, two sub-agents: the error covers all requests, handled if and only if an error was sent, shallow cancels stay, recursive ones arrive | 4.7 M |
| CancelContextLive | timeouts lead to an immediate cancel; every Wait returns | 93 k |
| PregelEngine | seven graphs (fan-out and fan-in in both modes, a cycle, racing writers with a branch and an ephemeral signal, no entry, a trivial and a refused input) with four ways of saving: channels reflect exactly the successful tasks, checkpoints are whole supersteps, DAG nodes wait for all predecessors and succeed once, a cancel ends the run even if nodes hang, every run ends if they do not, and the whole implements `Supersteps` | 0.3 M |
| Agents | an execution's stream (no send on a closed channel, order, a true outcome, no goroutine left), merged cancel requests, tool calls, workflows and hand-overs, model calls and the copies of their streams, summarized conversations | 1.5 M |
| Services | savers and stores, the server's runs as an implementation of `RunLifecycle`, whole thread states, channels, graphs, executors, retries and caches, streams, remote calls and shared values | 1.3 M |

What the properties of `Agents` and `Services` are made of:

| Property | Component: what must hold |
|---|---|
| ToolCallsSound | `ReActAgent`: calls answered once and in order before the model is asked; writing tools run alone; the semaphore and the guard keep their limits |
| ConversationsSound | `Workflow`: each agent runs once per round and only when the one before has been read, the place of an interrupt is where the run is, no output is lost, and although several goroutines share one run path the history has every event in order. `FlowAgent`: the session and the reader get every message once and in order, the next agent knows the conversation. `Summarization`: the messages after a summary are the latest, in order, no answer without its call; the others are told of; only stale reads are dropped |
| ModelCallsSound | `ModelCalls`: the last answer is returned, no other one is sent, an agent sends it once, calls are bounded, a cancel is not retried; chunks in order, the end only after the last, never instead of an error |
| StorageSound | `CheckpointManager`: versions follow parents, and reads agree, whatever versions clients save. `CheckpointSavers`: Get returns what was put last. `PostgresSaver`: blobs are never older than their row in what Get and List return, a reader finds its second connection. `MemoryStore`: expired values stay hidden, reads agree |
| RunsImplementLifecycle | `Server` implements `RunLifecycle` |
| ThreadStateIsWhole | `Server`: a status is shown with the output that belongs to it |
| ChannelsSound | `Channels`: a restored channel is the saved one, barriers wait for all names, sums are complete. `ChannelAccess`: no entry is lost, no version is missed by a trigger |
| GraphsSound | `StateGraph`: exactly the reachable nodes may run, breakpoints are not passed. `GraphMessages`: merge by ID. `MessageStreams`: chunks make whole messages. `BackgroundExecutor`: the heap hands out the highest priority |
| ExecutorsSound | `AsyncExecutor`, `BackgroundExecutor`: slots, tokens of the limiter, results, execution at most once; the active tasks are those submitted and not executed |
| RetryAndCacheSound | `NodeRetry`: bounded calls, waits between half of the attempt's interval and all of it. `NodeCache`: values of their key, not expired, within the size |
| StreamsSound | `ChannelStreams`, `EventStreams`: nothing lost, doubled or reordered. `GraphStream`: a failure is told before "done". `RemoteGraph`: no two calls return one answer, and each panic has a cause that is named. `RuntimeValues`: a copy does not change with its original |

Runs that show a disagreement between the code and what its documentation or
tests say (quoted in `PROJECT.json`, "findings"):

| Run | What TLC finds |
|---|---|
| AgentLoopStopLost | the watcher of an ended turn takes a stop's cancel; the loop does not end |
| RunSyncLost | RunSync returns nil without an error for a failed execution, or loses the final state, when both channels are ready |
| AttemptsExceeded | the executor for several policies calls a node more often than MaxAttempts |

**Bounds.** Two items and two turns suffice for a turn, a request aimed at it
that comes before, during or after it, and the turn after it; one stopper per
run of each kind, and in AgentLoopStopLive two, for an idle stop that meets
another stop; two runs for save and resume. Two cancel callers give a first and
a joining call; a chain of two derived contexts gives propagation with a context
in the middle; two sub-agents give a context that is done before the workflow
is. Four nodes give a fan-out with its fan-in; the recursion limit of four lets
a cycle come round and a failed DAG node be scheduled again, and two attempts
give one retry. Channels of capacity two and five values events fill both
channels while the caller is slow. In `Agents` two agents in two rounds change
the run path three times while events are on their way; three runs of a flow
give a hand-over and one after it; batches of up to three calls with two slots
make one wait; two runs meet the same loop guard; three calls of the model after
up to three turns give a summary of a summary; two retries of two models with
streams of three chunks and channels of two give a second attempt of the backup,
and a reader that is slower than the source. In `Services` two clients and three
or four Puts give a lost race, a refused Put and a trimmed history, and versions
that grow by two a conflict; three changes of a remote client's connection
(made, lost or closed) give two readers of one channel, an old connection that
is lost, a new one after a loss and a Close beside each; two Stops overlap with
a Start; two runs of the inline loop restore a checkpoint; three
connections are one more than the readers; queues of one are full at once; the
caches hold two entries of two keys and are full; two runs of the server with
one waiting handler cover a run that is deleted, waited for and finished in each
order; three updates of a channel cover a checkpoint between updates and after
them. Where a component has a bound of its own, its CONSTANTS section names it.
No symmetry is used, since the items differ in their options and the nodes in
their edges.

**Deadlock** is not checked: a loop that nobody stops waits for items, and a
finished loop, execution or request does nothing more. That nothing gets stuck
before is what the liveness properties say, and for locks and connections
`StorageSound` (a reader that waits for a connection finds one).

**Fairness.** Weak fairness for each goroutine that can run, for timers and for
user callbacks that return (`GoroutinesRun`); none for callers, for the Go
context or for early returns. `AgentLoop`'s `CancelSpec` adds that a
cancelled agent ends. What needs more says so itself: `EveryItemServed` and
`StopTerminates` have the hypothesis that agents end (`AgentsEnd`), and
`WaitsReturn` that a cancelled agent does (`CancelledAgentEnds`); `AckEventually`
and `TimeoutEscalates` need neither. In `PregelEngine` the functions of nodes
have no fairness, so that they may hang; `RunEnds` has the hypothesis that they
return, and `CancelEndsRun` does not. In `RunStream` (`ExecutionEnds`, under
`MCFairness`) the caller goes on reading, as Run demands of it. Go's scheduler
justifies weak fairness; no strong fairness is assumed, so a mutex or select may
always be lost to somebody else. `Services` states safety only.

**Mutants.** Every property of a passing run has a mutant: a plausible mistake
in the code (`..._Suffix` definitions) under which TLC finds it violated. A
property that is a conjunction over components has one for each of them.

**Observations.** Behaviours of the models, or of code next to what they
model, that have no run of their own but are worth knowing. The properties
state where they make an exception for one.

* Engine: in the AnyPredecessor mode the next superstep follows only the edges
  of the one node that was last in a map's order, so after a fan-out a successor
  of the others may never run (engine.go:503; TLC finds it with a -> {b, c}, b
  -> d, c -> a), where the repository's README says that any predecessor
  triggers; NodeTriggerAllPredecessor "does not support cycles" (graph.go:650)
  but Validate accepts them, and the nodes of a cycle never run (engine.go:556):
  `DagsAreAcyclic` is a hypothesis of the theorem about `DagRunsInOrder`;
  asynchronous saves may put an older superstep last (engine.go:397); an
  ephemeral value is cleared by the values event of every superstep, before any
  successor reads it (engine.go:379); the limit of WithMaxConcurrency and the
  retry policy of a node or an engine are not used by ExecuteWithRetry and
  createTask (async.go:178, engine.go:1125); IsTaskReady of optimized.go, which
  nothing calls, looks at dependents where it means dependencies.
* Loop: a Push that races cleanup may return true with its item in no list
  (agent_loop.go:148, :197); a stop between the load of a checkpoint and the
  resumed turn drops the pending resume and deletes the checkpoint
  (agent_loop_run.go:106, agent_loop.go:170); a load that fails also leads to
  that deletion; the preempt watcher of an ended turn may take, and acknowledge,
  the request meant for the next turn (agent_loop_agent.go:34); a preempted turn
  whose stream ends before its watcher closes preemptDone ends the loop with a
  CancelError nobody asked for (agent_loop_agent.go:204), which is why
  `EveryItemServed` allows the loop to end; the old runner state of a resumed
  turn that completed is saved again by a later idle stop
  (agent_loop_agent.go:188); a handler that fails on an interrupt event before
  the runner has saved leaves cancelled items in the checkpoint without runner
  state.
* Cancellation: a later call's deadline replaces an earlier one
  (cancel.go:297); a CancelError may say escalated with a graceful mode
  (cancel.go:152); an immediate cancel passes through a derived context that
  ended uncancelled and reaches those below it (cancel.go:171), which the first
  form of `ShallowStays` denied and its proof brought to light; between two
  sub-agents a cancel is refused as "execution
  already ended" (cancel.go:375); a workflow cut short by a cancel may end
  without any error event (cancel.go:382).
* Workflow: a resume always fails: gob does not know the type of RootInput, so
  that the checkpoint is not saved (interrupt.go:169), and if it were, the state
  of the interrupt is not restored (interrupt.go:161, :230; "sub-agent not found",
  flow.go:261, or "no state for resume", workflow.go:85). The history of a
  sequence may hold an event twice, added by the sub-agent's flow agent and by
  the workflow's (flow.go:196); the events of parallel lanes never reach it, as
  nobody joins them (joinRunCtxs); an interrupt without a signal lets a sequence
  go on; drainEvents forwards only the last action event, after outputs that
  came later, and an error drops it.
* Flow: the hand-over loop (flow.go:221) runs the sub-agent again for every
  event that asks for it; runs that were abandoned go on writing to the
  session; parentAgent is never set, so a transfer back to it is not found; a
  flow agent behind the wrapper starts from an empty session; Resume's search
  returns the agent's own name.
* ReAct: a run that ends in its last iteration is still reported as "exceeded
  max iterations"; with inline tools an error of a middleware drops the
  remaining calls and a panic ends the run; the loop guard refuses the
  maxSame-th call, counts over all runs and is never reset; later batches run
  after an error.
* Model chain: BuildModelWrapperChain wraps the failover around the bare models,
  so that with it there is neither a retry nor an event sender, where its
  comments (model_chain.go:164, :180) put it around both; failover ignores
  cancels; no caller passes an execution context, so the event sender is never
  built (react_loop.go:44); ShouldRetry on a stream panics without a context in
  the session (retry.go:236); the older retry takes an empty stream
  for an error; `StreamReader.closed` is not synchronised;
  wrapStreamWithCancel turns an error into the end of the stream; the retry's
  forwarder does not close its stream after an error.
* Summarization: within one run (a user's message and then only calls and
  answers) findSafeSplit finds only the first message, so nothing gets shorter and a
  summary is made before every call of the model (compactor.go:98); removing a
  stale read leaves its call without an answer; an answer made by the loop has
  the call's ID for its Name, which classifyOpType takes for a read;
  EnableCompression without a SummaryBudget panics (summarization.go:119); its
  sort moves headings away from their lines; FinalizerBuilder repeats
  messages that were kept; a summary is asked for once more than maxAttempts
  says and is not stopped by a cancel (compactor.go:75).
* Runner: schema.RegisterType does not register with gob, and a loaded
  checkpoint never says that the run was interrupted.
* Savers: PutWrites does not trim; the manager's check for conflicts looks only
  at a checkpoint whose parent is still the latest, so that of two clients that
  loaded the same one the second is not refused (checkpoint.go:516); what a read
  returns is a clone whose ID nothing is found by, and the parent that GetTuple
  names is a clone's as well (checkpoint.go:660); FromMap of ToMap loses
  versions, and FromMap ignores channel_values, so that a tuple of the Postgres
  saver has none (postgres.go:602); SQLite cannot tell two checkpoints of
  one second apart; a Put between the NATS collector's Get and Delete is lost,
  and a deleted thread keeps its history; the Postgres schema names two
  primary keys, its blobs are shared by all checkpoints of a thread, a read may
  be torn, and readers that need two connections can exhaust the pool.
* Store: Put of an expired key keeps the expired TTL; keys with a ':' come back
  after the cleanup; embeddings are never removed; a batch that lists
  namespaces waits for its own lock.
* Server: runs and threads that were deleted go on executing; the status of a
  thread never changes; UpdateThreadState drops the values it is given; a
  streamed run may lose its result; waits read a run without the lock.
* Graphs: the inline run overwrites its input with a restored checkpoint, drops
  errors of nodes, and stops at a breakpoint again whenever it is invoked;
  MigrateCheckpoint of a middle sub-graph overwrites its parent's mapping; the
  reducer of messages keeps duplicates within an update, and an offset past
  the end counts for nothing.
* Channels: LastValueAfterFinish loses its finished flag in a checkpoint; the
  checkpoint of NamedBarrierValueAfterFinish shares its set of names; a reducer
  around an aggregate counts twice; numeric fields of a schema start as the
  zero of reflect's description of the type; two tasks may read and clear one
  ephemeral channel at the same time (ephemeral_value.go:32). A ChannelWrite
  that failed half way applies its first entries again; a Flush never
  empties its batches and may write another context's entries; a trigger fires
  on version 0 and never on a ChannelWrite's updates.
* Executors: a task whose context ends while it waits for a slot stays active
  for ever, and Wait with it; a Submit that races Stop, and a worker that is
  late for it, send on closed channels; tasks queued at Stop are not executed;
  Start after Stop panics, as does a second Stop after it (background.go:125);
  a task that Submit gave up stays active for ever, as CancelTask finds; a
  pipeline that is started again panics too;
  SetLimit while slots are held exceeds the limit or strands waiters.
* Retry and cache: the executor for several policies goes on after a cancel, a
  panic or an error that may not be retried; the word match of its predicates
  looks at prefixes only; a backoff that overflows is negative, also with the
  decorator's jitter; with jitter, which is on by default (types.go:83), a later
  wait may be shorter than an earlier one; the TTL counts from Set; a Set of a
  key that is there evicts another entry of a full cache; a cache of size zero
  holds one entry; the hits are written under a read lock; a Delete may be
  overtaken by the Set of an Execute under way.
* Remote: a lost connection gives Receive a nil message, which Invoke and
  Stream dereference, also after the client has been connected again; a second
  Connect starts a second reader, which closes the channel twice or sends on it
  closed (websocket.go:127), and both may read one connection; answers are not
  matched with their requests; Send has no lock, and Close writes beside it
  (websocket.go:287); Invoke before Connect panics.
* Streams: Close of the messages handler waits for its own lock; a flush that
  failed emits again; an Emit that races Close, and a second Cancel, panic; the
  custom mode falls to the filter of values, which drops custom output.
* Values: PatchConfigurable and the With... methods of a configuration change
  their receiver; Merge into a nil map panics, for the metadata of a
  RunnableConfig too (types/config.go:78); a managed value that tasks share
  returns another task's value; the stack of a scratchpad is read and written
  in two steps.

## 5. The proofs

TLAPS checks them for all values of the constants that satisfy the assumptions
of the modules (`ConstantsAssumption`, `StreamAssumption` and so on), which TLC
evaluates on the constants of the runs. `FanInsWait` has the hypothesis
`DagsAreAcyclic` besides, which the repository demands and does not check, and
which `MCPregelEngine` assumes of its graphs.

* `AgentLoopProofs` proves `Spec => []IInv` and from it `TypeCorrect`,
  `NeverPanics`, `RequestsTargetTheTurn` and `OpenAcksHaveOneHolder`, on the
  error paths as well. None of these is inductive by itself. `PhaseOK` ties the
  controller's phase to the
  loop's `pc`. That `endPush` finds its `beginPush` needs `InFlightCounts`:
  the counter is the cardinality of the set of pushes inside their critical
  section, which needs `PushSections` (which pcs are inside). That a pending
  request targets the current turn needs `TurnNumbered` (numbers only grow,
  and an idle controller has none pending). That an acknowledgement has one
  holder needs `NoChannelYet` (a push that has not sent has no channel) and
  `WatchersOK` (a watcher holds a request only between taking and answering
  it, and only in a turn that was begun).
* The second half of `AgentLoopProofs` proves what becomes of items and turns.
  `NoItemLost`: the equation between sequences is inductive together with
  `ItemsWhere`, where the loop holds items and where it holds none, and that the
  consumed ones are a prefix of the held ones; `Ledger` reduces each action to
  an equation between concatenations. `PushTellsTheTruth`: `ReportInv` says for
  each pc of a push whether its item is accepted, late or neither.
  `CancelledTurnsAreSaved` follows a cancelled turn from the end of its agent to
  the step that saves (`SavedInv`): a CancelError is returned only by the
  handler of the current turn (`HandlersOK`), the bridge store holds the turn's
  items by then (`BridgeHolds`, which needs that a turn has items or runner
  state, `ResumeHasState`), and what was captured is kept unless a preempt
  cancelled the turn as well (`CancelKept`). `StopsPreventTurns` is an induction
  over the behaviour after the commit: the turn stays unactivated
  (`NeverRunsNext`), as every step on the way to "activate" looks at
  isCommitted.
* `AgentsProofs` has the two proofs about `CancelRequest`.
  `MergingWeakensNoRequest`: the merged request covers each request sent so far,
  and a merge keeps that because the join of modes is the strongest mode and the
  earliest deadline wins. `MergingInventsNothing` is the converse: each part of
  the merged request is due to a request sent (`Due`).
* `CancelContextProofs` proves the four safety properties for every tree of
  contexts and any callers. `MutexInv` says who holds cancelMu at which step;
  `StartInv` that nobody has contributed before the compare-and-swap and that it
  fails only after the end; `EndInv` that nobody can contribute after the error;
  `ModeInv` that the mode, and whatever a joining call or the error has read of
  it, covers everything contributed, but for the first call between its swap and
  its write: the two accesses without a common lock are the reason why
  `ErrorCoversRequests` is not inductive. `RootInv` and `ChildInv` say what each
  propagating goroutine has seen of the parent, from which `ShallowStays`
  and `RecursiveReaches` follow step by step. Each of them is split into a
  lemma per goroutine, with frame lemmas for what others leave alone.
* `PregelEngineProofs` proves the type invariant and the three safety properties
  for any graphs, bounds and orders of goroutines. `LoopInv` counts: the step is
  the number of supersteps committed. `StoreInv` says for each durability what
  store, deferred and asynchronous saves hold between the superstep's writes and
  its save, and yields `CheckpointsAreWhole`. `ChannelsHoldResults` needs
  `AuthorsInv` (nothing in a channel is of a superstep to come) and
  `SortedFacts`: that the sorted sequence of a set of nodes lists each once is a
  fact about the cardinalities of initial segments, proved by counting.
  `FanInsWait` needs `DagInv`: completed nodes are those that succeeded, a
  scheduled node's predecessors have completed, and no node is left when none is
  scheduled, which is where the graph must have no cycle.
  `EngineImplementsSupersteps` maps each action of the engine to a superstep, a
  save, an end or a stutter of `Supersteps`. The superstep is the step
  `applyWrites` that commits it; that it may run is `ScheduleInv` (what is
  scheduled follows the last completed node, or waits for predecessors that have
  all succeeded), that its outcome is a function of the nodes is `LastingInv`
  (the channels hold what the history says) and that a final state comes after
  the saves it needs is `UnsavedInv`.
* `ServicesProofs` proves that `Server` implements `RunLifecycle`: initial states
  map to initial states, and each action to a step of the abstract
  specification or a stutter (`LifecycleRun`, `LifecycleHandler`). It needs
  `ServerInv`: the status of a run object is the one its goroutine's place says,
  and a listed run or a waited-for one was created. `ThreadStatesAreWhole`
  needs `LockInv` (between status and output the lock is held) and that a
  thread's latest run exists (`LatestExists`).
* `AgentsProofs` also proves the four safety properties of `RunStream` for all
  capacities, numbers of events and callers. `CloseInv` is the order of the
  clean-up, from which `ForwardNeverPanics` follows; together with the equation
  `TransitInv` (received, output, held and event channel make up what was
  accepted) it gives `StreamKeepsOrder`. `OutcomeIsNeverTurned` needs that a
  running or failed execution has no final event anywhere (`NoFinal`) and that
  a failure stays in errCh until it is returned (`OutcomeInv`).
* `ModelCalls` has the proofs of its two halves, for any numbers of retries,
  models, chunks and places in a pipe. `CallsAnswerOnce` needs `CountInv` (an
  attempt is one call, and which attempt each step is at), `RepeatInv` (after
  which answers another call may follow) and `SentInv` (nothing is sent but the
  answer that is returned).
  `PipesAreWhole`: the frames received, in the channel and in the copier's hands
  are, in this order, the chunks by their numbers and at most one end
  (`InPlace`); while the copier receives, the source's channel continues them
  (`ReceivingInv`), and afterwards the frame the copier holds says why it
  stopped and with which frames (`StoppedInv`). A panic freezes what has been
  received. `ModelCallsAreSound` carries both over to `MCAgents`.
* `ReActAgent` has the proof of `ToolCallsAreAnswered` for any tools, answers of
  the model and limits. `BatchesInOrder`: of the calls of a response some have
  been executed, then comes at most one batch, then those that are only planned;
  a call that may not run beside others is a batch by itself. `MessagesInv`: the
  last message of the model is the one whose calls are executed, all before it
  are settled, and with inline tools the answers follow it one by one; the
  batches give the rest, since the answers are appended in the order of the
  calls at the end. `LimitsKept` counts the holders of the semaphore.
  `ToolCallsAreSound` carries it over to `MCAgents`.
* `ComponentProofs` has an inductive invariant for each further component, and
  three lemmas for it: it holds at first, every step keeps it, and it implies
  the component's property. What they say:
  - Executors: `AsyncInv`: slots and slot holders make up the maximum, and the
    place of a task's goroutine says whether it has a slot, its result and its
    entry among the active ones; `LimiterInv`: until a limit is set under
    callers, tokens and holders are the limit; `BgInv`: an accepted task
    is in the queue once, or with one worker, or was executed.
  - Streams: `EventsInv`, `DuplexInv`: the number of an event or a chunk is in
    one place, and the places it has still to pass hold later ones;
    `GraphStreamInv`: what is written grows by the result, by an error with
    "done", or by how the handler returned; `RemoteInv`: the answer to a request
    is at the server, with a reader, in the channel or with one call, whichever
    connection it came by, a closed channel has had a reader that ended, and
    each panic has the cause that `PanicsExplained` names; `ValuesInv`: until a
    patch does, no two configurations share a map, and at most one operation has
    read the stack and not written it back.
  - Storage: `ManagerInv`: ids of histories and of held clones are apart, a
    clone still has its parent's channel versions, and what was saved on the
    latest checkpoint is right behind it; `SaversInv`: memory's entries are the
    Puts, SQLite's rows are ordered by time, NATS's last entry is the last Put
    unless the collector took it, which it does only to entries older than its
    cutoff; `PgInv`: the blobs of every row, and those that a reader is about
    to read, are there and no older, unless the thread was deleted; `StoreInv`:
    an index is never newer than its value, and an expired value is
    gone or has an expiry that has passed.
  - Retry and cache: `RetryInv`: between two inner executors the count of
    attempts is a limit that was reached, which bounds the calls, and inside one
    its calls come on top; `CacheInv`: the get of a caller is in one place,
    queue or worker, and the hits of an entry and the gets that may still count
    one are no more than the calls made.
  `ServicesProofs` puts them together by part (`ExecutorsInv`, `StreamsInv`,
  `StorageInv`, `RetryAndCacheInv`), since a step of `MCServices` is a step of
  the part's component, and proves `ExecutorsAreSound`, `StreamsAreSound`,
  `StorageIsSound` and `RetriesAndCachesAreSound`. The assumptions about the
  constants (`AsyncConstants`, `SaversConstants` and so on) are those
  `ServicesAssumption` of `MCServices` states and TLC evaluates: numbers are
  naturals, marks such as "none" are no elements of the sets they are used
  beside, a made id is no caller's, the powers of the backoff's factor do not
  shrink.

The proofs changed the models where they could not be completed: `ShallowStays`
(see the observations); `CancelledTurnIsSaved`, which did not exempt a turn that
a preempt cancelled as well, and which the loop does not save; the handler that
returns early, whose proxy may still write; and `Values` of `PregelEngine`, now
a function on a sorted set where it was a selection from a sequence.

**Only model-checked:** liveness (fairness and ENABLED are outside the prover's
reach), `ChannelsSound`, `GraphsSound` and `ConversationsSound`. What these say
is of folds, selections and recursive definitions over data (sums and reducers
of channels, the heap, the reducer of messages, reachability, histories and
splits of conversations), about which the prover has no induction.

## 6. Not modelled

The wording of errors, JSON and gob encodings, SQL text, prompts and message
contents. The parts with no state machine of their own: tools registry and
schemas, the other middlewares, prebuilt agents, sub-agent tools, telemetry,
drawing, evaluation, examples. Code that no execution reaches or that nothing
calls: the engine's load of a checkpoint, graph interrupts, `optimized.go`; in
`cancel.go` the grace period of `sendInterrupt`, whose condition nothing sets,
and the graph interrupt functions, which are stored and never called. Tables
without concurrency: sub-graphs, `workflow_graph.go`, schemas by reflection
(`state.go`). Resume of a flow agent, whose search returns the agent itself, and
the ping goroutine of a web socket, which only ends itself. The data race on
`capturedCancelErr` and `interruptContexts` when a handler returns early is
modelled as the write it is (`ProxyLate`); torn values are not, nor the panic of
a WaitGroup of the background executor that is used again while a Stop still
waits.
