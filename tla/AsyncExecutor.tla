---------------------------- MODULE AsyncExecutor ----------------------------
(***************************************************************************)
(* AsyncExecutor (graphengine/pregel/async.go): tasks in goroutines of     *)
(* their own, alone, in a batch or with retries, with a pool of slots; a   *)
(* Cancel of all that are active, and a Wait that polls until none is.     *)
(* What a task's function does is external: it returns, now or when its    *)
(* context ends.  The callers' contexts end together.                      *)
(*                                                                         *)
(* Of the same file: AsyncPipeline with its two channels, which Stop       *)
(* closes, and ConcurrencyLimiter, the limits of nodes, each a channel of  *)
(* tokens that SetLimit replaces.                                          *)
(***************************************************************************)
EXTENDS Integers, Sequences, FiniteSets

CONSTANTS
    AsyncTask,
    maxConcurrency

VARIABLES
    form,           \* how a task was started: "execute", "batch" or "retry"
    where,          \* where its goroutine is
    slots,          \* tokens in workerPool
    activeTasks,
    asyncResults,   \* task -> the results sent for it
    resultClosed,   \* tasks whose result channel is closed
    ctxDone,
    told,           \* tasks whose own context was cancelled
    waiter          \* Wait: its state and, as history, the tasks it waits for

asyncVars == <<form, where, slots, activeTasks, asyncResults, resultClosed, ctxDone,
               told, waiter>>

AsyncInit ==
    /\ form = [t \in AsyncTask |-> "none"] /\ where = [t \in AsyncTask |-> "new"]
    /\ slots = maxConcurrency
    /\ activeTasks = {}
    /\ asyncResults = [t \in AsyncTask |-> 0] /\ resultClosed = {}
    /\ ctxDone = FALSE /\ told = {}
    /\ waiter = [pc |-> "idle", for |-> {}]

-----------------------------------------------------------------------------
(* Starting.                                                               *)

Start(S, f) ==
    /\ \A t \in S : where[t] = "new"
    /\ form' = [t \in AsyncTask |-> IF t \in S THEN f ELSE form[t]]
    /\ where' = [t \in AsyncTask |-> IF t \notin S THEN where[t]
                                     ELSE IF f = "retry" THEN "running" ELSE "waiting"]
    /\ activeTasks' = activeTasks \cup S
    /\ UNCHANGED <<slots, asyncResults, resultClosed, ctxDone, told, waiter>>

Execute(t) == Start({t}, "execute")
ExecuteBatch(S) == Start(S, "batch")

\* The retries run in the goroutine, without a slot.
ExecuteWithRetry(t) == Start({t}, "retry")

-----------------------------------------------------------------------------
(* A goroutine.                                                            *)

Move(t, to) == where' = [where EXCEPT ![t] = to]

AcquireSlot(t) ==
    /\ where[t] = "waiting" /\ slots > 0
    /\ slots' = slots - 1
    /\ Move(t, "running")
    /\ UNCHANGED <<form, activeTasks, asyncResults, resultClosed, ctxDone, told, waiter>>

\* The context ends first: a result without a slot.  The task stays active.
GiveUp(t) ==
    /\ where[t] = "waiting" /\ ctxDone
    /\ asyncResults' = [asyncResults EXCEPT ![t] = @ + 1]
    /\ Move(t, "closing")
    /\ UNCHANGED <<form, slots, activeTasks, resultClosed, ctxDone, told, waiter>>

\* The function returns.
FuncReturns(t) ==
    /\ where[t] = "running"
    /\ Move(t, IF form[t] = "batch" THEN "sending" ELSE "deleting")
    /\ UNCHANGED <<form, slots, activeTasks, asyncResults, resultClosed, ctxDone, told,
                   waiter>>

\* A batch sends the result before the task is taken out; the others after.
SendResult(t) ==
    /\ where[t] = "sending"
    /\ asyncResults' = [asyncResults EXCEPT ![t] = @ + 1]
    /\ Move(t, IF form[t] = "batch" THEN "deleting" ELSE "releasing")
    /\ UNCHANGED <<form, slots, activeTasks, resultClosed, ctxDone, told, waiter>>

DeleteActive(t) ==
    /\ where[t] = "deleting"
    /\ activeTasks' = activeTasks \ {t}
    /\ Move(t, IF form[t] = "batch" THEN "releasing" ELSE "sending")
    /\ UNCHANGED <<form, slots, asyncResults, resultClosed, ctxDone, told, waiter>>

\* Mutant: the slot of a task that was cancelled is kept.
ReleaseSlot_Leaks(t) ==
    /\ where[t] = "releasing"
    /\ slots' = IF form[t] = "retry" \/ t \in told THEN slots ELSE slots + 1
    /\ Move(t, "closing")
    /\ UNCHANGED <<form, activeTasks, asyncResults, resultClosed, ctxDone, told, waiter>>

\* The deferred calls: the slot goes back first.
ReleaseSlot(t) ==
    /\ where[t] = "releasing"
    /\ slots' = IF form[t] = "retry" THEN slots ELSE slots + 1
    /\ Move(t, "closing")
    /\ UNCHANGED <<form, activeTasks, asyncResults, resultClosed, ctxDone, told, waiter>>

\* The channel of a batch is closed when all of it is done.
CloseResult(t) ==
    LET group == IF form[t] = "batch" THEN {u \in AsyncTask : form[u] = "batch"} ELSE {t}
    IN  /\ where[t] = "closing" /\ \A u \in group : where[u] = "closing"
        /\ resultClosed' = resultClosed \cup group
        /\ where' = [u \in AsyncTask |-> IF u \in group THEN "ended" ELSE where[u]]
        /\ UNCHANGED <<form, slots, activeTasks, asyncResults, ctxDone, told, waiter>>

-----------------------------------------------------------------------------
EndOfContext ==
    /\ ~ctxDone /\ ctxDone' = TRUE
    /\ UNCHANGED <<form, where, slots, activeTasks, asyncResults, resultClosed, told, waiter>>

\* The tasks of a batch have the Cancel their caller gave them, or none.
Cancel ==
    /\ activeTasks # {}
    /\ told' = told \cup activeTasks
    /\ activeTasks' = {}
    /\ UNCHANGED <<form, where, slots, asyncResults, resultClosed, ctxDone, waiter>>

Wait ==
    /\ waiter.pc = "idle" /\ activeTasks # {}
    /\ waiter' = [pc |-> "poll", for |-> activeTasks]
    /\ UNCHANGED <<form, where, slots, activeTasks, asyncResults, resultClosed, ctxDone, told>>

WaitReturns ==
    /\ waiter.pc = "poll" /\ (activeTasks = {} \/ ctxDone)
    /\ waiter' = [waiter EXCEPT !.pc = IF activeTasks = {} THEN "nil" ELSE "error"]
    /\ UNCHANGED <<form, where, slots, activeTasks, asyncResults, resultClosed, ctxDone, told>>

AsyncNext ==
    \/ \E t \in AsyncTask : Execute(t) \/ ExecuteWithRetry(t)
    \/ \E S \in SUBSET AsyncTask :
         Cardinality(S) > 1 /\ (\A t \in AsyncTask : form[t] # "batch") /\ ExecuteBatch(S)
    \/ \E t \in AsyncTask :
         \/ AcquireSlot(t) \/ GiveUp(t) \/ FuncReturns(t) \/ SendResult(t)
         \/ DeleteActive(t) \/ ReleaseSlot(t) \/ CloseResult(t)
    \/ EndOfContext \/ Cancel \/ Wait \/ WaitReturns

-----------------------------------------------------------------------------
(* The pipeline and the limiter of one node.                               *)

CONSTANTS
    Caller,         \* goroutines that acquire a slot of the node
    Limit,          \* limits that may be set
    EventRoom,      \* capacity of the pipeline's channels
    MaxLimits,      \* bound: calls of SetLimit
    MaxStarts       \* bound: starts

VARIABLES
    pipelineRunning, channelsClosed, buffered,
    pipelinePanic,
    starts,         \* history: the number of starts
    tokens,         \* tokens of each channel there was, the last is in the map
    caller,         \* caller -> what it does and the channel it has read
    moved,          \* history: SetLimit was called while a caller was in or waiting
    limitNow        \* history: the limit that was set last

pipelineVars == <<pipelineRunning, channelsClosed, buffered, pipelinePanic, starts>>
limiterVars == <<tokens, caller, moved, limitNow>>

PipelineInit ==
    /\ pipelineRunning = FALSE /\ channelsClosed = FALSE /\ buffered = 0
    /\ pipelinePanic = FALSE /\ starts = 0
    /\ tokens = <<>> /\ moved = FALSE /\ limitNow = 0
    /\ caller = [c \in Caller |-> [pc |-> "out", channel |-> 0]]

-----------------------------------------------------------------------------
(* The pipeline.                                                           *)

PipelineStart ==
    /\ ~pipelinePanic /\ ~pipelineRunning /\ starts < MaxStarts
    /\ pipelineRunning' = TRUE /\ starts' = starts + 1
    /\ UNCHANGED <<channelsClosed, buffered, pipelinePanic, limiterVars>>

\* The channels are those of the constructor: a second Stop closes them again.
PipelineStop ==
    /\ ~pipelinePanic /\ pipelineRunning
    /\ IF channelsClosed THEN pipelinePanic' = TRUE /\ UNCHANGED <<pipelineRunning, channelsClosed>>
       ELSE channelsClosed' = TRUE /\ pipelineRunning' = FALSE /\ UNCHANGED pipelinePanic
    /\ UNCHANGED <<buffered, starts, limiterVars>>

\* Mutant: whether the pipeline runs is not asked.
EmitEvent_Unasked ==
    /\ ~pipelinePanic
    /\ IF channelsClosed THEN pipelinePanic' = TRUE /\ UNCHANGED buffered
       ELSE /\ buffered' = IF buffered < EventRoom THEN buffered + 1 ELSE buffered
            /\ UNCHANGED pipelinePanic
    /\ UNCHANGED <<pipelineRunning, channelsClosed, starts, limiterVars>>

\* EmitEvent, and EmitError with the other channel: under the lock that Stop
\* takes; dropped when the channel is full.
EmitEvent ==
    /\ ~pipelinePanic /\ pipelineRunning
    /\ IF channelsClosed THEN pipelinePanic' = TRUE /\ UNCHANGED buffered
       ELSE /\ buffered' = IF buffered < EventRoom THEN buffered + 1 ELSE buffered
            /\ UNCHANGED pipelinePanic
    /\ UNCHANGED <<pipelineRunning, channelsClosed, starts, limiterVars>>

Receive ==
    /\ buffered > 0 /\ buffered' = buffered - 1
    /\ UNCHANGED <<pipelineRunning, channelsClosed, pipelinePanic, starts, limiterVars>>

-----------------------------------------------------------------------------
(* The limiter of one node.                                                *)

Current == Len(tokens)
Holders == {c \in Caller : caller[c].pc = "in"}

SetLimit(n) ==
    /\ Current < MaxLimits
    /\ tokens' = Append(tokens, n)
    /\ limitNow' = n
    /\ moved' = (moved \/ \E c \in Caller : caller[c].pc # "out")
    /\ UNCHANGED <<caller, pipelineVars>>

\* The channel is looked up under the lock; without one there is no limit.
AcquireLooks(c) ==
    /\ caller[c].pc = "out"
    /\ caller' = [caller EXCEPT ![c] = [pc |-> IF Current = 0 THEN "free" ELSE "waits",
                                        channel |-> Current]]
    /\ UNCHANGED <<tokens, moved, limitNow, pipelineVars>>

\* A token of the channel that was looked up, or the context's end.
AcquireTakes(c) ==
    LET ch == caller[c].channel IN
    /\ caller[c].pc = "waits"
    /\ \/ /\ tokens[ch] > 0 /\ tokens' = [tokens EXCEPT ![ch] = @ - 1]
          /\ caller' = [caller EXCEPT ![c].pc = "in"]
       \/ /\ caller' = [caller EXCEPT ![c].pc = "out"]
          /\ UNCHANGED tokens
    /\ UNCHANGED <<moved, limitNow, pipelineVars>>

\* The token goes to the channel that is in the map now, unless that is full.
Release(c) ==
    /\ caller[c].pc \in {"in", "free"}
    /\ caller' = [caller EXCEPT ![c].pc = "out"]
    /\ tokens' = IF Current # 0 /\ tokens[Current] < limitNow
                   THEN [tokens EXCEPT ![Current] = @ + 1] ELSE tokens
    /\ moved' = (moved \/ (caller[c].pc = "free" /\ Current # 0))
    /\ UNCHANGED <<limitNow, pipelineVars>>

PipelineNext == PipelineStart \/ PipelineStop \/ EmitEvent \/ Receive
LimiterNext ==
    \/ \E n \in Limit : SetLimit(n)
    \/ \E c \in Caller : AcquireLooks(c) \/ AcquireTakes(c) \/ Release(c)

-----------------------------------------------------------------------------
(* Properties.                                                             *)

\* No slot is lost or made, whatever is cancelled when; no more tasks than
\* slots run, except those with retries; a result channel is closed with
\* exactly one result of each task in it; a Wait that returns without an error
\* has seen every task it waited for return, or be cancelled; and a task that
\* ended is forgotten, unless its context ended while it waited for a slot.
AsyncSound ==
    /\ slots + Cardinality({t \in AsyncTask : form[t] # "retry" /\
            where[t] \in {"running", "sending", "deleting", "releasing"}}) = maxConcurrency
    /\ \A t \in AsyncTask : asyncResults[t] <= 1
    /\ \A t \in resultClosed : asyncResults[t] = 1
    /\ waiter.pc = "nil" => \A t \in waiter.for :
         t \in told \/ where[t] \notin {"waiting", "running"}
    /\ \A t \in activeTasks : where[t] = "ended" => ctxDone

\* Events may be emitted while another goroutine stops the pipeline: nothing
\* panics unless the pipeline was started again after a Stop.  No more callers
\* than the limit are inside, and every slot is free or held, as long as the
\* limit is not set while one is inside or waits.
PipelineSound ==
    /\ pipelinePanic => starts > 1
    /\ ~moved /\ Current > 0 =>
         /\ tokens[Current] + Cardinality({c \in Holders : caller[c].channel = Current})
              = limitNow
         /\ Holders # {} => Cardinality(Holders) <= limitNow
==============================================================================
