-------------------------- MODULE BackgroundExecutor --------------------------
(***************************************************************************)
(* BackgroundExecutor (graphengine/pregel/background.go): a queue, workers *)
(* and a Stop that waits for them up to a timeout and then closes the      *)
(* channels, and the heap PriorityQueue of the same file.  What a task's   *)
(* function does is external; how long anything takes is not modelled, so  *)
(* that every timeout may come first.                                      *)
(***************************************************************************)
EXTENDS Integers, Sequences, FiniteSets, SequencesExt

CONSTANTS
    BgTask, Worker,
    QueueSize,      \* capacity of taskQueue, and of results
    Priority,       \* a set of numbers
    MaxStops,       \* bound: Stops at a time
    MaxHeap         \* bound: tasks in the PriorityQueue

VARIABLES
    running,        \* the field
    stopping,       \* the Stops that wait for the workers
    stopCh,         \* closed
    queuesClosed,   \* taskQueue and results are closed
    taskQueue,
    bgActive,       \* activeTasks
    submit,         \* task -> where its Submit is
    worker,         \* worker -> the task it executes and where it is
    taskResult,     \* task -> results in its own channel
    globalResults,  \* the number of results in the shared channel
    executed,       \* history: task -> how often its function was called
    bgPanic,        \* a send on a closed channel
    heap,           \* the PriorityQueue
    popped          \* history: the last Pop, with what was in the heap

bgVars == <<running, stopping, stopCh, queuesClosed, taskQueue, bgActive, submit,
            worker, taskResult, globalResults, executed, bgPanic>>
heapVars == <<heap, popped>>

Idle == [pc |-> "idle", task |-> "none"]

BgInit ==
    /\ running = FALSE /\ stopping = 0 /\ stopCh = FALSE /\ queuesClosed = FALSE
    /\ taskQueue = <<>> /\ bgActive = {}
    /\ submit = [t \in BgTask |-> "new"]
    /\ worker = [w \in Worker |-> [Idle EXCEPT !.pc = "ended"]]
    /\ taskResult = [t \in BgTask |-> 0] /\ globalResults = 0
    /\ executed = [t \in BgTask |-> 0]
    /\ bgPanic = FALSE
    /\ heap = <<>> /\ popped = [task |-> 0, from |-> {}]

-----------------------------------------------------------------------------
(* Start and Stop.                                                         *)

\* A Stop may still wait; channels that are closed stay so.  Workers that have
\* not ended find a new stopCh, and go on beside the new ones.
StartWorkers ==
    /\ ~bgPanic /\ ~running
    /\ running' = TRUE /\ stopCh' = FALSE
    /\ worker' = [w \in Worker |-> IF worker[w].pc = "ended" THEN Idle ELSE worker[w]]
    /\ UNCHANGED <<stopping, queuesClosed, taskQueue, bgActive, submit, taskResult,
                   globalResults, executed, bgPanic, heapVars>>

StopBegins ==
    /\ ~bgPanic /\ running /\ stopping < MaxStops
    /\ running' = FALSE /\ stopCh' = TRUE /\ stopping' = stopping + 1
    /\ UNCHANGED <<queuesClosed, taskQueue, bgActive, submit, worker, taskResult,
                   globalResults, executed, bgPanic, heapVars>>

\* The workers are gone or the timeout is over: the channels are closed, and
\* closing them a second time panics.
StopCloses ==
    /\ ~bgPanic /\ stopping > 0
    /\ stopping' = stopping - 1
    /\ bgPanic' = queuesClosed /\ queuesClosed' = TRUE
    /\ UNCHANGED <<running, stopCh, taskQueue, bgActive, submit, worker, taskResult,
                   globalResults, executed, heapVars>>

-----------------------------------------------------------------------------
(* Submit.                                                                 *)

SubmitLooks(t) ==
    /\ ~bgPanic /\ submit[t] = "new" /\ running
    /\ bgActive' = bgActive \cup {t}
    /\ submit' = [submit EXCEPT ![t] = "send"]
    /\ UNCHANGED <<running, stopping, stopCh, queuesClosed, taskQueue, worker, taskResult,
                   globalResults, executed, bgPanic, heapVars>>

SubmitSends(t) ==
    /\ ~bgPanic /\ submit[t] = "send"
    /\ IF queuesClosed THEN bgPanic' = TRUE /\ UNCHANGED <<taskQueue, submit>>
       ELSE /\ Len(taskQueue) < QueueSize
            /\ taskQueue' = Append(taskQueue, t)
            /\ submit' = [submit EXCEPT ![t] = "accepted"]
            /\ UNCHANGED bgPanic
    /\ UNCHANGED <<running, stopping, stopCh, queuesClosed, bgActive, worker, taskResult,
                   globalResults, executed, heapVars>>

\* The queue is full for too long, or the context ends: the task's context is
\* cancelled, and the task stays active.
SubmitFails(t) ==
    /\ ~bgPanic /\ submit[t] = "send" /\ ~queuesClosed
    /\ submit' = [submit EXCEPT ![t] = "refused"]
    /\ UNCHANGED <<running, stopping, stopCh, queuesClosed, taskQueue, bgActive, worker,
                   taskResult, globalResults, executed, bgPanic, heapVars>>

-----------------------------------------------------------------------------
(* A worker.                                                               *)

At(w, pc) == worker[w].pc = pc
WorkerGoes(w, pc) == worker' = [worker EXCEPT ![w].pc = pc]

\* Mutant: the task stays in the queue until it has been executed.
TakeTask_Peeks(w) ==
    /\ ~bgPanic /\ At(w, "idle") /\ taskQueue # <<>>
    /\ worker' = [worker EXCEPT ![w] = [pc |-> "execute", task |-> Head(taskQueue)]]
    /\ UNCHANGED <<running, stopping, stopCh, queuesClosed, taskQueue, bgActive, submit,
                   taskResult, globalResults, executed, bgPanic, heapVars>>

TakeTask(w) ==
    /\ ~bgPanic /\ At(w, "idle") /\ taskQueue # <<>>
    /\ worker' = [worker EXCEPT ![w] = [pc |-> "execute", task |-> Head(taskQueue)]]
    /\ taskQueue' = Tail(taskQueue)
    /\ UNCHANGED <<running, stopping, stopCh, queuesClosed, bgActive, submit, taskResult,
                   globalResults, executed, bgPanic, heapVars>>

WorkerEnds(w) ==
    /\ ~bgPanic /\ At(w, "idle") /\ (stopCh \/ (queuesClosed /\ taskQueue = <<>>))
    /\ worker' = [worker EXCEPT ![w] = [Idle EXCEPT !.pc = "ended"]]
    /\ UNCHANGED <<running, stopping, stopCh, queuesClosed, taskQueue, bgActive, submit,
                   taskResult, globalResults, executed, bgPanic, heapVars>>

\* task.Func, and the task is taken from the active ones.
executeTask(w) ==
    LET t == worker[w].task IN
    /\ ~bgPanic /\ At(w, "execute")
    /\ executed' = [executed EXCEPT ![t] = @ + 1]
    /\ bgActive' = bgActive \ {t}
    /\ WorkerGoes(w, "own")
    /\ UNCHANGED <<running, stopping, stopCh, queuesClosed, taskQueue, submit, taskResult,
                   globalResults, bgPanic, heapVars>>

SendOwnResult(w) ==
    /\ ~bgPanic /\ At(w, "own")
    /\ taskResult' = [taskResult EXCEPT ![worker[w].task] = @ + 1]
    /\ WorkerGoes(w, "global")
    /\ UNCHANGED <<running, stopping, stopCh, queuesClosed, taskQueue, bgActive, submit,
                   globalResults, executed, bgPanic, heapVars>>

\* Into the shared channel, or dropped when that is full for too long.
SendGlobalResult(w) ==
    /\ ~bgPanic /\ At(w, "global")
    /\ bgPanic' = queuesClosed
    /\ globalResults' \in {globalResults} \cup
         IF globalResults < QueueSize THEN {globalResults + 1} ELSE {}
    /\ worker' = [worker EXCEPT ![w] = Idle]
    /\ UNCHANGED <<running, stopping, stopCh, queuesClosed, taskQueue, bgActive, submit,
                   taskResult, executed, heapVars>>

ReadGlobal ==
    /\ ~bgPanic /\ globalResults > 0
    /\ globalResults' = globalResults - 1
    /\ UNCHANGED <<running, stopping, stopCh, queuesClosed, taskQueue, bgActive, submit,
                   worker, taskResult, executed, bgPanic, heapVars>>

-----------------------------------------------------------------------------
(* PriorityQueue: a heap of priorities, its first element at index 1.      *)

Swap(s, i, j) == [s EXCEPT ![i] = s[j], ![j] = s[i]]

\* The heap s after its element at i has risen.
heapifyUp(s, i) ==
    LET up[k \in 0 .. i] ==
          \* the pair of heap and index, with k halvings to go
          IF k = 0 THEN [s |-> s, i |-> i, over |-> FALSE]
          ELSE LET h == up[k - 1] IN
               IF h.over \/ h.i = 1 \/ h.s[h.i \div 2] >= h.s[h.i]
                 THEN [h EXCEPT !.over = TRUE]
                 ELSE [h EXCEPT !.s = Swap(h.s, h.i \div 2, h.i), !.i = h.i \div 2]
    IN  up[i].s

\* Mutant: only the left child is looked at.
Largest_Left(s, i) == IF 2 * i <= Len(s) /\ s[2 * i] > s[i] THEN 2 * i ELSE i

\* Of an element and its children the largest; the first of equal ones.
Largest(s, i) ==
    LET left == IF 2 * i <= Len(s) /\ s[2 * i] > s[i] THEN 2 * i ELSE i
    IN  IF 2 * i + 1 <= Len(s) /\ s[2 * i + 1] > s[left] THEN 2 * i + 1 ELSE left

heapifyDown(s) ==
    LET down[k \in 0 .. Len(s)] ==
          IF k = 0 THEN [s |-> s, i |-> 1]
          ELSE LET h == down[k - 1]
                   l == Largest(h.s, h.i)
               IN  IF l = h.i THEN h ELSE [s |-> Swap(h.s, h.i, l), i |-> l]
    IN  down[Len(s)].s

Push(p) ==
    /\ Len(heap) < MaxHeap
    /\ heap' = heapifyUp(Append(heap, p), Len(heap) + 1)
    /\ popped' = [task |-> 0, from |-> {}]
    /\ UNCHANGED bgVars

Pop ==
    /\ heap # <<>>
    /\ popped' = [task |-> heap[1], from |-> ToSet(heap)]
    /\ heap' = LET rest == Front([heap EXCEPT ![1] = Last(heap)])
               IN  IF rest = <<>> THEN <<>> ELSE heapifyDown(rest)
    /\ UNCHANGED bgVars

BgNext ==
    \/ StartWorkers \/ StopBegins \/ StopCloses \/ ReadGlobal
    \/ \E t \in BgTask : SubmitLooks(t) \/ SubmitSends(t) \/ SubmitFails(t)
    \/ \E w \in Worker :
         \/ TakeTask(w) \/ WorkerEnds(w) \/ executeTask(w)
         \/ SendOwnResult(w) \/ SendGlobalResult(w)

HeapNext == Pop \/ \E p \in Priority : Push(p)

-----------------------------------------------------------------------------
(* Properties.                                                             *)

\* A task is executed at most once, however often the executor is stopped and
\* started, and only if its Submit was accepted; it has its result when it was,
\* once; a task that is neither queued nor in a worker's hands and was accepted
\* was executed.  CancelTask finds the tasks that were submitted and not yet
\* executed, and for ever those that were refused.
BackgroundSound ==
    /\ \A t \in BgTask :
         /\ executed[t] <= 1 /\ taskResult[t] <= executed[t]
         /\ executed[t] = 1 => submit[t] = "accepted"
         /\ submit[t] = "accepted" /\ executed[t] = 0 =>
              \/ t \in ToSet(taskQueue)
              \/ \E w \in Worker : worker[w] = [pc |-> "execute", task |-> t]
    /\ bgActive = {t \in BgTask : submit[t] # "new" /\ executed[t] = 0}

\* Pop takes a task of the highest priority, whatever was pushed and popped.
PopTakesHighest == \A p \in popped.from : popped.task >= p
===============================================================================
