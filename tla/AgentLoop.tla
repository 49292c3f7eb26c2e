------------------------------ MODULE AgentLoop ------------------------------
(***************************************************************************)
(* The push-based turn loop (agentcore/agent_loop*.go): the goroutine of   *)
(* run and cleanup, the callers of Push and Stop, the delay, idle and stop *)
(* timers, the context monitor and, for every turn, its agent and event    *)
(* handler and the two watchers that cancel it.  The methods of the buffer *)
(* and of the two controllers are the atomic steps; what a goroutine does  *)
(* between two of them is merged with the first.                           *)
(***************************************************************************)
EXTENDS TurnBuffer, PreemptController, StopController, FiniteSets

CONSTANTS
    PushModes,       \* per item, the option sets its Push may be called with
    Stoppers,        \* callers of Stop
    StopOptions,     \* per stopper, the options its Stop may be called with
    AgentOutcomes,   \* how the agent of a turn may end, see AgentEnds
    Persist,         \* Store and CheckpointID are configured
    CtxMayEnd,       \* the context given to Run may be cancelled
    CallbacksMayFail,\* GenInput, PrepareAgent, Resume, the handler or the
                     \* store may return an error
    EarlyReturn,     \* OnAgentEvents may return before its stream ends
    MaxRuns          \* bound: loops created on the same checkpoint

\* Options of Push: a strategy decides inside the critical section of the
\* preempt controller; preempt and delay are WithPreempt and WithPreemptDelay.
PushOptions == [strategy : BOOLEAN, preempt : BOOLEAN, delay : BOOLEAN]

Outcomes == {"ok", "err", "cancel", "interrupt", "internal"}

ASSUME ConstantsAssumption ==
    /\ IsFiniteSet(Items)
    /\ MaxTurns \in Nat
    /\ MaxRuns \in Nat
    /\ PushModes \in [Items -> SUBSET PushOptions]
    /\ StopOptions \in [Stoppers -> SUBSET StopConfigs]
    /\ AgentOutcomes \subseteq Outcomes
    /\ {Persist, CtxMayEnd, CallbacksMayFail, EarlyReturn} \subseteq BOOLEAN

VARIABLES
    \* the loop goroutine: run, runAgentAndHandleEvents and cleanup
    pc,
    started,            \* l.started
    stopped,            \* l.stopped
    done,               \* l.done is closed
    ctxDone,            \* the context of Run is cancelled
    runErr,             \* "nil" or the kind of l.runErr
    items,              \* pushBack: the items taken for the turn being planned
    consumed,           \* plan.spec.consumed
    isResume,           \* plan.spec.isResume
    pendingResume,      \* l.pendingResume, or NoResume
    resumeBytes,        \* plan.spec.resumeBytes
    captured,           \* l.capturedCancelErr # nil
    interruptCtx,       \* l.interruptContexts # nil
    runnerBytes,        \* l.checkPointRunnerBytes
    interruptedItems,
    unhandled,          \* the result's UnhandledItems
    lateItems, lateSealed,
    \* timers of the idle path and of Stop, and finishStopCommit
    idleTimer,          \* the timer of the current idle wait is armed
    firing,             \* idle timers that fired and did not commit yet
    finishing,          \* progress of the one finishStopCommit
    \* the callers
    pushPC, pushMode, target, inPush, ret,
    delayed,            \* the delay goroutine of a push is waiting
    stopperPC, stopCfg, timerOn,
    \* per turn
    agent,              \* state of the turn's cancelContext
    events,             \* how the agent's event stream ended
    handler,            \* the OnAgentEvents goroutine and its error
    bridge,             \* content of the turn's bridgeStore
    preemptDone, stoppedDone,
    watchP, watchReq,   \* watchPreempt and the request it holds
    watchS,             \* watchStop
    \* the checkpoint store and the loops created on it
    store, runs,
    \* history: items accepted by TrySend, items given to a turn
    accepted, handed

loopVars == <<pc, started, stopped, done, ctxDone, runErr>>
planVars == <<items, consumed, isResume, pendingResume, resumeBytes>>
resultVars == <<captured, interruptCtx, runnerBytes, interruptedItems, unhandled>>
lateVars == <<lateItems, lateSealed>>
timerVars == <<idleTimer, firing, finishing>>
pushVars == <<pushPC, pushMode, target, inPush, ret, delayed>>
stopperVars == <<stopperPC, stopCfg, timerOn>>
turnVars == <<agent, events, handler, bridge, preemptDone, stoppedDone>>
watchVars == <<watchP, watchReq, watchS>>
storeVars == <<store, runs>>
history == <<accepted, handed>>

vars == <<bufVars, preVars, ack, stopVars, loopVars, planVars, resultVars,
          lateVars, timerVars, pushVars, stopperVars, turnVars, watchVars,
          storeVars, history>>

\* Frames: what the steps of a Push, of a Stop, of the caller of Run, of the
\* loop goroutine (when it plans a turn, and when it runs one or exits) and
\* of a turn's goroutines never touch.
pushFrame == <<stopVars, loopVars, planVars, resultVars, timerVars,
               stopperVars, turnVars, watchVars, storeVars>>
stopFrame == <<preVars, ack, planVars, resultVars, lateVars, pushVars,
               turnVars, watchVars, storeVars, history>>
envFrame == <<preVars, ack, stopVars, planVars, resultVars, timerVars,
              pushVars, stopperVars, turnVars, watchVars, storeVars, history>>
others == <<lateVars, firing, finishing, pushVars, stopperVars>>
planFrame == <<others, stopVars, resultVars, turnVars, watchVars, storeVars>>
turnFrame == <<others, bufVars, idleTimer, storeVars, history>>
agentFrame == <<bufVars, loopVars, planVars, runnerBytes, interruptedItems,
                unhandled, lateVars, timerVars, pushVars, stopperVars,
                storeVars, history>>

\* A runner checkpoint is represented by the items whose execution it holds;
\* {} stands for no bytes.
NoResume == [interrupted |-> <<>>, unhandled |-> <<>>, newItems |-> <<>>,
             bytes |-> {}]
NoCheckpoint == [bytes |-> {}, unhandled |-> <<>>, canceled |-> <<>>,
                 exists |-> FALSE]

ItemsOf(s) == {s[n] : n \in DOMAIN s}

HandlerDone(t) == handler[t] \in {"nil", "early", "agent", "cancel"}

-----------------------------------------------------------------------------
PerTurn(v) == [t \in Turns |-> v]

\* NewAgentLoop, and callers that have not called yet.
Init ==
    /\ BufInit /\ PreInit /\ StopInit
    /\ pc = "new" /\ started = FALSE /\ stopped = FALSE /\ done = FALSE
    /\ ctxDone = FALSE /\ runErr = "nil"
    /\ items = <<>> /\ consumed = <<>> /\ isResume = FALSE
    /\ pendingResume = NoResume /\ resumeBytes = {}
    /\ captured = FALSE /\ interruptCtx = FALSE /\ runnerBytes = {}
    /\ interruptedItems = <<>> /\ unhandled = <<>>
    /\ lateItems = <<>> /\ lateSealed = FALSE
    /\ idleTimer = FALSE /\ firing = 0 /\ finishing = "none"
    /\ stopperPC = [s \in Stoppers |-> "ready"]
    /\ stopCfg = [s \in Stoppers |-> CHOOSE c \in StopConfigs : TRUE]
    /\ timerOn = [s \in Stoppers |-> FALSE]
    /\ agent = PerTurn("none") /\ events = PerTurn("none")
    /\ handler = PerTurn("none") /\ bridge = PerTurn({})
    /\ preemptDone = PerTurn(FALSE) /\ stoppedDone = PerTurn(FALSE)
    /\ watchP = PerTurn("none") /\ watchReq = PerTurn({})
    /\ watchS = PerTurn("none")
    /\ accepted = <<>> /\ handed = <<>>
    /\ pushPC = [i \in Items |-> "ready"]
    /\ pushMode = [i \in Items |-> CHOOSE m \in PushOptions : TRUE]
    /\ target = [i \in Items |-> 0]
    /\ inPush = [i \in Items |-> FALSE]
    /\ ret = [i \in Items |-> "none"]
    /\ delayed = [i \in Items |-> FALSE]
    /\ ack = [i \in Items |-> "none"]
    /\ store = NoCheckpoint
    /\ runs = 1

-----------------------------------------------------------------------------
\* Push.  pushWithStrategy enters the critical section and then, for a
\* preempt, looks at l.stopped; pushWithConfig looks at l.stopped first and
\* enters the critical section for a preempt only.
EnterPush(i, m) ==
    /\ beginPush
    /\ target' = [target EXCEPT ![i] = TargetTurn]
    /\ inPush' = [inPush EXCEPT ![i] = TRUE]
    /\ pushPC' = [pushPC EXCEPT ![i] =
                    IF m.strategy /\ m.preempt THEN "check" ELSE "send"]

CheckStopped(i, m) ==
    /\ pushPC' = [pushPC EXCEPT ![i] =
                    IF stopped THEN "late"
                    ELSE IF m.preempt /\ ~inPush[i] THEN "begin"
                    ELSE "send"]
    /\ UNCHANGED <<preVars, target, inPush>>

PushCall(i) ==
    /\ pushPC[i] = "ready"
    /\ \E m \in PushModes[i] :
         /\ pushMode' = [pushMode EXCEPT ![i] = m]
         /\ IF m.strategy THEN EnterPush(i, m) ELSE CheckStopped(i, m)
    /\ UNCHANGED <<ret, delayed, bufVars, ack, lateVars, history, pushFrame>>

PushBegin(i) ==
    /\ \/ pushPC[i] = "begin" /\ EnterPush(i, pushMode[i])
       \/ pushPC[i] = "check" /\ CheckStopped(i, pushMode[i])
    /\ UNCHANGED <<pushMode, ret, delayed, bufVars, ack, lateVars, history,
                   pushFrame>>

\* What is left of a Push once its result is known: the deferred endPush.
AfterPush(i) == IF inPush[i] THEN "end" ELSE "returned"

\* TrySend, and for a preempt the new channel: closed at once if the loop has
\* not been started, handed to a goroutine if there is a delay.
PushSend(i) ==
    /\ pushPC[i] = "send"
    /\ TrySend(i)
    /\ IF ~CanSend
         THEN /\ pushPC' = [pushPC EXCEPT ![i] = "late"]
              /\ UNCHANGED <<ack, ret, delayed, accepted>>
         ELSE /\ accepted' = Append(accepted, i)
              /\ ret' = [ret EXCEPT ![i] = "true"]
              /\ IF ~pushMode[i].preempt
                   THEN /\ pushPC' = [pushPC EXCEPT ![i] = AfterPush(i)]
                        /\ UNCHANGED <<ack, delayed>>
                 ELSE IF ~started
                   THEN /\ ack' = [ack EXCEPT ![i] = "closed"]
                        /\ pushPC' = [pushPC EXCEPT ![i] = "end"]
                        /\ UNCHANGED delayed
                 ELSE /\ ack' = [ack EXCEPT ![i] = "open"]
                      /\ delayed' = [delayed EXCEPT ![i] = pushMode[i].delay]
                      /\ pushPC' = [pushPC EXCEPT ![i] =
                                      IF pushMode[i].delay THEN "end" ELSE "request"]
    /\ UNCHANGED <<pushMode, target, inPush, handed, preVars, lateVars,
                   pushFrame>>

\* Mutant: a refused item is not kept.
PushLate_Drops(i) ==
    /\ pushPC[i] = "late"
    /\ ret' = [ret EXCEPT ![i] = "false"]
    /\ pushPC' = [pushPC EXCEPT ![i] = AfterPush(i)]
    /\ UNCHANGED <<pushMode, target, inPush, delayed, bufVars, preVars, ack,
                   lateVars, history, pushFrame>>

\* appendLate, which panics once TakeLateItems has sealed the list.
PushLate(i) ==
    /\ pushPC[i] = "late"
    /\ lateItems' = IF lateSealed THEN lateItems ELSE Append(lateItems, i)
    /\ ret' = [ret EXCEPT ![i] = IF lateSealed THEN "panic" ELSE "false"]
    /\ pushPC' = [pushPC EXCEPT ![i] = AfterPush(i)]
    /\ UNCHANGED <<lateSealed, pushMode, target, inPush, delayed, bufVars,
                   preVars, ack, history, pushFrame>>

PushRequest(i) ==
    /\ pushPC[i] = "request"
    /\ requestPreempt(i, target[i])
    /\ pushPC' = [pushPC EXCEPT ![i] = "end"]
    /\ UNCHANGED <<pushMode, target, inPush, ret, delayed, bufVars, lateVars,
                   history, pushFrame>>

PushEnd(i) ==
    /\ pushPC[i] = "end"
    /\ endPush
    /\ inPush' = [inPush EXCEPT ![i] = FALSE]
    /\ pushPC' = [pushPC EXCEPT ![i] = "returned"]
    /\ UNCHANGED <<pushMode, target, ret, delayed, bufVars, ack, lateVars,
                   history, pushFrame>>

\* The goroutine of a delayed preempt: the delay passes, or the loop exits.
DelayFires(i) ==
    /\ delayed[i]
    /\ delayed' = [delayed EXCEPT ![i] = FALSE]
    /\ \/ requestPreempt(i, target[i])
       \/ /\ done
          /\ ack' = Acked({i})
          /\ UNCHANGED preVars
    /\ UNCHANGED <<pushPC, pushMode, target, inPush, ret, bufVars, lateVars,
                   history, pushFrame>>

PushStep(i) == \/ PushBegin(i) \/ PushSend(i) \/ PushLate(i)
               \/ PushRequest(i) \/ PushEnd(i)

-----------------------------------------------------------------------------
\* Stop: the request, then the wakeup of an idle stop, or the start of
\* finishStopCommit.  Only one goroutine in a loop's life gets to finish the
\* commit, because commitLocked succeeds once.
StopCall(s) ==
    /\ stopperPC[s] = "ready"
    /\ \E c \in StopOptions[s] :
         /\ stopCfg' = [stopCfg EXCEPT ![s] = c]
         /\ requestStop(c)
         /\ finishing' = IF DecisionCommit(c) THEN "store" ELSE finishing
         /\ stopperPC' = [stopperPC EXCEPT ![s] =
                            IF DecisionWakeIdle(c) THEN "wake" ELSE "returned"]
         /\ timerOn' = [timerOn EXCEPT ![s] = c.timeout]
    /\ UNCHANGED <<idleTimer, firing, bufVars, loopVars, stopFrame>>

StopWake(s) ==
    /\ stopperPC[s] = "wake"
    /\ Wakeup
    /\ stopperPC' = [stopperPC EXCEPT ![s] = "returned"]
    /\ UNCHANGED <<stopCfg, timerOn, stopVars, loopVars, timerVars,
                   stopFrame>>

\* commitStop, by the timer of WithStopTimeout (which gives up once the loop
\* is done) ...
StopTimeout(s) ==
    /\ timerOn[s]
    /\ stopperPC[s] = "returned"
    /\ timerOn' = [timerOn EXCEPT ![s] = FALSE]
    /\ \/ /\ commit
          /\ finishing' = IF CanCommit THEN "store" ELSE finishing
       \/ /\ done
          /\ UNCHANGED <<stopVars, finishing>>
    /\ UNCHANGED <<idleTimer, firing, stopperPC, stopCfg, bufVars, loopVars,
                   stopFrame>>

\* ... and by the goroutine of the idle path, whose timer may win against
\* cancelIdle just before an item arrives.
IdleTimerFires ==
    /\ idleTimer
    /\ idleTimer' = FALSE
    /\ firing' = firing + 1
    /\ UNCHANGED <<finishing, bufVars, stopVars, loopVars, stopperVars,
                   stopFrame>>

IdleCommit ==
    /\ firing > 0
    /\ firing' = firing - 1
    /\ commit
    /\ finishing' = IF CanCommit THEN "store" ELSE finishing
    /\ UNCHANGED <<idleTimer, bufVars, loopVars, stopperVars, stopFrame>>

finishStopCommit ==
    /\ \/ /\ finishing = "store"
          /\ stopped' = TRUE
          /\ finishing' = "close"
          /\ UNCHANGED bufVars
       \/ /\ finishing = "close"
          /\ Close
          /\ finishing' = "finished"
          /\ UNCHANGED stopped
    /\ UNCHANGED <<pc, started, done, ctxDone, runErr, idleTimer, firing,
                   stopVars, stopperVars, stopFrame>>

-----------------------------------------------------------------------------
\* The environment of the loop: Run, the context, and TakeLateItems of the
\* result that Wait returns.
Run ==
    /\ pc = "new"
    /\ pc' = "load"
    /\ started' = TRUE
    /\ UNCHANGED <<stopped, done, ctxDone, runErr, bufVars, lateVars,
                   envFrame>>

CancelCtx ==
    /\ CtxMayEnd
    /\ started
    /\ ~ctxDone
    /\ ctxDone' = TRUE
    /\ UNCHANGED <<pc, started, stopped, done, runErr, bufVars, lateVars,
                   envFrame>>

\* The monitor goroutine, started once the checkpoint is loaded.
CtxMonitor ==
    /\ ctxDone
    /\ pc \notin {"new", "load", "exited"}
    /\ runErr # "load"
    /\ ~bufClosed
    /\ Close
    /\ UNCHANGED <<loopVars, lateVars, envFrame>>

TakeLateItems ==
    /\ done
    /\ ~lateSealed
    /\ lateSealed' = TRUE
    /\ UNCHANGED <<lateItems, bufVars, loopVars, envFrame>>

-----------------------------------------------------------------------------
(***************************************************************************)
(* The loop goroutine.  pc names the next thing it does.  It leaves the    *)
(* callers, the late list and the stop timers alone.                       *)
(***************************************************************************)
goto(l) ==
    /\ pc' = l
    /\ UNCHANGED <<started, stopped, done, ctxDone>>

\* return from run: the deferred cleanup starts, with err in l.runErr.
exitWith(err) ==
    /\ goto("cleanup")
    /\ runErr' = err

\* tryLoadCheckpoint.  A checkpoint with runner state becomes the pending
\* resume; without one, only its unhandled items are put back.
tryLoadCheckpoint ==
    /\ pc = "load"
    /\ \/ /\ Persist /\ CallbacksMayFail
          /\ exitWith("load")
          /\ UNCHANGED <<bufVars, pendingResume, accepted>>
       \/ /\ ~(Persist /\ store.exists)
          /\ goto("top")
          /\ UNCHANGED <<runErr, bufVars, pendingResume, accepted>>
       \/ /\ Persist /\ store.exists
          /\ goto("top")
          /\ UNCHANGED runErr
          /\ IF store.bytes # {}
               THEN /\ pendingResume' = [interrupted |-> store.canceled,
                                         unhandled |-> store.unhandled,
                                         newItems |-> buf,
                                         bytes |-> store.bytes]
                    /\ TakeAll
                    /\ accepted' = store.canceled \o store.unhandled \o accepted
               ELSE /\ PushFront(store.unhandled)
                    /\ accepted' = store.unhandled \o accepted
                    /\ UNCHANGED pendingResume
    /\ UNCHANGED <<items, consumed, isResume, resumeBytes, idleTimer, handed,
                   preVars, ack, planFrame>>

\* The head of the for loop.
LoopTop ==
    /\ pc = "top"
    /\ IF isCommitted
         THEN exitWith("nil")
         ELSE /\ goto(IF pendingResume # NoResume THEN "resumeWait" ELSE "idleQuery")
              /\ UNCHANGED runErr
    /\ UNCHANGED <<bufVars, preVars, ack, planVars, idleTimer, history,
                   planFrame>>

\* waitForPushes, on both paths to a turn.
WaitForPushes ==
    /\ pc \in {"resumeWait", "pushWait"}
    /\ NoPushInFlight
    /\ goto(IF pc = "resumeWait" THEN "resumeTake" ELSE "takeRest")
    /\ UNCHANGED <<runErr, bufVars, preVars, ack, planVars, idleTimer,
                   history, planFrame>>

ResumeItems ==
    pendingResume.interrupted \o pendingResume.unhandled
      \o pendingResume.newItems \o buf

\* The pending resume takes what was pushed since the load.
ResumeTake ==
    /\ pc = "resumeTake"
    /\ TakeAll
    /\ items' = ResumeItems
    /\ consumed' = pendingResume.interrupted
    /\ isResume' = TRUE
    /\ resumeBytes' = pendingResume.bytes
    /\ pendingResume' = NoResume
    /\ goto("begin")
    /\ UNCHANGED <<runErr, preVars, ack, idleTimer, history, planFrame>>

\* An idle stop arms a timer for the coming Receive.
IdleQuery ==
    /\ pc = "idleQuery"
    /\ IF idleDuration > 0
         THEN /\ ClearWakeup
              /\ idleTimer' = TRUE
              /\ goto("receiveIdle")
         ELSE /\ goto("receive")
              /\ UNCHANGED <<bufVars, idleTimer>>
    /\ UNCHANGED <<runErr, preVars, ack, planVars, history, planFrame>>

\* Receive on either path; the idle path also stops its timer.
LoopReceive ==
    /\ pc \in {"receive", "receiveIdle"}
    /\ Receive
    /\ idleTimer' = FALSE
    /\ items' = IF buf = <<>> THEN <<>> ELSE <<Head(buf)>>
    /\ goto(IF buf # <<>> THEN "gotFirst"
            ELSE IF pc = "receive" THEN "recheckIdle" ELSE "recheckClosed")
    /\ UNCHANGED <<runErr, consumed, isResume, pendingResume, resumeBytes,
                   preVars, ack, history, planFrame>>

\* Receive gave no item: a wakeup goes back to the head of the loop, a close
\* ends it.
RecheckIdle ==
    /\ pc \in {"recheckIdle", "recheckClosed"}
    /\ IF \/ pc = "recheckIdle" /\ idleDuration > 0
          \/ pc = "recheckClosed" /\ ~bufClosed
         THEN goto("top") /\ UNCHANGED runErr
         ELSE exitWith(IF ctxDone THEN "ctx" ELSE "nil")
    /\ UNCHANGED <<bufVars, preVars, ack, planVars, idleTimer, history,
                   planFrame>>

\* Mutant: the items of a turn that is given up are lost.
GiveBack_Loses ==
    /\ items' = <<>>
    /\ UNCHANGED bufVars

\* PushFront(pushBack): what the loop holds goes back to the buffer.
GiveBack ==
    /\ PushFront(items)
    /\ items' = <<>>

\* The first item is put back if the context or a stop ends the loop.
GotFirst ==
    /\ pc = "gotFirst"
    /\ IF ctxDone \/ isCommitted
         THEN /\ GiveBack
              /\ exitWith(IF ctxDone THEN "ctx" ELSE "nil")
         ELSE /\ goto("pushWait")
              /\ UNCHANGED <<bufVars, items, runErr>>
    /\ UNCHANGED <<consumed, isResume, pendingResume, resumeBytes, preVars,
                   ack, idleTimer, history, planFrame>>

TakeRest ==
    /\ pc = "takeRest"
    /\ TakeAll
    /\ items' = items \o buf
    /\ goto("begin")
    /\ UNCHANGED <<consumed, isResume, pendingResume, resumeBytes, runErr,
                   preVars, ack, idleTimer, history, planFrame>>

BeginPlanning ==
    /\ pc = "begin"
    /\ turnID < MaxTurns
    /\ beginPlanningTurn
    /\ goto("plan")
    /\ UNCHANGED <<runErr, bufVars, ack, planVars, idleTimer, history,
                   planFrame>>

\* planTurn: GenInput or GenResume, callbacks of the user, fail or split the
\* items into a prefix to consume and the rest; a resumed turn consumes at
\* least the interrupted items.  Then isCommitted is looked at again.
planTurn ==
    /\ pc = "plan"
    /\ \/ /\ CallbacksMayFail
          /\ goto("abort")
          /\ runErr' = "plan"
          /\ UNCHANGED consumed
       \/ \E k \in 0..Len(items) :
            /\ k >= Len(consumed)
            /\ isResume \/ k > 0
            /\ consumed' = SubSeq(items, 1, k)
            /\ goto(IF isCommitted THEN "abort" ELSE "prepare")
            /\ UNCHANGED runErr
    /\ UNCHANGED <<items, isResume, pendingResume, resumeBytes, bufVars,
                   preVars, ack, idleTimer, history, planFrame>>

\* PrepareAgent, another look at isCommitted, and then what the turn does not
\* consume goes back to the buffer.
PrepareAgent ==
    /\ pc = "prepare"
    /\ \/ /\ CallbacksMayFail
          /\ goto("abort")
          /\ runErr' = "prepare"
          /\ UNCHANGED <<bufVars, items, handed>>
       \/ /\ isCommitted
          /\ goto("abort")
          /\ UNCHANGED <<runErr, bufVars, items, handed>>
       \/ /\ ~isCommitted
          /\ goto("activate")
          /\ PushFront(SubSeq(items, Len(consumed) + 1, Len(items)))
          /\ items' = <<>>
          /\ handed' = handed \o consumed
          /\ UNCHANGED runErr
    /\ UNCHANGED <<consumed, isResume, pendingResume, resumeBytes, accepted,
                   preVars, ack, idleTimer, planFrame>>

\* abortPlanning and PushFront(pushBack), on the four paths that give up.
AbortPlanning ==
    /\ pc = "abort"
    /\ abortPlanningTurn
    /\ GiveBack
    /\ consumed' = <<>>
    /\ isResume' = FALSE
    /\ resumeBytes' = {}
    /\ exitWith(runErr)
    /\ UNCHANGED <<pendingResume, idleTimer, history, planFrame>>

-----------------------------------------------------------------------------
\* runAgentAndHandleEvents.  Its two setup errors (a resume without a store
\* or without bytes) cannot arise: a pending resume comes from a store and
\* has bytes.
Activate ==
    /\ pc = "activate"
    /\ interruptCtx' = FALSE
    /\ captured' = FALSE
    /\ runnerBytes' = {}
    /\ bridge' = [bridge EXCEPT ![turnID] = resumeBytes]
    /\ preBeginActiveTurn
    /\ goto("launch")
    /\ UNCHANGED <<interruptedItems, unhandled, agent, events, handler,
                   preemptDone, stoppedDone, runErr, ack, stopVars, planVars,
                   watchVars, turnFrame>>

\* The stop controller learns of the turn; the agent, the handler and the
\* watchers start, unless Resume fails.
Launch ==
    /\ pc = "launch"
    /\ stopBeginActiveTurn
    /\ \/ /\ isResume /\ CallbacksMayFail
          /\ goto("endStop")
          /\ runErr' = "agent"
          /\ UNCHANGED <<agent, events, handler, watchP, watchS>>
       \/ /\ goto("wait")
          /\ agent' = [agent EXCEPT ![turnID] = "running"]
          /\ events' = [events EXCEPT ![turnID] = "open"]
          /\ handler' = [handler EXCEPT ![turnID] = "running"]
          /\ watchP' = [watchP EXCEPT ![turnID] = "wait"]
          /\ watchS' = [watchS EXCEPT ![turnID] = "poll"]
          /\ UNCHANGED runErr
    /\ UNCHANGED <<bridge, preemptDone, stoppedDone, watchReq, preVars, ack,
                   planVars, resultVars, turnFrame>>

\* Mutant: the bridge store is not read.
finalizeCheckpoint_Skips == UNCHANGED runnerBytes

\* The final select, once done is closed.  A preempted turn returns nil and
\* keeps nothing of the runner; any other end reads the bridge store and
\* reports the handler's error or a captured CancelError.  With both channels
\* closed, the select may take either.
finalizeCheckpoint ==
    runnerBytes' = IF Persist /\ bridge[turnID] # {} THEN bridge[turnID]
                   ELSE runnerBytes

applyFrameworkCapturedError ==
    IF handler[turnID] \notin {"nil", "early"} THEN handler[turnID]
    ELSE IF captured THEN "cancel" ELSE "nil"

TurnReturns ==
    /\ pc = "wait"
    /\ HandlerDone(turnID)
    /\ \/ /\ preemptDone[turnID]
          /\ UNCHANGED <<runErr, runnerBytes>>
       \/ /\ ~preemptDone[turnID] \/ stoppedDone[turnID]
          /\ finalizeCheckpoint
          /\ runErr' = applyFrameworkCapturedError
    /\ goto("endStop")
    /\ UNCHANGED <<captured, interruptCtx, interruptedItems, unhandled,
                   preVars, ack, stopVars, planVars, turnVars, watchVars,
                   turnFrame>>

EndStop ==
    /\ pc = "endStop"
    /\ stopEndActiveTurn
    /\ goto("endPreempt")
    /\ UNCHANGED <<runErr, preVars, ack, planVars, resultVars, turnVars,
                   watchVars, turnFrame>>

\* The deferred end of the turn, and what run does with its result.  The
\* variables of the turn's plan go out of scope.
EndPreempt ==
    /\ pc = "endPreempt"
    /\ preEndActiveTurn
    /\ IF runErr # "nil"
         THEN /\ exitWith(runErr)
              /\ interruptedItems' = IF captured \/ interruptCtx THEN consumed
                                     ELSE interruptedItems
       ELSE IF interruptCtx
         THEN /\ exitWith("interrupt")
              /\ interruptedItems' = consumed
       ELSE /\ goto("top")
            /\ UNCHANGED <<runErr, interruptedItems>>
    /\ consumed' = <<>>
    /\ isResume' = FALSE
    /\ resumeBytes' = {}
    /\ UNCHANGED <<captured, interruptCtx, runnerBytes, unhandled, items,
                   pendingResume, stopVars, turnVars, watchVars, turnFrame>>

-----------------------------------------------------------------------------
\* cleanup, step by step.
Cleanup ==
    /\ pc = "cleanup"
    /\ stopped' = TRUE
    /\ pc' = "takeUnhandled"
    /\ UNCHANGED <<started, done, ctxDone, runErr, bufVars, preVars, ack,
                   planVars, idleTimer, history, planFrame>>

TakeUnhandled ==
    /\ pc = "takeUnhandled"
    /\ unhandled' = buf
    /\ TakeAll
    /\ goto("persist")
    /\ UNCHANGED <<captured, interruptCtx, runnerBytes, interruptedItems,
                   runErr, preVars, ack, stopVars, planVars, idleTimer,
                   turnVars, watchVars, storeVars, history, others>>

isIdle == runnerBytes = {} /\ unhandled = <<>> /\ interruptedItems = <<>>
exitCausedByStop == runErr \in {"nil", "cancel"} \/ captured
businessInterrupt == runErr = "interrupt" \/ interruptCtx

shouldSaveCheckpoint ==
    /\ Persist
    /\ (isCommitted /\ exitCausedByStop) \/ businessInterrupt
    /\ ~isIdle
    /\ ~skipCheckpoint

\* The checkpoint is saved, or a loaded one is deleted: with a store and an
\* ID, l.loadCheckpointID is always set.  The store may refuse either.
PersistResult ==
    /\ pc = "persist"
    /\ \/ /\ CallbacksMayFail
          /\ UNCHANGED store
       \/ store' = IF shouldSaveCheckpoint
                     THEN [bytes |-> runnerBytes, unhandled |-> unhandled,
                           canceled |-> interruptedItems, exists |-> TRUE]
                     ELSE NoCheckpoint
    /\ goto("closeControllers")
    /\ UNCHANGED <<runs, runErr, bufVars, preVars, ack, stopVars, planVars,
                   resultVars, idleTimer, turnVars, watchVars, history,
                   others>>

CloseControllers ==
    /\ pc = "closeControllers"
    /\ stopCloseForLoopExit
    /\ preCloseForLoopExit
    /\ goto("closeBuffer")
    /\ UNCHANGED <<runErr, planVars, resultVars, turnVars, watchVars,
                   turnFrame>>

CloseBuffer ==
    /\ pc = "closeBuffer"
    /\ Close
    /\ pc' = "exited"
    /\ done' = TRUE
    /\ UNCHANGED <<started, stopped, ctxDone, runErr, preVars, ack, planVars,
                   idleTimer, history, planFrame>>

\* A new loop on the same store, once the callers of the old one returned.
\* Goroutines the old loop leaves behind hold the old loop only.
Restart ==
    /\ pc = "exited"
    /\ runs < MaxRuns
    /\ \A i \in Items : pushPC[i] \in {"ready", "returned"} /\ ~delayed[i]
    /\ \A t \in Turns : watchReq[t] = {}
    /\ buf' = <<>> /\ bufClosed' = FALSE /\ woken' = FALSE
    /\ turnPhase' = "idle" /\ turnID' = 0 /\ pushInFlight' = 0
    /\ pending' = {} /\ preNotify' = FALSE /\ preClosed' = FALSE
    /\ stopPhase' = "open" /\ hasActiveCancelTarget' = FALSE
    /\ stopPending' = FALSE /\ stopNotify' = FALSE /\ idleFor' = 0
    /\ skipCheckpoint' = FALSE /\ stopClosed' = FALSE
    /\ pc' = "new" /\ started' = FALSE /\ stopped' = FALSE /\ done' = FALSE
    /\ ctxDone' = FALSE /\ runErr' = "nil"
    /\ items' = <<>> /\ consumed' = <<>> /\ isResume' = FALSE
    /\ pendingResume' = NoResume /\ resumeBytes' = {}
    /\ captured' = FALSE /\ interruptCtx' = FALSE /\ runnerBytes' = {}
    /\ interruptedItems' = <<>> /\ unhandled' = <<>>
    /\ lateItems' = <<>> /\ lateSealed' = FALSE
    /\ idleTimer' = FALSE /\ firing' = 0 /\ finishing' = "none"
    /\ stopperPC' = [s \in Stoppers |-> "ready"]
    /\ timerOn' = [s \in Stoppers |-> FALSE]
    /\ agent' = PerTurn("none") /\ events' = PerTurn("none")
    /\ handler' = PerTurn("none") /\ bridge' = PerTurn({})
    /\ preemptDone' = PerTurn(FALSE) /\ stoppedDone' = PerTurn(FALSE)
    /\ watchP' = PerTurn("none") /\ watchReq' = PerTurn({})
    /\ watchS' = PerTurn("none")
    /\ accepted' = <<>> /\ handed' = <<>>
    /\ runs' = runs + 1
    /\ target' = [i \in Items |-> 0]
    /\ UNCHANGED <<pushPC, pushMode, inPush, ret, delayed, ack, stopCfg, store>>

LoopStep ==
    \/ tryLoadCheckpoint \/ LoopTop \/ WaitForPushes \/ ResumeTake
    \/ IdleQuery \/ LoopReceive \/ RecheckIdle \/ GotFirst \/ TakeRest
    \/ BeginPlanning \/ planTurn \/ PrepareAgent \/ AbortPlanning
    \/ Activate \/ Launch \/ TurnReturns \/ EndStop \/ EndPreempt
    \/ Cleanup \/ TakeUnhandled \/ PersistResult \/ CloseControllers
    \/ CloseBuffer

-----------------------------------------------------------------------------
(***************************************************************************)
(* The turn's own goroutines.  The agent is external: it ends normally     *)
(* ("ok"), with an error ("err"), with an interrupt action that names its  *)
(* contexts ("interrupt") or with one the runner rebuilds ("internal"); a  *)
(* cancelled one may end with a CancelError ("cancel").  The runner saves  *)
(* its state in the bridge store for the last two.                         *)
(***************************************************************************)
AgentEnds(t) ==
    /\ events[t] = "open"
    /\ \E o \in AgentOutcomes :
         /\ o = "cancel" => agent[t] = "cancelling"
         /\ o = "internal" => agent[t] = "running"
         /\ events' = [events EXCEPT ![t] = o]
         /\ agent' = [agent EXCEPT ![t] = IF o = "cancel" THEN "handled" ELSE @]
         /\ bridge' = [bridge EXCEPT ![t] =
              IF Persist /\ o \in {"cancel", "internal"}
                THEN @ \cup ItemsOf(consumed) ELSE @]
    /\ UNCHANGED <<handler, preemptDone, stoppedDone, preVars, ack, stopVars,
                   captured, interruptCtx, watchVars, agentFrame>>

\* wrapIterWithCancelCtx marks the context done after it closed the stream.
MarkDone(t) ==
    /\ events[t] \in Outcomes
    /\ agent[t] \in {"running", "cancelling"}
    /\ agent' = [agent EXCEPT ![t] = "done"]
    /\ UNCHANGED <<events, handler, bridge, preemptDone, stoppedDone, preVars,
                   ack, stopVars, captured, interruptCtx, watchVars,
                   agentFrame>>

\* The proxy goroutine writes what it sees into the loop; the handler then
\* gets the event and returns.  The default handler returns the event's error;
\* one of the user may ignore it or fail by itself.
ProxyCaptures(t) ==
    /\ captured' = (captured \/ events[t] = "cancel")
    /\ interruptCtx' = IF events[t] = "internal" THEN FALSE
                       ELSE (interruptCtx \/ events[t] = "interrupt")

HandlerErrors(o) ==
    (CASE o = "cancel" -> {"cancel"} [] o = "err" -> {"agent"} [] OTHER -> {"nil"})
    \cup (IF CallbacksMayFail THEN {"nil", "agent"} ELSE {})

HandlerReturns(t) ==
    /\ handler[t] = "running"
    /\ events[t] \in Outcomes
    /\ ProxyCaptures(t)
    /\ \E e \in HandlerErrors(events[t]) : handler' = [handler EXCEPT ![t] = e]
    /\ UNCHANGED <<agent, events, bridge, preemptDone, stoppedDone, preVars,
                   ack, stopVars, watchVars, agentFrame>>

\* A handler of the user may return before the stream ends; the proxy goes on
\* and still writes into the loop when the stream ends.
HandlerReturnsEarly(t) ==
    /\ EarlyReturn
    /\ handler[t] = "running"
    /\ events[t] = "open"
    /\ handler' = [handler EXCEPT ![t] = "early"]
    /\ UNCHANGED <<agent, events, bridge, preemptDone, stoppedDone, preVars,
                   ack, stopVars, captured, interruptCtx, watchVars,
                   agentFrame>>

ProxyLate(t) ==
    /\ handler[t] = "early"
    /\ events[t] \in Outcomes
    /\ ProxyCaptures(t)
    /\ handler' = [handler EXCEPT ![t] = "nil"]
    /\ UNCHANGED <<agent, events, bridge, preemptDone, stoppedDone, preVars,
                   ack, stopVars, watchVars, agentFrame>>

\* agentCancelFunc of turn t: whether the call contributes, and its effect.
Contributes(t) == agent[t] \in {"running", "cancelling"}

agentCancelFunc(t) ==
    agent' = [agent EXCEPT ![t] = IF Contributes(t) THEN "cancelling" ELSE @]

\* watchPreempt: at its select it sees done or takes the token, whichever it
\* picks; then it takes the request, cancels the agent, closes preemptDone if
\* the call contributed, and answers.
watchPreempt(t) ==
    \/ /\ watchP[t] = "wait"
       /\ HandlerDone(t)
       /\ watchP' = [watchP EXCEPT ![t] = "gone"]
       /\ UNCHANGED <<preVars, ack, watchReq, agent, preemptDone>>
    \/ /\ watchP[t] = "wait"
       /\ preNotify
       /\ preNotify' = FALSE
       /\ watchP' = [watchP EXCEPT ![t] = "notified"]
       /\ UNCHANGED <<turnPhase, turnID, pushInFlight, pending, preClosed>>
       /\ UNCHANGED <<ack, watchReq, agent, preemptDone>>
    \/ /\ watchP[t] = "notified"
       /\ receivePreempt
       /\ watchReq' = [watchReq EXCEPT ![t] =
                         IF CanReceivePreempt THEN pending ELSE {}]
       /\ watchP' = [watchP EXCEPT ![t] =
                       IF CanReceivePreempt THEN "cancel" ELSE "wait"]
       /\ UNCHANGED <<ack, agent, preemptDone>>
    \/ /\ watchP[t] = "cancel"
       /\ agentCancelFunc(t)
       /\ watchP' = [watchP EXCEPT ![t] =
                       IF Contributes(t) THEN "contributed" ELSE "answer"]
       /\ UNCHANGED <<preVars, ack, watchReq, preemptDone>>
    \/ /\ watchP[t] \in {"contributed", "answer"}
       /\ preemptDone' = [preemptDone EXCEPT ![t] =
                            @ \/ watchP[t] = "contributed"]
       /\ ack' = Acked(watchReq[t])
       /\ watchReq' = [watchReq EXCEPT ![t] = {}]
       /\ watchP' = [watchP EXCEPT ![t] = "wait"]
       /\ UNCHANGED <<preVars, agent>>

WatchPreempt(t) ==
    /\ watchPreempt(t)
    /\ UNCHANGED <<stopVars, watchS, events, handler, bridge, stoppedDone,
                   captured, interruptCtx, agentFrame>>

\* watchStop polls for a request before it waits for done or a token.
watchStop(t) ==
    \/ /\ watchS[t] = "poll"
       /\ receiveCancel
       /\ watchS' = [watchS EXCEPT ![t] =
                       IF CanReceiveCancel THEN "cancel" ELSE "wait"]
       /\ UNCHANGED <<agent, stoppedDone>>
    \/ /\ watchS[t] = "cancel"
       /\ agentCancelFunc(t)
       /\ watchS' = [watchS EXCEPT ![t] =
                       IF Contributes(t) THEN "contributed" ELSE "poll"]
       /\ UNCHANGED <<stopVars, stoppedDone>>
    \/ /\ watchS[t] = "contributed"
       /\ stoppedDone' = [stoppedDone EXCEPT ![t] = TRUE]
       /\ watchS' = [watchS EXCEPT ![t] = "poll"]
       /\ UNCHANGED <<stopVars, agent>>
    \/ /\ watchS[t] = "wait"
       /\ HandlerDone(t)
       /\ watchS' = [watchS EXCEPT ![t] = "gone"]
       /\ UNCHANGED <<stopVars, agent, stoppedDone>>
    \/ /\ watchS[t] = "wait"
       /\ stopNotify
       /\ stopNotify' = FALSE
       /\ watchS' = [watchS EXCEPT ![t] = "poll"]
       /\ UNCHANGED <<stopPhase, hasActiveCancelTarget, stopPending, idleFor,
                      skipCheckpoint, stopClosed, agent, stoppedDone>>

WatchStop(t) ==
    /\ watchStop(t)
    /\ UNCHANGED <<preVars, ack, watchP, watchReq, events, handler, bridge,
                   preemptDone, captured, interruptCtx, agentFrame>>

-----------------------------------------------------------------------------
HandlerStep(t) == HandlerReturns(t) \/ HandlerReturnsEarly(t) \/ ProxyLate(t)

Next ==
    \/ \E i \in Items : PushCall(i) \/ PushStep(i) \/ DelayFires(i)
    \/ \E s \in Stoppers : StopCall(s) \/ StopWake(s) \/ StopTimeout(s)
    \/ IdleTimerFires \/ IdleCommit \/ finishStopCommit
    \/ Run \/ CancelCtx \/ CtxMonitor \/ TakeLateItems \/ Restart
    \/ LoopStep
    \/ \E t \in Turns : \/ AgentEnds(t) \/ MarkDone(t) \/ HandlerStep(t)
                        \/ WatchPreempt(t) \/ WatchStop(t)

Spec == Init /\ [][Next]_vars

-----------------------------------------------------------------------------
(***************************************************************************)
(* Fairness.  Goroutines are scheduled, timers fire and callbacks return;  *)
(* nobody has to call Push, Stop, Run or TakeLateItems, and nothing forces *)
(* a handler to return early.  An agent that has been cancelled ends; that *)
(* every agent ends is a hypothesis of the properties that need it.        *)
(***************************************************************************)
GoroutinesRun ==
    /\ WF_vars(LoopStep)
    /\ WF_vars(IdleTimerFires) /\ WF_vars(IdleCommit) /\ WF_vars(finishStopCommit)
    /\ WF_vars(CtxMonitor)
    /\ \A i \in Items : WF_vars(PushStep(i)) /\ WF_vars(DelayFires(i))
    /\ \A s \in Stoppers : WF_vars(StopWake(s)) /\ WF_vars(StopTimeout(s))
    /\ \A t \in Turns :
         /\ WF_vars(MarkDone(t))
         /\ WF_vars(HandlerReturns(t))
         /\ WF_vars(WatchPreempt(t))
         /\ WF_vars(WatchStop(t))

CancelledAgentsEnd ==
    \A t \in Turns : WF_vars(agent[t] = "cancelling" /\ AgentEnds(t))

AgentsEnd == \A t \in Turns : WF_vars(AgentEnds(t))

\* Agents may run forever unless cancelled.
CancelSpec == Spec /\ GoroutinesRun /\ CancelledAgentsEnd

-----------------------------------------------------------------------------
(***************************************************************************)
(* What the AgentLoop promises.                                            *)
(***************************************************************************)
LoopPCs ==
    {"new", "load", "top", "resumeWait", "resumeTake", "idleQuery", "receive",
     "receiveIdle", "recheckIdle", "recheckClosed", "gotFirst", "pushWait",
     "takeRest", "begin", "plan", "prepare", "abort", "activate", "launch",
     "wait", "endStop", "endPreempt", "cleanup", "takeUnhandled", "persist",
     "closeControllers", "closeBuffer", "exited"}

RunErrors ==
    {"nil", "load", "ctx", "plan", "prepare", "agent", "cancel", "interrupt"}

Checkpoints == [bytes : SUBSET Items, unhandled : Seq(Items),
                canceled : Seq(Items), exists : BOOLEAN]

Resumes == [interrupted : Seq(Items), unhandled : Seq(Items),
            newItems : Seq(Items), bytes : SUBSET Items]

\* The buffer and the controllers hold values of their kinds.
BufTypeOK ==
    /\ buf \in Seq(Items) /\ bufClosed \in BOOLEAN /\ woken \in BOOLEAN

PreTypeOK ==
    /\ turnPhase \in {"idle", "planning", "active"}
    /\ turnID \in 0..MaxTurns
    /\ pushInFlight \in Int
    /\ pending \in SUBSET Items
    /\ preNotify \in BOOLEAN /\ preClosed \in BOOLEAN
    /\ ack \in [Items -> {"none", "open", "closed", "panic"}]

StopTypeOK ==
    /\ stopPhase \in {"open", "idleWaiting", "committed"}
    /\ hasActiveCancelTarget \in BOOLEAN /\ stopPending \in BOOLEAN
    /\ stopNotify \in BOOLEAN /\ idleFor \in Nat
    /\ skipCheckpoint \in BOOLEAN /\ stopClosed \in BOOLEAN

\* So do the variables of the loop goroutine, the timers and the store ...
ControlTypeOK ==
    /\ pc \in LoopPCs
    /\ started \in BOOLEAN /\ stopped \in BOOLEAN /\ done \in BOOLEAN
    /\ ctxDone \in BOOLEAN /\ runErr \in RunErrors
    /\ lateItems \in Seq(Items) /\ lateSealed \in BOOLEAN
    /\ idleTimer \in BOOLEAN /\ firing \in Nat
    /\ finishing \in {"none", "store", "close", "finished"}

PlanTypeOK ==
    /\ items \in Seq(Items) /\ consumed \in Seq(Items) /\ isResume \in BOOLEAN
    /\ pendingResume \in Resumes /\ resumeBytes \in SUBSET Items

ResultTypeOK ==
    /\ captured \in BOOLEAN /\ interruptCtx \in BOOLEAN
    /\ runnerBytes \in SUBSET Items
    /\ interruptedItems \in Seq(Items) /\ unhandled \in Seq(Items)

StoreTypeOK ==
    /\ store \in Checkpoints /\ runs \in Nat
    /\ accepted \in Seq(Items) /\ handed \in Seq(Items)

\* ... and those of the callers and of the turns.
CallersTypeOK ==
    /\ pushPC \in [Items -> {"ready", "begin", "check", "send", "late",
                             "request", "end", "returned"}]
    /\ pushMode \in [Items -> PushOptions]
    /\ target \in [Items -> 0..MaxTurns]
    /\ inPush \in [Items -> BOOLEAN]
    /\ ret \in [Items -> {"none", "true", "false", "panic"}]
    /\ delayed \in [Items -> BOOLEAN]
    /\ stopperPC \in [Stoppers -> {"ready", "wake", "returned"}]
    /\ stopCfg \in [Stoppers -> StopConfigs]
    /\ timerOn \in [Stoppers -> BOOLEAN]

TurnsTypeOK ==
    /\ agent \in [Turns -> {"none", "running", "cancelling", "handled", "done"}]
    /\ events \in [Turns -> {"none", "open"} \cup Outcomes]
    /\ handler \in [Turns -> {"none", "running", "nil", "early", "agent", "cancel"}]
    /\ bridge \in [Turns -> SUBSET Items]
    /\ preemptDone \in [Turns -> BOOLEAN]
    /\ stoppedDone \in [Turns -> BOOLEAN]
    /\ watchP \in [Turns -> {"none", "wait", "notified", "cancel",
                             "contributed", "answer", "gone"}]
    /\ watchReq \in [Turns -> SUBSET Items]
    /\ watchS \in [Turns -> {"none", "poll", "cancel", "contributed", "wait",
                             "gone"}]

\* The type invariant of the loop's state (struct AgentLoop and its parts).
TypeOK ==
    /\ BufTypeOK /\ PreTypeOK /\ StopTypeOK
    /\ ControlTypeOK /\ PlanTypeOK /\ ResultTypeOK /\ StoreTypeOK
    /\ CallersTypeOK /\ TurnsTypeOK

-----------------------------------------------------------------------------
\* The phase the preempt controller must be in where the loop calls it.
PhaseAt(l) ==
    CASE l \in {"plan", "prepare", "abort", "activate"} -> "planning"
      [] l \in {"launch", "wait", "endStop", "endPreempt"} -> "active"
      [] OTHER -> "idle"

\* No panic: the loop calls the preempt controller only in the phase each
\* method requires (requirePhaseLocked), a turn is never planned over a stale
\* request (requireNoPendingLocked), endPush always has its beginPush, and no
\* acknowledgement channel is closed twice.
NoPanic ==
    /\ turnPhase = PhaseAt(pc)
    /\ pc = "begin" => pending = {}
    /\ \A i \in Items : pushPC[i] = "end" => pushInFlight > 0
    /\ \A i \in Items : ack[i] # "panic"

\* Preempt requests are turn-targeted: whatever waits in the controller was
\* pushed while the very turn that is now being planned or run was current,
\* however long its delay was (requestPreempt).
PendingTargetsTurn ==
    \A i \in pending : turnPhase # "idle" /\ target[i] = turnID

\* Every acknowledgement that a Push handed out and that is not closed has
\* one holder that will close it: the push itself, its delay goroutine, the
\* pending request, or one watcher.
Watching(i) == {t \in Turns : i \in watchReq[t]}

OneHolder(i) ==
    LET atPush == pushPC[i] = "request"
        waits == i \in pending
    IN  /\ ack[i] = "open" <=> (atPush \/ delayed[i] \/ waits \/ Watching(i) # {})
        /\ ~(atPush /\ delayed[i]) /\ ~(atPush /\ waits) /\ ~(delayed[i] /\ waits)
        /\ Watching(i) # {} => ~atPush /\ ~delayed[i] /\ ~waits
        /\ \A t, u \in Watching(i) : t = u

AckHasOneHolder == \A i \in Items : OneHolder(i)

\* No accepted item is lost, duplicated or reordered inside the loop: the
\* items given to turns, those of a pending resume, those the exit reports as
\* unhandled, those in the loop's hands and those in the buffer are, in
\* this order, the accepted ones (Receive, TakeAll, PushFront and the abort
\* paths of run).
ItemsConserved ==
    accepted = handed \o pendingResume.interrupted \o pendingResume.unhandled
                 \o pendingResume.newItems \o unhandled \o items \o buf

\* A Push reports what became of its item: true for an accepted one, false
\* for one in the late list, which is in nobody else's hands.
PushReportsItem ==
    \A i \in Items : pushPC[i] \in {"end", "returned"} /\ runs = 1 =>
        /\ ret[i] = "true" <=> i \in ItemsOf(accepted)
        /\ ret[i] = "false" <=> i \in ItemsOf(lateItems)

\* Once Stop has committed, no turn of this loop runs that was not activated
\* before, whether it is yet to be planned or is being planned: it is given up
\* at the next look at isCommitted.
NotActivated(t) == turnID < t \/ (turnID = t /\ pc \in {"plan", "prepare", "abort"})

StopPreventsNewTurns ==
    \A t \in Turns, r \in 1..MaxRuns :
        [](stopPhase = "committed" /\ runs = r /\ NotActivated(t)
             => [](turnID >= t /\ runs = r => turnPhase # "active"))

\* A turn that a stop cancelled, and no preempt, and whose handler passes the
\* CancelError on is saved whole, unless the store refuses: the runner state in
\* the store is the one its runner left in the bridge store, and the items
\* reported as interrupted are items that state holds, so that the next loop
\* on this checkpoint resumes them; a failure leaves the checkpoint there was
\* (finalizeCheckpoint, cleanup, tryLoadCheckpoint).
CancelledTurnIsSaved ==
    [][(/\ pc = "persist" /\ turnID > 0 /\ ~skipCheckpoint
        /\ Persist /\ isCommitted /\ ~preemptDone[turnID]
        /\ events[turnID] = "cancel" /\ handler[turnID] = "cancel"
        /\ store' # store \/ ~CallbacksMayFail)
         => /\ store'.exists /\ store'.bytes = bridge[turnID]
            /\ ItemsOf(store'.canceled) \subseteq store'.bytes]_<<pc, store>>

\* Every acknowledgement channel is eventually closed.
AckEventually == \A i \in Items : ack[i] = "open" ~> ack[i] = "closed"

\* If agents end, every accepted item of a started loop reaches a turn or the
\* loop is over (stopped, or ended by a failed turn): a push in its critical
\* section holds up the next turn only for a while (waitForPushes, endPush).
EveryItemServed ==
    AgentsEnd =>
      \A i \in Items : (started /\ i \in ItemsOf(accepted))
                         ~> (i \in ItemsOf(handed) \/ isCommitted \/ done)

\* If agents end, a stop of any kind ends a started loop.
StopTerminates ==
    AgentsEnd => \A s \in Stoppers : (stopperPC[s] # "ready" /\ started) ~> done

\* A stop that cancels the active turn ends a started loop even if agents end
\* only when they are cancelled (watchStop).
CancellingStopTerminates ==
    \A s \in Stoppers :
        (stopperPC[s] # "ready" /\ stopCfg[s].kind = "cancel" /\ started) ~> done
=============================================================================
