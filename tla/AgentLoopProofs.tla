--------------------------- MODULE AgentLoopProofs ---------------------------
(***************************************************************************)
(* Proofs about AgentLoop for every set of items, every bound on turns and *)
(* loops and every choice of options: the type invariant, NoPanic,         *)
(* PendingTargetsTurn and AckHasOneHolder; and what becomes of items, of   *)
(* cancelled turns and of committed stops: the loop loses, duplicates and  *)
(* reorders no accepted item, Push reports the truth, a cancelled turn is  *)
(* saved and a stop prevents further turns.                                *)
(***************************************************************************)
EXTENDS AgentLoop, FiniteSetTheorems, SequenceTheorems, TLAPS

-----------------------------------------------------------------------------
\* The inductive invariant.

\* The loop is where the preempt controller's phase says, and a turn that is
\* planned or run has a number.
PhaseOK == turnPhase = PhaseAt(pc)
TurnNumbered == turnPhase # "idle" => turnID > 0

\* Where a Push is inside the critical section, and where it has no channel.
InSection(i) ==
    /\ pushPC[i] \in {"ready", "begin", "returned"} => ~inPush[i]
    /\ pushPC[i] \in {"check", "request", "end"} => inPush[i]
    /\ pushPC[i] = "send" /\ pushMode[i].preempt => inPush[i]
PushSections == \A i \in Items : InSection(i)

\* The controller counts the pushes inside their critical section.
PushesIn == {i \in Items : inPush[i]}
InFlightCounts == pushInFlight = Cardinality(PushesIn)

NoChannelYet ==
    \A i \in Items :
        /\ pushPC[i] \in {"ready", "begin", "check", "send", "late"}
             => ack[i] = "none"
        /\ ack[i] # "panic"

\* A watcher holds a request only between taking and answering it, and the
\* watchers of turns to come have not started.
ToCome(t) ==
    \/ t > turnID
    \/ t = turnID /\ pc \in {"plan", "prepare", "abort", "activate", "launch"}
WatchersOK ==
    \A t \in Turns :
        /\ watchReq[t] # {} => watchP[t] \in {"cancel", "contributed", "answer"}
        /\ ToCome(t) => watchP[t] = "none"

IInv ==
    /\ TypeOK
    /\ PhaseOK /\ TurnNumbered /\ PendingTargetsTurn
    /\ PushSections /\ InFlightCounts
    /\ NoChannelYet /\ AckHasOneHolder /\ WatchersOK
-----------------------------------------------------------------------------
\* Frames: what each kind of step leaves alone.

\* A step of Push or of its delay goroutine leaves pushFrame alone.
LEMMA PushFrame ==
    ASSUME NEW i \in Items, PushCall(i) \/ PushStep(i) \/ DelayFires(i)
    PROVE  UNCHANGED pushFrame
  BY DEF PushCall, PushStep, DelayFires, PushBegin, PushSend, PushLate,
         PushRequest, PushEnd

\* A step of Stop, of its timers or of finishStopCommit leaves stopFrame alone.
LEMMA StopFrame ==
    ASSUME \/ \E s \in Stoppers : StopCall(s) \/ StopWake(s) \/ StopTimeout(s)
           \/ IdleTimerFires \/ IdleCommit \/ finishStopCommit
    PROVE  UNCHANGED stopFrame
  BY DEF StopCall, StopWake, StopTimeout, IdleTimerFires, IdleCommit,
         finishStopCommit

\* A step of the environment leaves envFrame alone.
LEMMA EnvFrame ==
    ASSUME Run \/ CancelCtx \/ CtxMonitor \/ TakeLateItems
    PROVE  UNCHANGED envFrame
  BY DEF Run, CancelCtx, CtxMonitor, TakeLateItems

\* The loop goroutine leaves the callers, the late list and the timers alone.
LEMMA LoopFrame ==
    ASSUME LoopStep
    PROVE  UNCHANGED others
  BY DEF LoopStep, tryLoadCheckpoint, LoopTop, WaitForPushes, ResumeTake,
         IdleQuery, LoopReceive, RecheckIdle, GotFirst, TakeRest,
         BeginPlanning, planTurn, PrepareAgent, AbortPlanning, Activate,
         Launch, TurnReturns, EndStop, EndPreempt, Cleanup, TakeUnhandled,
         PersistResult, CloseControllers, CloseBuffer, planFrame, turnFrame

TurnStep(t) == \/ AgentEnds(t) \/ MarkDone(t) \/ HandlerStep(t)
               \/ WatchPreempt(t) \/ WatchStop(t)

\* A turn's goroutines leave agentFrame alone.
LEMMA TurnFrame ==
    ASSUME NEW t \in Turns, TurnStep(t)
    PROVE  UNCHANGED agentFrame
  BY DEF TurnStep, AgentEnds, MarkDone, HandlerStep, HandlerReturns,
         HandlerReturnsEarly, ProxyLate, WatchPreempt, WatchStop

\* The kinds of steps of the specification.
PushKind == \E i \in Items : PushCall(i) \/ PushStep(i) \/ DelayFires(i)
StopKind == \/ \E s \in Stoppers : StopCall(s) \/ StopWake(s) \/ StopTimeout(s)
            \/ IdleTimerFires \/ IdleCommit \/ finishStopCommit
EnvKind == Run \/ CancelCtx \/ CtxMonitor \/ TakeLateItems
TurnKind == \E t \in Turns : TurnStep(t)

\* Every step is of one of these kinds.
LEMMA NextKinds ==
    ASSUME [Next]_vars
    PROVE  \/ PushKind \/ StopKind \/ EnvKind \/ Restart \/ LoopStep \/ TurnKind
           \/ UNCHANGED vars
  BY DEF Next, PushKind, StopKind, EnvKind, TurnKind, TurnStep

-----------------------------------------------------------------------------
\* Type correctness, one part at a time.

PushPCs == {"ready", "begin", "check", "send", "late", "request", "end",
            "returned"}

\* beginPush leaves the variables of the pushes with their types.
LEMMA EnterPushType ==
    ASSUME TypeOK, NEW i \in Items, NEW m, EnterPush(i, m)
    PROVE  /\ pushPC' \in [Items -> PushPCs]
           /\ target' \in [Items -> 0..MaxTurns]
           /\ inPush' \in [Items -> BOOLEAN]
<1>1. TargetTurn \in 0..MaxTurns
  BY ConstantsAssumption DEF TypeOK, PreTypeOK, TargetTurn
<1> QED
  BY <1>1 DEF TypeOK, CallersTypeOK, EnterPush, PushPCs

\* The callers of Push and Stop keep their types.
LEMMA CallersTypeNext ==
    ASSUME TypeOK, [Next]_vars
    PROVE  CallersTypeOK'
<1> USE DEF TypeOK, pushVars, stopperVars
<1>0. MaxTurns \in Nat
  BY ConstantsAssumption
<1>1. CASE UNCHANGED <<pushVars, stopperVars>>
  BY <1>1 DEF CallersTypeOK
<1>2. ASSUME NEW i \in Items, PushCall(i) PROVE CallersTypeOK'
  <2>1. PICK m \in PushModes[i] :
          /\ pushMode' = [pushMode EXCEPT ![i] = m]
          /\ IF m.strategy THEN EnterPush(i, m) ELSE CheckStopped(i, m)
    BY <1>2 DEF PushCall
  <2>2. m \in PushOptions
    BY ConstantsAssumption
  <2>3. UNCHANGED <<ret, delayed, stopperPC, stopCfg, timerOn>>
    BY <1>2 DEF PushCall, pushFrame
  <2>4. pushMode' \in [Items -> PushOptions]
    BY <2>1, <2>2 DEF CallersTypeOK
  <2>5. CASE m.strategy
    BY <2>1, <2>3, <2>4, <2>5, EnterPushType DEF CallersTypeOK, PushPCs
  <2>6. CASE ~m.strategy
    BY <2>1, <2>3, <2>4, <2>6 DEF CallersTypeOK, CheckStopped
  <2> QED BY <2>5, <2>6
<1>3. ASSUME NEW i \in Items, PushStep(i) \/ DelayFires(i) PROVE CallersTypeOK'
  <2>0. UNCHANGED stopperVars
    BY <1>3, PushFrame DEF pushFrame
  <2>1. CASE PushBegin(i)
    <3>1. CASE EnterPush(i, pushMode[i])
      BY <2>0, <2>1, <3>1, EnterPushType DEF CallersTypeOK, PushPCs, PushBegin
    <3>2. CASE CheckStopped(i, pushMode[i])
      BY <2>0, <2>1, <3>2 DEF CallersTypeOK, PushBegin, CheckStopped
    <3> QED BY <2>1, <3>1, <3>2 DEF PushBegin
  <2>2. CASE PushSend(i)
    <3>1. pushMode[i].delay \in BOOLEAN
      BY DEF CallersTypeOK, PushOptions
    <3> QED BY <2>0, <2>2, <3>1 DEF CallersTypeOK, PushSend, AfterPush
  <2>3. CASE PushLate(i)
    BY <2>0, <2>3 DEF CallersTypeOK, PushLate, AfterPush
  <2>4. CASE PushRequest(i) \/ PushEnd(i)
    BY <2>0, <2>4 DEF CallersTypeOK, PushRequest, PushEnd
  <2>5. CASE DelayFires(i)
    BY <2>0, <2>5 DEF CallersTypeOK, DelayFires
  <2> QED BY <1>3, <2>1, <2>2, <2>3, <2>4, <2>5 DEF PushStep
<1>4. CASE StopKind
  <2>0. UNCHANGED pushVars
    BY <1>4, StopFrame DEF StopKind, stopFrame
  <2>1. ASSUME NEW s \in Stoppers, StopCall(s) PROVE CallersTypeOK'
    <3>1. PICK c \in StopOptions[s] :
            /\ stopCfg' = [stopCfg EXCEPT ![s] = c]
            /\ stopperPC' = [stopperPC EXCEPT ![s] =
                               IF DecisionWakeIdle(c) THEN "wake" ELSE "returned"]
            /\ timerOn' = [timerOn EXCEPT ![s] = c.timeout]
      BY <2>1 DEF StopCall
    <3>2. c \in StopConfigs
      BY ConstantsAssumption
    <3>3. c.timeout \in BOOLEAN
      BY <3>2 DEF StopConfigs
    <3> QED BY <2>0, <3>1, <3>2, <3>3 DEF CallersTypeOK
  <2>2. ASSUME NEW s \in Stoppers, StopWake(s) \/ StopTimeout(s)
        PROVE  CallersTypeOK'
    BY <2>0, <2>2 DEF CallersTypeOK, StopWake, StopTimeout
  <2>3. CASE IdleTimerFires \/ IdleCommit \/ finishStopCommit
    BY <2>0, <2>3 DEF CallersTypeOK, IdleTimerFires, IdleCommit,
                      finishStopCommit
  <2> QED BY <1>4, <2>1, <2>2, <2>3 DEF StopKind
<1>5. CASE Restart
  BY <1>0, <1>5 DEF CallersTypeOK, Restart
<1>6. CASE EnvKind
  BY <1>1, <1>6, EnvFrame DEF EnvKind, envFrame
<1>7. CASE LoopStep
  BY <1>1, <1>7, LoopFrame DEF others
<1>8. CASE TurnKind
  BY <1>1, <1>8, TurnFrame DEF TurnKind, agentFrame
<1>9. CASE UNCHANGED vars
  BY <1>1, <1>9 DEF vars
<1> QED
  BY <1>2, <1>3, <1>4, <1>5, <1>6, <1>7, <1>8, <1>9, NextKinds DEF PushKind

\* Only two steps of the loop touch the state of a turn.
LEMMA LoopTurnFrame ==
    ASSUME LoopStep
    PROVE  UNCHANGED <<turnVars, watchVars>> \/ Activate \/ Launch
  BY DEF LoopStep, tryLoadCheckpoint, LoopTop, WaitForPushes, ResumeTake,
         IdleQuery, LoopReceive, RecheckIdle, GotFirst, TakeRest,
         BeginPlanning, planTurn, PrepareAgent, AbortPlanning,
         TurnReturns, EndStop, EndPreempt, Cleanup, TakeUnhandled,
         PersistResult, CloseControllers, CloseBuffer, planFrame

\* The elements of a sequence of items are items.
LEMMA ItemsOfType ==
    ASSUME NEW s \in Seq(Items)
    PROVE  ItemsOf(s) \subseteq Items
  BY DEF ItemsOf

\* The state of the turns and of their watchers keeps its type.
LEMMA TurnsTypeNext ==
    ASSUME TypeOK, [Next]_vars
    PROVE  TurnsTypeOK'
<1> USE DEF TypeOK, turnVars, watchVars
<1>1. CASE UNCHANGED <<turnVars, watchVars>>
  BY <1>1 DEF TurnsTypeOK
<1>2. CASE Activate
  BY <1>2 DEF TurnsTypeOK, PlanTypeOK, Activate
<1>3. CASE Launch
  BY <1>3 DEF TurnsTypeOK, Launch
<1>4. CASE Restart
  BY <1>4 DEF TurnsTypeOK, Restart, PerTurn
<1>5. ASSUME NEW t \in Turns, AgentEnds(t) \/ MarkDone(t) PROVE TurnsTypeOK'
  <2>1. ItemsOf(consumed) \subseteq Items
    BY ItemsOfType DEF PlanTypeOK
  <2>2. CASE AgentEnds(t)
    BY <2>1, <2>2, ConstantsAssumption DEF TurnsTypeOK, AgentEnds
  <2>3. CASE MarkDone(t)
    BY <2>3 DEF TurnsTypeOK, MarkDone
  <2> QED BY <1>5, <2>2, <2>3
<1>6. ASSUME NEW t \in Turns, HandlerStep(t) PROVE TurnsTypeOK'
  <2>1. HandlerErrors(events[t]) \subseteq {"nil", "agent", "cancel"}
    BY DEF HandlerErrors
  <2>2. CASE HandlerReturns(t)
    BY <2>1, <2>2 DEF TurnsTypeOK, HandlerReturns
  <2>3. CASE HandlerReturnsEarly(t) \/ ProxyLate(t)
    BY <2>3 DEF TurnsTypeOK, HandlerReturnsEarly, ProxyLate
  <2> QED BY <1>6, <2>2, <2>3 DEF HandlerStep
<1>7. ASSUME NEW t \in Turns, WatchPreempt(t) PROVE TurnsTypeOK'
  <2>1. UNCHANGED <<events, handler, bridge, stoppedDone, watchS>>
    BY <1>7 DEF WatchPreempt
  <2>2. agent' = agent \/ agentCancelFunc(t)
    BY <1>7 DEF WatchPreempt, watchPreempt
  <2>3. agent' \in [Turns -> {"none", "running", "cancelling", "handled", "done"}]
    BY <2>2 DEF TurnsTypeOK, agentCancelFunc
  <2>4. watchReq' \in [Turns -> SUBSET Items]
    BY <1>7 DEF TurnsTypeOK, PreTypeOK, WatchPreempt, watchPreempt
  <2>5. preemptDone' \in [Turns -> BOOLEAN]
    BY <1>7 DEF TurnsTypeOK, WatchPreempt, watchPreempt
  <2>6. watchP' \in [Turns -> {"none", "wait", "notified", "cancel",
                              "contributed", "answer", "gone"}]
    BY <1>7 DEF TurnsTypeOK, WatchPreempt, watchPreempt
  <2> QED BY <2>1, <2>3, <2>4, <2>5, <2>6 DEF TurnsTypeOK
<1>8. ASSUME NEW t \in Turns, WatchStop(t) PROVE TurnsTypeOK'
  <2>1. UNCHANGED <<events, handler, bridge, preemptDone, watchP, watchReq>>
    BY <1>8 DEF WatchStop
  <2>2. agent' = agent \/ agentCancelFunc(t)
    BY <1>8 DEF WatchStop, watchStop
  <2>3. agent' \in [Turns -> {"none", "running", "cancelling", "handled", "done"}]
    BY <2>2 DEF TurnsTypeOK, agentCancelFunc
  <2> QED BY <1>8, <2>1, <2>3 DEF TurnsTypeOK, WatchStop, watchStop
<1>9. CASE PushKind \/ StopKind \/ EnvKind \/ UNCHANGED vars
  BY <1>1, <1>9, PushFrame, StopFrame, EnvFrame
     DEF PushKind, StopKind, EnvKind, pushFrame, stopFrame, envFrame, vars
<1> QED
  BY <1>1, <1>2, <1>3, <1>4, <1>5, <1>6, <1>7, <1>8, <1>9, NextKinds,
     LoopTurnFrame DEF TurnKind, TurnStep

\* The stop controller keeps its type.
LEMMA StopTypeNext ==
    ASSUME TypeOK, [Next]_vars
    PROVE  StopTypeOK'
<1> USE DEF TypeOK, stopVars
<1>1. CASE UNCHANGED stopVars
  BY <1>1 DEF StopTypeOK
<1>2. ASSUME NEW s \in Stoppers, StopCall(s) PROVE StopTypeOK'
  <2>1. PICK c \in StopOptions[s] : requestStop(c)
    BY <1>2 DEF StopCall
  <2>2. c \in StopConfigs
    BY ConstantsAssumption
  <2>3. c.idleFor \in Nat /\ c.skipCheckpoint \in BOOLEAN
    BY <2>2 DEF StopConfigs
  <2>4. CASE stopClosed
    BY <1>1, <2>1, <2>4 DEF requestStop
  <2>5. CASE ~stopClosed /\ c.kind = "idle"
    BY <2>1, <2>3, <2>5 DEF StopTypeOK, requestStop
  <2>6. CASE ~stopClosed /\ c.kind # "idle"
    <3>1. stopNotify' \in BOOLEAN /\ stopPending' \in BOOLEAN
      BY <2>1, <2>6 DEF StopTypeOK, requestStop
    <3>2. skipCheckpoint' \in BOOLEAN
      BY <2>1, <2>3, <2>6 DEF StopTypeOK, requestStop
    <3> QED BY <2>1, <2>6, <3>1, <3>2 DEF StopTypeOK, requestStop, commitLocked
  <2> QED BY <2>4, <2>5, <2>6
<1>3. CASE commit
  BY <1>3 DEF StopTypeOK, commit, commitLocked
<1>4. CASE StopKind
  BY <1>1, <1>2, <1>3, <1>4
     DEF StopKind, StopWake, StopTimeout, IdleTimerFires, IdleCommit,
         finishStopCommit
<1>5. CASE LoopStep
  <2>1. CASE Launch
    BY <2>1 DEF StopTypeOK, Launch, stopBeginActiveTurn
  <2>2. CASE EndStop
    BY <2>2 DEF StopTypeOK, EndStop, stopEndActiveTurn
  <2>3. CASE CloseControllers
    BY <2>3 DEF StopTypeOK, CloseControllers, stopCloseForLoopExit
  <2>4. UNCHANGED stopVars \/ Launch \/ EndStop \/ CloseControllers
    BY <1>5
       DEF LoopStep, tryLoadCheckpoint, LoopTop, WaitForPushes, ResumeTake,
           IdleQuery, LoopReceive, RecheckIdle, GotFirst, TakeRest,
           BeginPlanning, planTurn, PrepareAgent, AbortPlanning, Activate,
           TurnReturns, EndPreempt, Cleanup, TakeUnhandled, PersistResult,
           CloseBuffer, planFrame
  <2> QED BY <1>1, <2>1, <2>2, <2>3, <2>4
<1>6. CASE TurnKind
  <2>1. PICK t \in Turns : TurnStep(t)
    BY <1>6 DEF TurnKind
  <2>2. CASE WatchStop(t)
    BY <2>2 DEF StopTypeOK, WatchStop, watchStop, receiveCancel
  <2>3. CASE ~WatchStop(t)
    BY <1>1, <2>1, <2>3
       DEF TurnStep, AgentEnds, MarkDone, HandlerStep, HandlerReturns,
           HandlerReturnsEarly, ProxyLate, WatchPreempt
  <2> QED BY <2>2, <2>3
<1>7. CASE Restart
  BY <1>7 DEF StopTypeOK, Restart
<1>8. CASE PushKind \/ EnvKind \/ UNCHANGED vars
  BY <1>1, <1>8, PushFrame, EnvFrame
     DEF PushKind, EnvKind, pushFrame, envFrame, vars
<1> QED
  BY <1>4, <1>5, <1>6, <1>7, <1>8, NextKinds

\* The preempt controller and the channels keep their types.
LEMMA PreTypeNext ==
    ASSUME TypeOK, [Next]_vars
    PROVE  PreTypeOK'
<1> USE DEF TypeOK, preVars
<1>0. MaxTurns \in Nat
  BY ConstantsAssumption
<1>1. CASE UNCHANGED <<preVars, ack>>
  BY <1>1 DEF PreTypeOK
<1>a. ASSUME NEW req \in SUBSET Items
      PROVE  Acked(req) \in [Items -> {"none", "open", "closed", "panic"}]
  BY DEF PreTypeOK, Acked
<1>2. ASSUME NEW i \in Items, requestPreempt(i, target[i]) PROVE PreTypeOK'
  BY <1>2, <1>a DEF PreTypeOK, requestPreempt
<1>3. ASSUME NEW i \in Items, PushCall(i) \/ PushStep(i) \/ DelayFires(i)
      PROVE  PreTypeOK'
  <2>1. CASE PushCall(i) \/ PushBegin(i)
    <3>1. UNCHANGED ack /\ (beginPush \/ UNCHANGED preVars)
      BY <2>1 DEF PushCall, PushBegin, EnterPush, CheckStopped
    <3> QED BY <3>1 DEF PreTypeOK, beginPush
  <2>2. CASE PushSend(i)
    BY <2>2 DEF PreTypeOK, PushSend
  <2>3. CASE PushLate(i)
    BY <1>1, <2>3 DEF PushLate
  <2>4. CASE PushEnd(i)
    BY <2>4 DEF PreTypeOK, PushEnd, endPush
  <2>5. CASE PushRequest(i)
    BY <1>2, <2>5 DEF PushRequest
  <2>6. CASE DelayFires(i)
    <3>1. CASE UNCHANGED preVars /\ ack' = Acked({i})
      BY <1>a, <3>1 DEF PreTypeOK
    <3> QED BY <1>2, <2>6, <3>1 DEF DelayFires
  <2> QED BY <1>3, <2>1, <2>2, <2>3, <2>4, <2>5, <2>6 DEF PushStep
<1>4. CASE LoopStep
  <2>1. CASE BeginPlanning
    BY <1>0, <2>1 DEF PreTypeOK, BeginPlanning, beginPlanningTurn
  <2>2. CASE AbortPlanning
    BY <1>a, <2>2 DEF PreTypeOK, AbortPlanning, abortPlanningTurn
  <2>3. CASE Activate
    BY <2>3 DEF PreTypeOK, Activate, preBeginActiveTurn
  <2>4. CASE EndPreempt
    BY <1>a, <2>4 DEF PreTypeOK, EndPreempt, preEndActiveTurn
  <2>5. CASE CloseControllers
    BY <1>a, <2>5 DEF PreTypeOK, CloseControllers, preCloseForLoopExit
  <2>6. \/ UNCHANGED <<preVars, ack>>
        \/ BeginPlanning \/ AbortPlanning \/ Activate \/ EndPreempt
        \/ CloseControllers
    BY <1>4
       DEF LoopStep, tryLoadCheckpoint, LoopTop, WaitForPushes, ResumeTake,
           IdleQuery, LoopReceive, RecheckIdle, GotFirst, TakeRest,
           planTurn, PrepareAgent, Launch, TurnReturns, EndStop, Cleanup,
           TakeUnhandled, PersistResult, CloseBuffer
  <2> QED BY <1>1, <2>1, <2>2, <2>3, <2>4, <2>5, <2>6
<1>5. CASE TurnKind
  <2>1. PICK t \in Turns : TurnStep(t)
    BY <1>5 DEF TurnKind
  <2>2. CASE WatchPreempt(t)
    <3>1. watchReq[t] \in SUBSET Items
      BY DEF TurnsTypeOK
    <3>2. Acked(watchReq[t]) \in [Items -> {"none", "open", "closed", "panic"}]
      BY <1>a, <3>1
    <3> QED BY <2>2, <3>2 DEF PreTypeOK, WatchPreempt, watchPreempt,
                              receivePreempt
  <2>3. CASE ~WatchPreempt(t)
    BY <1>1, <2>1, <2>3
       DEF TurnStep, AgentEnds, MarkDone, HandlerStep, HandlerReturns,
           HandlerReturnsEarly, ProxyLate, WatchStop
  <2> QED BY <2>2, <2>3
<1>6. CASE Restart
  <2>1. /\ turnPhase' = "idle" /\ turnID' = 0 /\ pushInFlight' = 0
        /\ pending' = {} /\ preNotify' = FALSE /\ preClosed' = FALSE
        /\ ack' = ack
    BY <1>6 DEF Restart
  <2>2. turnPhase' \in {"idle", "planning", "active"} /\ turnID' \in 0..MaxTurns
    BY <1>0, <2>1
  <2>3. pushInFlight' \in Int /\ pending' \in SUBSET Items
    BY <2>1
  <2>4. preNotify' \in BOOLEAN /\ preClosed' \in BOOLEAN
    BY <2>1
  <2>5. ack' \in [Items -> {"none", "open", "closed", "panic"}]
    BY <2>1 DEF PreTypeOK
  <2> QED BY <2>2, <2>3, <2>4, <2>5 DEF PreTypeOK
<1>7. CASE StopKind \/ EnvKind \/ UNCHANGED vars
  BY <1>1, <1>7, StopFrame, EnvFrame
     DEF StopKind, EnvKind, stopFrame, envFrame, vars
<1> QED
  BY <1>3, <1>4, <1>5, <1>6, <1>7, NextKinds DEF PushKind

\* The empty sequence is a sequence of items.
LEMMA EmptyType == <<>> \in Seq(Items)
  OBVIOUS

\* Head, Tail, concatenation and SubSeq of sequences of items.
LEMMA SeqTypes ==
    ASSUME NEW s \in Seq(Items)
    PROVE  /\ <<>> \in Seq(Items)
           /\ s # <<>> => Head(s) \in Items /\ Tail(s) \in Seq(Items)
           /\ \A u \in Seq(Items) : s \o u \in Seq(Items)
           /\ \A m \in 1..(Len(s) + 1), n \in 0..Len(s) :
                SubSeq(s, m, n) \in Seq(Items)
  OBVIOUS

\* The buffer keeps its type.
LEMMA BufTypeNext ==
    ASSUME TypeOK, [Next]_vars
    PROVE  BufTypeOK'
<1> USE DEF TypeOK, bufVars
<1>1. CASE UNCHANGED bufVars
  BY <1>1 DEF BufTypeOK
<1>2. ASSUME NEW s \in Seq(Items), PushFront(s) PROVE BufTypeOK'
  BY <1>2 DEF BufTypeOK, PushFront
<1>3. CASE TakeAll \/ Receive \/ Close \/ Wakeup \/ ClearWakeup
  <2>1. buf' \in {buf, <<>>} \/ (buf # <<>> /\ buf' = Tail(buf))
    BY <1>3 DEF TakeAll, Receive, Close, Wakeup, ClearWakeup
  <2>2. bufClosed' \in BOOLEAN /\ woken' \in BOOLEAN
    BY <1>3 DEF BufTypeOK, TakeAll, Receive, Close, Wakeup, ClearWakeup
  <2> QED BY <2>1, <2>2, SeqTypes DEF BufTypeOK
<1>4. ASSUME NEW i \in Items, PushCall(i) \/ PushStep(i) \/ DelayFires(i)
      PROVE  BufTypeOK'
  <2>1. CASE PushSend(i)
    BY <2>1 DEF BufTypeOK, PushSend, TrySend
  <2>2. UNCHANGED bufVars \/ PushSend(i)
    BY <1>4 DEF PushCall, PushStep, DelayFires, PushBegin, PushLate,
                PushRequest, PushEnd
  <2> QED BY <1>1, <2>1, <2>2
<1>5. CASE StopKind \/ EnvKind
  <2>1. UNCHANGED bufVars \/ Wakeup \/ Close
    BY <1>5 DEF StopKind, EnvKind, StopCall, StopWake, StopTimeout,
                IdleTimerFires, IdleCommit, finishStopCommit, Run, CancelCtx,
                CtxMonitor, TakeLateItems
  <2> QED BY <1>1, <1>3, <2>1
<1>6. CASE LoopStep
  <2>1. CASE tryLoadCheckpoint
    <3>1. store.unhandled \in Seq(Items)
      BY DEF StoreTypeOK, Checkpoints
    <3> QED BY <1>1, <1>2, <1>3, <2>1, <3>1 DEF tryLoadCheckpoint
  <2>2. CASE PrepareAgent
    <3>1. SubSeq(items, Len(consumed) + 1, Len(items)) \in Seq(Items)
      BY DEF PlanTypeOK
    <3> QED BY <1>1, <1>2, <2>2, <3>1 DEF PrepareAgent
  <2>3. CASE GotFirst \/ AbortPlanning
    BY <1>1, <1>2, <2>3 DEF PlanTypeOK, GotFirst, AbortPlanning, GiveBack
  <2>4. \/ UNCHANGED bufVars \/ TakeAll \/ Receive \/ Close \/ ClearWakeup
        \/ tryLoadCheckpoint \/ PrepareAgent \/ GotFirst \/ AbortPlanning
    BY <1>6
       DEF LoopStep, LoopTop, WaitForPushes, ResumeTake, IdleQuery,
           LoopReceive, RecheckIdle, TakeRest, BeginPlanning, planTurn,
           Activate, Launch, TurnReturns, EndStop, EndPreempt, Cleanup,
           TakeUnhandled, PersistResult, CloseControllers, CloseBuffer,
           turnFrame
  <2> QED BY <1>1, <1>3, <2>1, <2>2, <2>3, <2>4
<1>7. CASE Restart
  <2>1. buf' = <<>> /\ bufClosed' = FALSE /\ woken' = FALSE
    BY <1>7 DEF Restart
  <2> QED BY <2>1, SeqTypes DEF BufTypeOK
<1>8. CASE TurnKind \/ UNCHANGED vars
  BY <1>1, <1>8, TurnFrame DEF TurnKind, agentFrame, vars
<1> QED
  BY <1>4, <1>5, <1>6, <1>7, <1>8, NextKinds DEF PushKind

\* The control state of the loop, the late list and the timers keep their types.
LEMMA ControlTypeNext ==
    ASSUME TypeOK, [Next]_vars
    PROVE  ControlTypeOK'
<1> USE DEF TypeOK, loopVars, lateVars, timerVars
<1>1. CASE UNCHANGED <<loopVars, lateVars, timerVars>>
  BY <1>1 DEF ControlTypeOK
<1>2. CASE PushKind
  <2>1. PICK i \in Items : PushCall(i) \/ PushStep(i) \/ DelayFires(i)
    BY <1>2 DEF PushKind
  <2>2. UNCHANGED <<loopVars, timerVars>>
    BY <2>1, PushFrame DEF pushFrame
  <2>3. UNCHANGED lateVars \/ PushLate(i)
    BY <2>1 DEF PushCall, PushStep, DelayFires, PushBegin, PushSend,
                PushRequest, PushEnd
  <2>4. lateItems' \in Seq(Items) /\ UNCHANGED lateSealed
    BY <2>3 DEF ControlTypeOK, PushLate
  <2> QED BY <2>2, <2>4 DEF ControlTypeOK
<1>3. CASE StopKind
  <2>1. UNCHANGED <<lateItems, lateSealed, pc, started, done, ctxDone, runErr>>
    BY <1>3, StopFrame
       DEF StopKind, stopFrame, StopCall, StopWake, StopTimeout,
           IdleTimerFires, IdleCommit, finishStopCommit
  <2>2. stopped' \in {stopped, TRUE} /\ idleTimer' \in {idleTimer, FALSE}
    BY <1>3
       DEF StopKind, StopCall, StopWake, StopTimeout, IdleTimerFires,
           IdleCommit, finishStopCommit
  <2>3. finishing' \in {finishing, "store", "close", "finished"}
    BY <1>3
       DEF StopKind, StopCall, StopWake, StopTimeout, IdleTimerFires,
           IdleCommit, finishStopCommit
  <2>4. \/ firing' = firing
        \/ firing' = firing + 1
        \/ firing > 0 /\ firing' = firing - 1
    BY <1>3
       DEF StopKind, StopCall, StopWake, StopTimeout, IdleTimerFires,
           IdleCommit, finishStopCommit
  <2>5. firing' \in Nat
    BY <2>4 DEF ControlTypeOK
  <2>6. stopped' \in BOOLEAN /\ idleTimer' \in BOOLEAN
    BY <2>2 DEF ControlTypeOK
  <2>7. finishing' \in {"none", "store", "close", "finished"}
    BY <2>3 DEF ControlTypeOK
  <2> QED BY <2>1, <2>5, <2>6, <2>7 DEF ControlTypeOK
<1>4. CASE EnvKind
  <2>1. UNCHANGED timerVars
    BY <1>4, EnvFrame DEF EnvKind, envFrame
  <2>2. /\ pc' \in {pc, "load"} /\ started' \in {started, TRUE}
        /\ ctxDone' \in {ctxDone, TRUE} /\ lateSealed' \in {lateSealed, TRUE}
        /\ UNCHANGED <<stopped, done, runErr, lateItems>>
    BY <1>4 DEF EnvKind, Run, CancelCtx, CtxMonitor, TakeLateItems
  <2>3. pc' \in LoopPCs
    BY <2>2 DEF ControlTypeOK, LoopPCs
  <2>4. started' \in BOOLEAN /\ ctxDone' \in BOOLEAN /\ lateSealed' \in BOOLEAN
    BY <2>2 DEF ControlTypeOK
  <2> QED BY <2>1, <2>2, <2>3, <2>4 DEF ControlTypeOK
<1>5. CASE LoopStep
  <2>1. UNCHANGED <<lateVars, firing, finishing>>
    BY <1>5, LoopFrame DEF others
  <2>2. /\ UNCHANGED <<started, ctxDone>>
        /\ stopped' \in {stopped, TRUE} /\ done' \in {done, TRUE}
    BY <1>5
       DEF LoopStep, tryLoadCheckpoint, LoopTop, WaitForPushes, ResumeTake,
           IdleQuery, LoopReceive, RecheckIdle, GotFirst, TakeRest,
           BeginPlanning, planTurn, PrepareAgent, AbortPlanning, Activate,
           Launch, TurnReturns, EndStop, EndPreempt, Cleanup, TakeUnhandled,
           PersistResult, CloseControllers, CloseBuffer, goto, exitWith
  <2>3. pc' \in LoopPCs
    BY <1>5
       DEF LoopStep, tryLoadCheckpoint, LoopTop, WaitForPushes, ResumeTake,
           IdleQuery, LoopReceive, RecheckIdle, GotFirst, TakeRest,
           BeginPlanning, planTurn, PrepareAgent, AbortPlanning, Activate,
           Launch, TurnReturns, EndStop, EndPreempt, Cleanup, TakeUnhandled,
           PersistResult, CloseControllers, CloseBuffer, goto, exitWith,
           LoopPCs
  <2>4. runErr' \in RunErrors
    BY <1>5
       DEF LoopStep, tryLoadCheckpoint, LoopTop, WaitForPushes, ResumeTake,
           IdleQuery, LoopReceive, RecheckIdle, GotFirst, TakeRest,
           BeginPlanning, planTurn, PrepareAgent, AbortPlanning, Activate,
           Launch, TurnReturns, EndStop, EndPreempt, Cleanup, TakeUnhandled,
           PersistResult, CloseControllers, CloseBuffer, exitWith,
           applyFrameworkCapturedError, HandlerDone, RunErrors, ControlTypeOK
  <2>5. idleTimer' \in {idleTimer, TRUE, FALSE}
    BY <1>5
       DEF LoopStep, tryLoadCheckpoint, LoopTop, WaitForPushes, ResumeTake,
           IdleQuery, LoopReceive, RecheckIdle, GotFirst, TakeRest,
           BeginPlanning, planTurn, PrepareAgent, AbortPlanning, Activate,
           Launch, TurnReturns, EndStop, EndPreempt, Cleanup, TakeUnhandled,
           PersistResult, CloseControllers, CloseBuffer, turnFrame
  <2> QED BY <2>1, <2>2, <2>3, <2>4, <2>5 DEF ControlTypeOK
<1>6. CASE Restart
  <2>1. /\ pc' = "new" /\ started' = FALSE /\ stopped' = FALSE /\ done' = FALSE
        /\ ctxDone' = FALSE /\ runErr' = "nil"
        /\ lateItems' = <<>> /\ lateSealed' = FALSE
        /\ idleTimer' = FALSE /\ firing' = 0 /\ finishing' = "none"
    BY <1>6 DEF Restart
  <2>2. lateItems' \in Seq(Items) /\ pc' \in LoopPCs /\ runErr' \in RunErrors
    BY <2>1 DEF LoopPCs, RunErrors
  <2> QED BY <2>1, <2>2 DEF ControlTypeOK
<1>7. CASE TurnKind \/ UNCHANGED vars
  BY <1>1, <1>7, TurnFrame DEF TurnKind, agentFrame, vars
<1> QED
  BY <1>2, <1>3, <1>4, <1>5, <1>6, <1>7, NextKinds

\* NoResume is a resume record.
LEMMA NoResumeType == NoResume \in Resumes
  BY DEF NoResume, Resumes

\* The plan of the turn and the pending resume keep their types.
LEMMA PlanTypeNext ==
    ASSUME TypeOK, [Next]_vars
    PROVE  PlanTypeOK'
<1> USE DEF TypeOK, planVars
<1>1. CASE UNCHANGED planVars
  BY <1>1 DEF PlanTypeOK
<1>2. CASE tryLoadCheckpoint
  <2>1. /\ store.canceled \in Seq(Items) /\ store.unhandled \in Seq(Items)
        /\ store.bytes \in SUBSET Items
    BY DEF StoreTypeOK, Checkpoints
  <2>2. [interrupted |-> store.canceled, unhandled |-> store.unhandled,
         newItems |-> buf, bytes |-> store.bytes] \in Resumes
    BY <2>1 DEF BufTypeOK, Resumes
  <2>3. pendingResume' \in Resumes
    BY <1>2, <2>2 DEF PlanTypeOK, tryLoadCheckpoint
  <2> QED BY <1>2, <2>3 DEF PlanTypeOK, tryLoadCheckpoint
<1>3. CASE ResumeTake
  <2>1. /\ pendingResume.interrupted \in Seq(Items)
        /\ pendingResume.unhandled \in Seq(Items)
        /\ pendingResume.newItems \in Seq(Items)
        /\ pendingResume.bytes \in SUBSET Items
    BY DEF PlanTypeOK, Resumes
  <2>2. ResumeItems \in Seq(Items)
    BY <2>1 DEF BufTypeOK, ResumeItems
  <2> QED BY <1>3, <2>1, <2>2, NoResumeType DEF PlanTypeOK, ResumeTake
<1>4. CASE LoopReceive
  <2>1. (IF buf = <<>> THEN <<>> ELSE <<Head(buf)>>) \in Seq(Items)
    BY SeqTypes DEF BufTypeOK
  <2> QED BY <1>4, <2>1 DEF PlanTypeOK, LoopReceive
<1>5. CASE GotFirst
  <2>1. items' \in {items, <<>>}
    BY <1>5 DEF GotFirst, GiveBack
  <2> QED BY <1>5, <2>1, SeqTypes DEF PlanTypeOK, GotFirst
<1>6. CASE TakeRest
  BY <1>6 DEF PlanTypeOK, BufTypeOK, TakeRest
<1>7. CASE planTurn
  <2>1. \A k \in 0..Len(items) : SubSeq(items, 1, k) \in Seq(Items)
    BY DEF PlanTypeOK
  <2>2. consumed' \in Seq(Items)
    BY <1>7, <2>1 DEF PlanTypeOK, planTurn
  <2> QED BY <1>7, <2>2 DEF PlanTypeOK, planTurn
<1>8. CASE PrepareAgent
  <2>1. items' \in {items, <<>>}
    BY <1>8 DEF PrepareAgent
  <2> QED BY <1>8, <2>1, SeqTypes DEF PlanTypeOK, PrepareAgent
<1>9. CASE AbortPlanning
  BY <1>9, SeqTypes DEF PlanTypeOK, AbortPlanning, GiveBack
<1>10. CASE EndPreempt
  BY <1>10, SeqTypes DEF PlanTypeOK, EndPreempt
<1>11. CASE LoopStep
  <2>1. \/ UNCHANGED planVars
        \/ tryLoadCheckpoint \/ ResumeTake \/ LoopReceive \/ GotFirst
        \/ TakeRest \/ planTurn \/ PrepareAgent \/ AbortPlanning \/ EndPreempt
    BY <1>11
       DEF LoopStep, LoopTop, WaitForPushes, IdleQuery, RecheckIdle,
           BeginPlanning, Activate, Launch, TurnReturns, EndStop, Cleanup,
           TakeUnhandled, PersistResult, CloseControllers, CloseBuffer
  <2> QED BY <1>1, <1>2, <1>3, <1>4, <1>5, <1>6, <1>7, <1>8, <1>9, <1>10, <2>1
<1>12. CASE Restart
  <2>1. /\ items' = <<>> /\ consumed' = <<>> /\ isResume' = FALSE
        /\ pendingResume' = NoResume /\ resumeBytes' = {}
    BY <1>12 DEF Restart
  <2> QED BY <2>1, SeqTypes, NoResumeType DEF PlanTypeOK
<1>13. CASE PushKind \/ StopKind \/ EnvKind \/ TurnKind \/ UNCHANGED vars
  BY <1>1, <1>13, PushFrame, StopFrame, EnvFrame, TurnFrame
     DEF PushKind, StopKind, EnvKind, TurnKind, pushFrame, stopFrame,
         envFrame, agentFrame, vars
<1> QED
  BY <1>11, <1>12, <1>13, NextKinds

\* The loop's result keeps its type; the bridge store that is read belongs to
\* a turn, because a turn is being run.
LEMMA ResultTypeNext ==
    ASSUME TypeOK, PhaseOK, TurnNumbered, [Next]_vars
    PROVE  ResultTypeOK'
<1> USE DEF TypeOK, resultVars
<1>1. CASE UNCHANGED resultVars
  BY <1>1 DEF ResultTypeOK
<1>2. CASE Activate
  BY <1>2 DEF ResultTypeOK, Activate
<1>3. CASE TurnReturns
  <2>1. runnerBytes' \in SUBSET Items
    <3>1. turnID \in Turns => bridge[turnID] \in SUBSET Items
      BY DEF TurnsTypeOK
    <3>2. turnID \in Turns
      BY <1>3 DEF TurnReturns, PhaseOK, PhaseAt, TurnNumbered, PreTypeOK, Turns
    <3> QED BY <1>3, <3>1, <3>2 DEF ResultTypeOK, TurnReturns, finalizeCheckpoint
  <2> QED BY <1>3, <2>1 DEF ResultTypeOK, TurnReturns
<1>4. CASE EndPreempt
  BY <1>4 DEF ResultTypeOK, PlanTypeOK, EndPreempt
<1>5. CASE TakeUnhandled
  BY <1>5 DEF ResultTypeOK, BufTypeOK, TakeUnhandled
<1>6. CASE LoopStep
  <2>1. \/ UNCHANGED resultVars
        \/ Activate \/ TurnReturns \/ EndPreempt \/ TakeUnhandled
    BY <1>6
       DEF LoopStep, tryLoadCheckpoint, LoopTop, WaitForPushes, ResumeTake,
           IdleQuery, LoopReceive, RecheckIdle, GotFirst, TakeRest,
           BeginPlanning, planTurn, PrepareAgent, AbortPlanning, Launch,
           EndStop, Cleanup, PersistResult, CloseControllers, CloseBuffer,
           planFrame
  <2> QED BY <1>1, <1>2, <1>3, <1>4, <1>5, <2>1
<1>7. CASE Restart
  <2>1. /\ captured' = FALSE /\ interruptCtx' = FALSE /\ runnerBytes' = {}
        /\ interruptedItems' = <<>> /\ unhandled' = <<>>
    BY <1>7 DEF Restart
  <2> QED BY <2>1, SeqTypes DEF ResultTypeOK
<1>8. CASE TurnKind
  <2>1. PICK t \in Turns : TurnStep(t)
    BY <1>8 DEF TurnKind
  <2>2. UNCHANGED <<runnerBytes, interruptedItems, unhandled>>
    BY <2>1, TurnFrame DEF agentFrame
  <2>3. UNCHANGED <<captured, interruptCtx>> \/ ProxyCaptures(t)
    BY <2>1 DEF TurnStep, AgentEnds, MarkDone, HandlerStep, HandlerReturns,
                HandlerReturnsEarly, ProxyLate, WatchPreempt, WatchStop
  <2>4. captured' \in BOOLEAN /\ interruptCtx' \in BOOLEAN
    BY <2>3 DEF ResultTypeOK, ProxyCaptures
  <2> QED BY <2>2, <2>4 DEF ResultTypeOK
<1>9. CASE PushKind \/ StopKind \/ EnvKind \/ UNCHANGED vars
  BY <1>1, <1>9, PushFrame, StopFrame, EnvFrame
     DEF PushKind, StopKind, EnvKind, pushFrame, stopFrame, envFrame, vars
<1> QED
  BY <1>6, <1>7, <1>8, <1>9, NextKinds

\* The checkpoint store and the history keep their types.
LEMMA StoreTypeNext ==
    ASSUME TypeOK, [Next]_vars
    PROVE  StoreTypeOK'
<1> USE DEF TypeOK, storeVars, history
<1>1. CASE UNCHANGED <<storeVars, history>>
  BY <1>1 DEF StoreTypeOK
<1>2. CASE tryLoadCheckpoint
  <2>1. store.canceled \in Seq(Items) /\ store.unhandled \in Seq(Items)
    BY DEF StoreTypeOK, Checkpoints
  <2>2. accepted' \in {accepted, store.unhandled \o accepted,
                      store.canceled \o store.unhandled \o accepted}
    BY <1>2 DEF tryLoadCheckpoint
  <2>3. store.unhandled \o accepted \in Seq(Items)
    BY <2>1, SeqTypes DEF StoreTypeOK
  <2>4. store.canceled \o store.unhandled \o accepted \in Seq(Items)
    BY <2>1, SeqTypes DEF StoreTypeOK
  <2>5. accepted' \in Seq(Items)
    BY <2>2, <2>3, <2>4 DEF StoreTypeOK
  <2> QED BY <1>2, <2>5 DEF StoreTypeOK, tryLoadCheckpoint, planFrame
<1>3. CASE PrepareAgent
  <2>1. handed' \in {handed, handed \o consumed}
    BY <1>3 DEF PrepareAgent
  <2>2. handed \o consumed \in Seq(Items)
    BY SeqTypes DEF StoreTypeOK, PlanTypeOK
  <2>3. handed' \in Seq(Items)
    BY <2>1, <2>2 DEF StoreTypeOK
  <2> QED BY <1>3, <2>3 DEF StoreTypeOK, PrepareAgent, planFrame
<1>4. CASE PersistResult
  <2>1. NoCheckpoint \in Checkpoints
    BY DEF NoCheckpoint, Checkpoints
  <2>2. [bytes |-> runnerBytes, unhandled |-> unhandled,
         canceled |-> interruptedItems, exists |-> TRUE] \in Checkpoints
    BY DEF ResultTypeOK, Checkpoints
  <2> QED BY <1>4, <2>1, <2>2 DEF StoreTypeOK, PersistResult
<1>5. CASE LoopStep
  <2>1. \/ UNCHANGED <<storeVars, history>>
        \/ tryLoadCheckpoint \/ PrepareAgent \/ PersistResult
    BY <1>5
       DEF LoopStep, LoopTop, WaitForPushes, ResumeTake, IdleQuery,
           LoopReceive, RecheckIdle, GotFirst, TakeRest, BeginPlanning,
           planTurn, AbortPlanning, Activate, Launch, TurnReturns, EndStop,
           EndPreempt, Cleanup, TakeUnhandled, CloseControllers, CloseBuffer,
           planFrame, turnFrame
  <2> QED BY <1>1, <1>2, <1>3, <1>4, <2>1
<1>6. CASE PushKind
  <2>1. PICK i \in Items : PushCall(i) \/ PushStep(i) \/ DelayFires(i)
    BY <1>6 DEF PushKind
  <2>2. UNCHANGED storeVars
    BY <2>1, PushFrame DEF pushFrame
  <2>3. UNCHANGED handed /\ (accepted' = accepted \/ accepted' = Append(accepted, i))
    BY <2>1 DEF PushCall, PushStep, DelayFires, PushBegin, PushSend, PushLate,
                PushRequest, PushEnd
  <2> QED BY <2>2, <2>3 DEF StoreTypeOK
<1>7. CASE Restart
  <2>1. accepted' = <<>> /\ handed' = <<>> /\ runs' = runs + 1 /\ store' = store
    BY <1>7 DEF Restart
  <2> QED BY <2>1, SeqTypes DEF StoreTypeOK
<1>8. CASE StopKind \/ EnvKind \/ TurnKind \/ UNCHANGED vars
  BY <1>1, <1>8, StopFrame, EnvFrame, TurnFrame
     DEF StopKind, EnvKind, TurnKind, stopFrame, envFrame, agentFrame, vars
<1> QED
  BY <1>5, <1>6, <1>7, <1>8, NextKinds

\* Initially every variable has its type.
LEMMA TypeInit == Init => TypeOK
<1> SUFFICES ASSUME Init PROVE TypeOK
  OBVIOUS
<1>0. MaxTurns \in Nat
  BY ConstantsAssumption
<1>1. BufTypeOK
  <2>1. buf = <<>> /\ bufClosed = FALSE /\ woken = FALSE
    BY DEF Init, BufInit
  <2> QED BY <2>1, EmptyType DEF BufTypeOK
<1>2. PreTypeOK
  <2>1. /\ turnPhase = "idle" /\ turnID = 0 /\ pushInFlight = 0 /\ pending = {}
        /\ ack = [i \in Items |-> "none"]
    BY DEF Init, PreInit
  <2>2. preNotify = FALSE /\ preClosed = FALSE
    BY DEF Init, PreInit
  <2>3. preNotify \in BOOLEAN /\ preClosed \in BOOLEAN
    BY <2>2
  <2> QED BY <1>0, <2>1, <2>3 DEF PreTypeOK
<1>3. ControlTypeOK
  <2>1. /\ started = FALSE /\ stopped = FALSE /\ done = FALSE /\ ctxDone = FALSE
        /\ lateSealed = FALSE /\ idleTimer = FALSE
    BY DEF Init
  <2>2. /\ started \in BOOLEAN /\ stopped \in BOOLEAN /\ done \in BOOLEAN
        /\ ctxDone \in BOOLEAN /\ lateSealed \in BOOLEAN /\ idleTimer \in BOOLEAN
    BY <2>1
  <2>3. /\ pc = "new" /\ runErr = "nil" /\ lateItems = <<>> /\ firing = 0
        /\ finishing = "none"
    BY DEF Init
  <2> QED BY <2>2, <2>3, EmptyType DEF ControlTypeOK, LoopPCs, RunErrors
<1>4. PlanTypeOK
  <2>1. /\ items = <<>> /\ consumed = <<>> /\ isResume = FALSE
        /\ pendingResume = NoResume /\ resumeBytes = {}
    BY DEF Init
  <2> QED BY <2>1, EmptyType, NoResumeType DEF PlanTypeOK
<1>5. ResultTypeOK
  <2>1. /\ captured = FALSE /\ interruptCtx = FALSE /\ runnerBytes = {}
        /\ interruptedItems = <<>> /\ unhandled = <<>>
    BY DEF Init
  <2> QED BY <2>1, EmptyType DEF ResultTypeOK
<1>6. StoreTypeOK
  <2>1. store = NoCheckpoint /\ runs = 1 /\ accepted = <<>> /\ handed = <<>>
    BY DEF Init
  <2>2. NoCheckpoint \in Checkpoints
    BY DEF NoCheckpoint, Checkpoints
  <2> QED BY <2>1, <2>2, EmptyType DEF StoreTypeOK
<1>7. CallersTypeOK
  <2>1. [strategy |-> TRUE, preempt |-> TRUE, delay |-> TRUE] \in PushOptions
    BY DEF PushOptions
  <2>2. [kind |-> "bare", idleFor |-> 1, skipCheckpoint |-> TRUE,
         timeout |-> TRUE] \in StopConfigs
    BY DEF StopConfigs
  <2>3. /\ (CHOOSE m \in PushOptions : TRUE) \in PushOptions
        /\ (CHOOSE c \in StopConfigs : TRUE) \in StopConfigs
    BY <2>1, <2>2
  <2> QED BY <1>0, <2>3 DEF Init, CallersTypeOK
<1>8. StopTypeOK
  <2>1. /\ hasActiveCancelTarget = FALSE /\ stopPending = FALSE
        /\ stopNotify = FALSE /\ skipCheckpoint = FALSE /\ stopClosed = FALSE
    BY DEF Init, StopInit
  <2>2. stopPhase = "open" /\ idleFor = 0
    BY DEF Init, StopInit
  <2> QED BY <2>1, <2>2 DEF StopTypeOK
<1>9. TurnsTypeOK
  BY DEF Init, TurnsTypeOK, PerTurn
<1> QED
  BY <1>1, <1>2, <1>3, <1>4, <1>5, <1>6, <1>7, <1>8, <1>9 DEF TypeOK

\* Every step preserves the types.
LEMMA TypeNext ==
    ASSUME TypeOK, PhaseOK, TurnNumbered, [Next]_vars
    PROVE  TypeOK'
  BY BufTypeNext, PreTypeNext, StopTypeNext, ControlTypeNext, PlanTypeNext,
     ResultTypeNext, StoreTypeNext, CallersTypeNext, TurnsTypeNext DEF TypeOK

-----------------------------------------------------------------------------
\* The phase of the preempt controller follows the loop.

\* Every step keeps the phase where the loop expects it.
LEMMA PhaseNext ==
    ASSUME TypeOK, PhaseOK, TurnNumbered, [Next]_vars
    PROVE  PhaseOK' /\ TurnNumbered'
<1>1. CASE UNCHANGED <<pc, turnPhase, turnID>>
  BY <1>1 DEF PhaseOK, TurnNumbered, PhaseAt
<1>2. CASE LoopStep
  <2>1. CASE BeginPlanning
    <3>1. turnID \in Nat
      BY ConstantsAssumption DEF TypeOK, PreTypeOK
    <3> QED BY <2>1, <3>1 DEF BeginPlanning, beginPlanningTurn, goto, PhaseOK,
                              TurnNumbered, PhaseAt
  <2>2. CASE AbortPlanning
    BY <2>2 DEF AbortPlanning, abortPlanningTurn, exitWith, goto, PhaseOK,
                TurnNumbered, PhaseAt
  <2>3. CASE Activate
    BY <2>3 DEF Activate, preBeginActiveTurn, goto, PhaseOK, TurnNumbered,
                PhaseAt
  <2>4. CASE EndPreempt
    BY <2>4 DEF EndPreempt, preEndActiveTurn, exitWith, goto, PhaseOK,
                TurnNumbered, PhaseAt
  <2>5. CASE CloseControllers
    BY <2>5 DEF CloseControllers, preCloseForLoopExit, goto, PhaseOK,
                TurnNumbered, PhaseAt
  <2>6. CASE /\ ~BeginPlanning /\ ~AbortPlanning /\ ~Activate
             /\ ~EndPreempt /\ ~CloseControllers
    <3>1. UNCHANGED <<turnPhase, turnID>>
      BY <1>2, <2>6
         DEF LoopStep, tryLoadCheckpoint, LoopTop, WaitForPushes, ResumeTake,
             IdleQuery, LoopReceive, RecheckIdle, GotFirst, TakeRest,
             planTurn, PrepareAgent, Launch, TurnReturns, EndStop, Cleanup,
             TakeUnhandled, PersistResult, CloseBuffer, preVars
    <3>2. PhaseAt(pc') = PhaseAt(pc)
      BY <1>2, <2>6
         DEF LoopStep, tryLoadCheckpoint, LoopTop, WaitForPushes, ResumeTake,
             IdleQuery, LoopReceive, RecheckIdle, GotFirst, TakeRest,
             planTurn, PrepareAgent, Launch, TurnReturns, EndStop, Cleanup,
             TakeUnhandled, PersistResult, CloseBuffer, goto, exitWith, PhaseAt
    <3> QED BY <3>1, <3>2 DEF PhaseOK, TurnNumbered, PhaseAt
  <2> QED BY <2>1, <2>2, <2>3, <2>4, <2>5, <2>6
<1>3. CASE Restart
  BY <1>3 DEF Restart, PhaseOK, TurnNumbered, PhaseAt
<1>4. CASE PushKind
  <2>1. PICK i \in Items : PushCall(i) \/ PushStep(i) \/ DelayFires(i)
    BY <1>4 DEF PushKind
  <2>2. UNCHANGED <<turnPhase, turnID>>
    BY <2>1
       DEF PushCall, PushStep, DelayFires, PushBegin, PushSend, PushLate,
           PushRequest, PushEnd, EnterPush, CheckStopped, beginPush, endPush,
           requestPreempt, preVars
  <2> QED BY <1>1, <2>1, <2>2, PushFrame DEF pushFrame, loopVars
<1>5. CASE EnvKind
  <2>1. UNCHANGED <<turnPhase, turnID>>
    BY <1>5, EnvFrame DEF EnvKind, envFrame, preVars
  <2>2. pc' = pc \/ (pc = "new" /\ pc' = "load")
    BY <1>5 DEF EnvKind, Run, CancelCtx, CtxMonitor, TakeLateItems, loopVars
  <2> QED BY <2>1, <2>2 DEF PhaseOK, TurnNumbered, PhaseAt
<1>6. CASE TurnKind
  <2>1. PICK t \in Turns : TurnStep(t)
    BY <1>6 DEF TurnKind
  <2>2. UNCHANGED <<turnPhase, turnID>>
    BY <2>1
       DEF TurnStep, AgentEnds, MarkDone, HandlerStep, HandlerReturns,
           HandlerReturnsEarly, ProxyLate, WatchPreempt, watchPreempt,
           receivePreempt, WatchStop, preVars
  <2> QED BY <1>1, <2>1, <2>2, TurnFrame DEF agentFrame, loopVars
<1>7. CASE StopKind
  <2>1. UNCHANGED pc
    BY <1>7 DEF StopKind, StopCall, StopWake, StopTimeout, IdleTimerFires,
                IdleCommit, finishStopCommit, loopVars
  <2> QED BY <1>1, <1>7, <2>1, StopFrame DEF StopKind, stopFrame, preVars
<1>8. CASE UNCHANGED vars
  BY <1>1, <1>8 DEF vars, preVars, loopVars
<1> QED
  BY <1>2, <1>3, <1>4, <1>5, <1>6, <1>7, <1>8, NextKinds

-----------------------------------------------------------------------------
\* The critical sections of Push.

\* A Push is inside its critical section exactly where the code is.
LEMMA SectionsNext ==
    ASSUME TypeOK, PushSections, [Next]_vars
    PROVE  PushSections'
<1>1. CASE UNCHANGED <<pushPC, pushMode, inPush>>
  BY <1>1 DEF PushSections, InSection
<1>2. ASSUME NEW i \in Items, PushCall(i) PROVE PushSections'
  <2>1. PICK m \in PushModes[i] :
          /\ pushMode' = [pushMode EXCEPT ![i] = m]
          /\ IF m.strategy THEN EnterPush(i, m) ELSE CheckStopped(i, m)
    BY <1>2 DEF PushCall
  <2>2. ~inPush[i]
    BY <1>2 DEF PushCall, PushSections, InSection
  <2> SUFFICES ASSUME NEW j \in Items PROVE InSection(j)'
    BY DEF PushSections
  <2>3. CASE j # i
    BY <2>1, <2>3 DEF PushSections, InSection, EnterPush, CheckStopped, TypeOK,
                      CallersTypeOK
  <2>4. CASE j = i /\ m.strategy
    BY <2>1, <2>4 DEF InSection, EnterPush, TypeOK, CallersTypeOK
  <2>5. CASE j = i /\ ~m.strategy
    BY <2>1, <2>2, <2>5 DEF InSection, CheckStopped, TypeOK, CallersTypeOK
  <2> QED BY <2>3, <2>4, <2>5
<1>3. ASSUME NEW i \in Items, PushBegin(i) PROVE PushSections'
  <2> SUFFICES ASSUME NEW j \in Items PROVE InSection(j)'
    BY DEF PushSections
  <2>1. UNCHANGED pushMode
    BY <1>3 DEF PushBegin
  <2>2. CASE EnterPush(i, pushMode[i])
    BY <2>1, <2>2 DEF PushSections, InSection, EnterPush, TypeOK, CallersTypeOK
  <2>3. CASE pushPC[i] = "check" /\ CheckStopped(i, pushMode[i])
    BY <2>1, <2>3 DEF PushSections, InSection, CheckStopped, TypeOK,
                      CallersTypeOK
  <2> QED BY <1>3, <2>2, <2>3 DEF PushBegin
<1>4. ASSUME NEW i \in Items, PushSend(i) PROVE PushSections'
  <2> SUFFICES ASSUME NEW j \in Items PROVE InSection(j)'
    BY DEF PushSections
  <2>1. UNCHANGED <<pushMode, inPush>>
    BY <1>4 DEF PushSend
  <2>2. pushPC[i] = "send"
    BY <1>4 DEF PushSend
  <2>3. \E l \in {"late", "end", "request", "returned"} :
          /\ pushPC' = [pushPC EXCEPT ![i] = l]
          /\ l \in {"end", "request"} => inPush[i]
          /\ l = "returned" => ~inPush[i]
    <3>1. CASE ~CanSend
      BY <1>4, <3>1 DEF PushSend
    <3>2. CASE CanSend /\ ~pushMode[i].preempt
      BY <1>4, <3>2 DEF PushSend, AfterPush
    <3>3. CASE CanSend /\ pushMode[i].preempt
      <4>1. inPush[i]
        BY <2>2, <3>3 DEF PushSections, InSection
      <4> QED BY <1>4, <3>3, <4>1 DEF PushSend
    <3> QED BY <3>1, <3>2, <3>3
  <2> QED BY <2>1, <2>3 DEF PushSections, InSection, TypeOK, CallersTypeOK
<1>5. ASSUME NEW i \in Items, PushLate(i) \/ PushRequest(i) PROVE PushSections'
  <2> SUFFICES ASSUME NEW j \in Items PROVE InSection(j)'
    BY DEF PushSections
  <2> QED BY <1>5 DEF PushLate, PushRequest, AfterPush, PushSections, InSection,
                      TypeOK, CallersTypeOK
<1>6. ASSUME NEW i \in Items, PushEnd(i) PROVE PushSections'
  <2> SUFFICES ASSUME NEW j \in Items PROVE InSection(j)'
    BY DEF PushSections
  <2> QED BY <1>6 DEF PushEnd, PushSections, InSection, TypeOK, CallersTypeOK
<1>7. CASE PushKind
  BY <1>1, <1>2, <1>3, <1>4, <1>5, <1>6, <1>7
     DEF PushKind, PushStep, DelayFires
<1>8. CASE Restart
  BY <1>1, <1>8 DEF Restart
<1>9. CASE StopKind \/ EnvKind \/ LoopStep \/ TurnKind \/ UNCHANGED vars
  BY <1>1, <1>9, StopFrame, EnvFrame, LoopFrame, TurnFrame
     DEF StopKind, EnvKind, TurnKind, stopFrame, envFrame, others, agentFrame,
         vars, pushVars
<1> QED
  BY <1>7, <1>8, <1>9, NextKinds

\* pushInFlight counts the pushes inside their critical section.
LEMMA InFlightNext ==
    ASSUME TypeOK, PushSections, InFlightCounts, [Next]_vars
    PROVE  InFlightCounts'
<1>0. IsFiniteSet(PushesIn)
  BY ConstantsAssumption, FS_Subset DEF PushesIn
<1>1. CASE UNCHANGED <<inPush, pushInFlight>>
  BY <1>1 DEF InFlightCounts, PushesIn
<1>2. ASSUME NEW i \in Items, NEW m, ~inPush[i], EnterPush(i, m)
      PROVE  InFlightCounts'
  <2>1. PushesIn' = PushesIn \cup {i} /\ i \notin PushesIn
    BY <1>2 DEF PushesIn, EnterPush, TypeOK, CallersTypeOK
  <2>2. Cardinality(PushesIn') = Cardinality(PushesIn) + 1
    BY <1>0, <2>1, FS_AddElement
  <2> QED BY <1>2, <2>2 DEF EnterPush, beginPush, InFlightCounts
<1>3. ASSUME NEW i \in Items, PushEnd(i) PROVE InFlightCounts'
  <2>1. i \in PushesIn
    BY <1>3 DEF PushEnd, PushesIn, PushSections, InSection
  <2>2. PushesIn' = PushesIn \ {i}
    BY <1>3 DEF PushEnd, PushesIn, TypeOK, CallersTypeOK
  <2>3. Cardinality(PushesIn') = Cardinality(PushesIn) - 1
    BY <1>0, <2>1, <2>2, FS_RemoveElement
  <2> QED BY <1>3, <2>3 DEF PushEnd, endPush, InFlightCounts
<1>4. CASE PushKind
  <2>1. PICK i \in Items : PushCall(i) \/ PushStep(i) \/ DelayFires(i)
    BY <1>4 DEF PushKind
  <2>2. CASE PushCall(i) \/ PushBegin(i)
    <3>1. pushPC[i] = "check" \/ ~inPush[i]
      BY <2>2 DEF PushCall, PushBegin, PushSections, InSection
    <3> QED BY <1>1, <1>2, <2>2, <3>1 DEF PushCall, PushBegin, CheckStopped,
                                          preVars
  <2>3. CASE PushSend(i) \/ PushLate(i) \/ PushRequest(i) \/ DelayFires(i)
    BY <1>1, <2>3 DEF PushSend, PushLate, PushRequest, DelayFires,
                      requestPreempt, preVars
  <2> QED BY <1>3, <2>1, <2>2, <2>3 DEF PushStep
<1>5. CASE Restart
  <2>1. \A i \in Items : ~inPush[i]
    BY <1>5 DEF Restart, PushSections, InSection
  <2>2. PushesIn' = {}
    BY <1>5, <2>1 DEF Restart, PushesIn
  <2>3. Cardinality(PushesIn') = 0
    BY <2>2, FS_EmptySet
  <2> QED BY <1>5, <2>3 DEF Restart, InFlightCounts
<1>6. CASE LoopStep
  <2>1. UNCHANGED inPush
    BY <1>6, LoopFrame DEF others, pushVars
  <2>2. UNCHANGED pushInFlight
    BY <1>6
       DEF LoopStep, tryLoadCheckpoint, LoopTop, WaitForPushes, ResumeTake,
           IdleQuery, LoopReceive, RecheckIdle, GotFirst, TakeRest,
           BeginPlanning, planTurn, PrepareAgent, AbortPlanning, Activate,
           Launch, TurnReturns, EndStop, EndPreempt, Cleanup, TakeUnhandled,
           PersistResult, CloseControllers, CloseBuffer, beginPlanningTurn,
           abortPlanningTurn, preBeginActiveTurn, preEndActiveTurn,
           preCloseForLoopExit, preVars
  <2> QED BY <1>1, <2>1, <2>2
<1>7. CASE TurnKind
  <2>1. PICK t \in Turns : TurnStep(t)
    BY <1>7 DEF TurnKind
  <2>2. UNCHANGED pushInFlight
    BY <2>1
       DEF TurnStep, AgentEnds, MarkDone, HandlerStep, HandlerReturns,
           HandlerReturnsEarly, ProxyLate, WatchPreempt, watchPreempt,
           receivePreempt, WatchStop, preVars
  <2> QED BY <1>1, <2>1, <2>2, TurnFrame DEF agentFrame, pushVars
<1>8. CASE StopKind \/ EnvKind \/ UNCHANGED vars
  BY <1>1, <1>8, StopFrame, EnvFrame
     DEF StopKind, EnvKind, stopFrame, envFrame, vars, pushVars, preVars
<1> QED
  BY <1>4, <1>5, <1>6, <1>7, <1>8, NextKinds

-----------------------------------------------------------------------------
\* Watchers.

\* Every step preserves what is known of the watchers.
LEMMA WatchersNext ==
    ASSUME TypeOK, PhaseOK, TurnNumbered, WatchersOK, [Next]_vars
    PROVE  WatchersOK'
<1>0. turnID \in Nat /\ Turns \subseteq Nat
  BY ConstantsAssumption DEF TypeOK, PreTypeOK, Turns
<1>1. ASSUME UNCHANGED <<watchReq, watchP>>,
             \A t \in Turns : ToCome(t)' => ToCome(t)
      PROVE  WatchersOK'
  BY <1>1 DEF WatchersOK
<1>2. CASE UNCHANGED <<watchReq, watchP, turnID, pc>>
  BY <1>1, <1>2 DEF ToCome
<1>3. CASE LoopStep
  <2>1. CASE Launch
    <3>1. UNCHANGED <<watchReq, turnID>> /\ pc' \notin {"plan", "prepare", "abort", "activate", "launch"}
      BY <2>1 DEF Launch, goto, preVars
    <3>2. watchP' = watchP \/ watchP' = [watchP EXCEPT ![turnID] = "wait"]
      BY <2>1 DEF Launch
    <3>3. \A t \in Turns : ToCome(t)' => t > turnID
      BY <3>1 DEF ToCome
    <3>4. turnID \in Turns => watchReq[turnID] = {}
      BY <2>1 DEF Launch, WatchersOK, ToCome
    <3> SUFFICES ASSUME NEW t \in Turns
                 PROVE  /\ watchReq[t]' # {} =>
                             watchP[t]' \in {"cancel", "contributed", "answer"}
                        /\ ToCome(t)' => watchP[t]' = "none"
      BY DEF WatchersOK
    <3>5. CASE t = turnID
      BY <1>0, <3>1, <3>3, <3>4, <3>5
    <3>6. CASE t # turnID
      <4>1. watchP'[t] = watchP[t]
        BY <3>2, <3>6 DEF TypeOK, TurnsTypeOK
      <4> QED BY <3>1, <3>3, <4>1 DEF WatchersOK, ToCome
    <3> QED BY <3>5, <3>6
  <2>2. CASE BeginPlanning
    <3>1. UNCHANGED <<watchReq, watchP>> /\ turnID' = turnID + 1
      BY <2>2 DEF BeginPlanning, beginPlanningTurn, planFrame, watchVars
    <3>2. \A t \in Turns : ToCome(t)' => ToCome(t)
      BY <1>0, <3>1 DEF ToCome
    <3> QED BY <1>1, <3>1, <3>2
  <2>3. CASE ~Launch /\ ~BeginPlanning
    <3>1. UNCHANGED <<watchReq, watchP>>
      BY <1>3, <2>3, LoopTurnFrame DEF Activate, watchVars
    <3>2. UNCHANGED turnID
      BY <1>3, <2>3
         DEF LoopStep, tryLoadCheckpoint, LoopTop, WaitForPushes, ResumeTake,
             IdleQuery, LoopReceive, RecheckIdle, GotFirst, TakeRest,
             planTurn, PrepareAgent, AbortPlanning, Activate, TurnReturns,
             EndStop, EndPreempt, Cleanup, TakeUnhandled, PersistResult,
             CloseControllers, CloseBuffer, abortPlanningTurn,
             preBeginActiveTurn, preEndActiveTurn, preCloseForLoopExit, preVars
    <3>3. pc' \in {"plan", "prepare", "abort", "activate", "launch"}
            => pc \in {"plan", "prepare", "abort", "activate", "launch"}
      BY <1>3, <2>3
         DEF LoopStep, tryLoadCheckpoint, LoopTop, WaitForPushes, ResumeTake,
             IdleQuery, LoopReceive, RecheckIdle, GotFirst, TakeRest,
             planTurn, PrepareAgent, AbortPlanning, Activate, TurnReturns,
             EndStop, EndPreempt, Cleanup, TakeUnhandled, PersistResult,
             CloseControllers, CloseBuffer, goto, exitWith
    <3> QED BY <1>1, <3>1, <3>2, <3>3 DEF ToCome
  <2> QED BY <2>1, <2>2, <2>3
<1>4. CASE TurnKind
  <2>1. PICK t \in Turns : TurnStep(t)
    BY <1>4 DEF TurnKind
  <2>2. UNCHANGED <<turnID, pc>>
    BY <2>1, TurnFrame
       DEF agentFrame, loopVars, TurnStep, AgentEnds, MarkDone, HandlerStep,
           HandlerReturns, HandlerReturnsEarly, ProxyLate, WatchPreempt,
           watchPreempt, receivePreempt, WatchStop, preVars
  <2>3. CASE WatchPreempt(t)
    <3> SUFFICES ASSUME NEW u \in Turns
                 PROVE  /\ watchReq[u]' # {} =>
                             watchP[u]' \in {"cancel", "contributed", "answer"}
                        /\ ToCome(u)' => watchP[u]' = "none"
      BY DEF WatchersOK
    <3>1. ToCome(u)' <=> ToCome(u)
      BY <2>2 DEF ToCome
    <3>2. CASE u # t
      BY <2>3, <3>1, <3>2 DEF WatchPreempt, watchPreempt, WatchersOK, TypeOK,
                              TurnsTypeOK
    <3>3. CASE u = t
      <4>1. ~ToCome(t)
        BY <2>3 DEF WatchPreempt, watchPreempt, WatchersOK
      <4>2. watchReq[t]' # {} => watchP[t]' \in {"cancel", "contributed", "answer"}
        BY <2>3 DEF WatchPreempt, watchPreempt, WatchersOK, TypeOK, TurnsTypeOK
      <4> QED BY <3>1, <3>3, <4>1, <4>2
    <3> QED BY <3>2, <3>3
  <2>4. CASE ~WatchPreempt(t)
    BY <1>2, <2>1, <2>2, <2>4
       DEF TurnStep, AgentEnds, MarkDone, HandlerStep, HandlerReturns,
           HandlerReturnsEarly, ProxyLate, WatchStop, watchVars
  <2> QED BY <2>3, <2>4
<1>5. CASE Restart
  BY <1>5 DEF Restart, PerTurn, WatchersOK
<1>6. CASE PushKind
  <2>1. PICK i \in Items : PushCall(i) \/ PushStep(i) \/ DelayFires(i)
    BY <1>6 DEF PushKind
  <2>2. UNCHANGED turnID
    BY <2>1
       DEF PushCall, PushStep, DelayFires, PushBegin, PushSend, PushLate,
           PushRequest, PushEnd, EnterPush, CheckStopped, beginPush, endPush,
           requestPreempt, preVars
  <2> QED BY <1>2, <2>1, <2>2, PushFrame DEF pushFrame, loopVars, watchVars
<1>7. CASE EnvKind
  <2>1. UNCHANGED <<turnID, watchReq, watchP>>
    BY <1>7, EnvFrame DEF EnvKind, envFrame, preVars, watchVars
  <2>2. pc' = pc \/ pc' = "load"
    BY <1>7 DEF EnvKind, Run, CancelCtx, CtxMonitor, TakeLateItems, loopVars
  <2> QED BY <1>1, <2>1, <2>2 DEF ToCome
<1>8. CASE StopKind
  <2>1. UNCHANGED pc
    BY <1>8 DEF StopKind, StopCall, StopWake, StopTimeout, IdleTimerFires,
                IdleCommit, finishStopCommit, loopVars
  <2> QED BY <1>2, <1>8, <2>1, StopFrame
             DEF StopKind, stopFrame, preVars, watchVars
<1>9. CASE UNCHANGED vars
  BY <1>2, <1>9 DEF vars, preVars, loopVars, watchVars
<1> QED
  BY <1>3, <1>4, <1>5, <1>6, <1>7, <1>8, <1>9, NextKinds

-----------------------------------------------------------------------------
\* Requests and their acknowledgement channels.

\* Whoever holds requests may close their channels: all of them are open.
Holds(req) == req \subseteq Items /\ \A i \in req : ack[i] = "open"

\* Answering requests that are held closes their channels and no other.
LEMMA AckedHeld ==
    ASSUME TypeOK, NEW req, Holds(req), ack' = Acked(req), NEW i \in Items
    PROVE  ack'[i] = IF i \in req THEN "closed" ELSE ack[i]
  BY DEF Holds, Acked

ackView == <<ack, delayed, pending, watchReq>>

\* A step that concerns neither a channel nor its holder.
LEMMA AckStable ==
    ASSUME TypeOK, NoChannelYet, AckHasOneHolder, UNCHANGED ackView,
           \A i \in Items : pushPC'[i] = "request" <=> pushPC[i] = "request",
           \A i \in Items : pushPC'[i] # pushPC[i]
              => \/ ack[i] = "none"
                 \/ pushPC'[i] \notin {"ready", "begin", "check", "send", "late"}
    PROVE  NoChannelYet' /\ AckHasOneHolder'
<1>1. AckHasOneHolder'
  BY DEF AckHasOneHolder, OneHolder, Watching, ackView
<1>2. NoChannelYet'
  BY DEF NoChannelYet, ackView
<1> QED BY <1>1, <1>2

\* A holder answers the requests req it held, and nothing else changes.
LEMMA AckAnswered ==
    ASSUME TypeOK, NoChannelYet, AckHasOneHolder,
           NEW req, Holds(req), ack' = Acked(req),
           \A i \in Items \ req :
             /\ pushPC'[i] = pushPC[i] /\ delayed'[i] = delayed[i]
             /\ i \in pending' <=> i \in pending
             /\ \A t \in Turns : i \in watchReq'[t] <=> i \in watchReq[t],
           \A i \in req :
             /\ pushPC'[i] \notin {"ready", "begin", "check", "send", "late",
                                   "request"}
             /\ ~delayed'[i] /\ i \notin pending'
             /\ \A t \in Turns : i \notin watchReq'[t]
    PROVE  NoChannelYet' /\ AckHasOneHolder'
<1>1. \A i \in Items : ack'[i] = IF i \in req THEN "closed" ELSE ack[i]
  BY AckedHeld
<1>2. NoChannelYet'
  BY <1>1 DEF NoChannelYet
<1>3. ASSUME NEW i \in Items PROVE OneHolder(i)'
  <2>1. OneHolder(i)
    BY DEF AckHasOneHolder
  <2>2. CASE i \in req
    BY <1>1, <2>2 DEF OneHolder, Watching
  <2>3. CASE i \notin req
    BY <1>1, <2>1, <2>3 DEF OneHolder, Watching
  <2> QED BY <2>2, <2>3
<1> QED BY <1>2, <1>3 DEF AckHasOneHolder

\* Every holder of requests holds open channels.
LEMMA PushHolds ==
    ASSUME TypeOK, NoChannelYet, AckHasOneHolder
    PROVE  /\ Holds(pending)
           /\ \A t \in Turns : Holds(watchReq[t])
           /\ \A i \in Items : pushPC[i] = "request" \/ delayed[i] => Holds({i})
  BY DEF Holds, AckHasOneHolder, OneHolder, Watching, TypeOK, PreTypeOK,
         TurnsTypeOK

\* No item with a channel held elsewhere is in the hands of its push.
LEMMA HeldElsewhere ==
    ASSUME TypeOK, NoChannelYet, AckHasOneHolder, NEW i \in Items
    PROVE  /\ (i \in pending \/ \E t \in Turns : i \in watchReq[t])
                => /\ pushPC[i] \notin {"ready", "begin", "check", "send",
                                        "late", "request"}
                   /\ ~delayed[i]
           /\ i \in pending => \A t \in Turns : i \notin watchReq[t]
           /\ delayed[i] => pushPC[i] \notin {"ready", "begin", "check", "send",
                                              "late", "request"}
<1>1. OneHolder(i)
  BY DEF AckHasOneHolder
<1>2. ack[i] = "open" => pushPC[i] \notin {"ready", "begin", "check", "send", "late"}
  BY DEF NoChannelYet
<1> QED BY <1>1, <1>2 DEF OneHolder, Watching

\* requestPreempt, by a push or by its delay goroutine.
LEMMA RequestAck ==
    ASSUME TypeOK, NoChannelYet, AckHasOneHolder, NEW i \in Items,
           pushPC[i] = "request" \/ delayed[i],
           requestPreempt(i, target[i]), UNCHANGED watchReq,
           \A j \in Items \ {i} : pushPC'[j] = pushPC[j] /\ delayed'[j] = delayed[j],
           ~delayed'[i],
           pushPC'[i] \notin {"ready", "begin", "check", "send", "late", "request"}
    PROVE  NoChannelYet' /\ AckHasOneHolder'
<1>1. /\ Holds({i})
      /\ i \notin pending /\ \A t \in Turns : i \notin watchReq[t]
  BY PushHolds, HeldElsewhere
<1>2. CASE Stale(target[i])
  BY <1>1, <1>2, AckAnswered DEF requestPreempt
<1>3. CASE ~Stale(target[i])
  <2>1. pending' = pending \cup {i} /\ UNCHANGED ack
    BY <1>3 DEF requestPreempt
  <2>2. NoChannelYet'
    BY <2>1 DEF NoChannelYet
  <2>3. ASSUME NEW j \in Items PROVE OneHolder(j)'
    <3>1. OneHolder(j)
      BY DEF AckHasOneHolder
    <3>2. CASE j # i
      BY <2>1, <3>1, <3>2 DEF OneHolder, Watching
    <3>3. CASE j = i
      <4>1. ack[i] = "open"
        BY <1>1 DEF Holds
      <4> QED BY <1>1, <2>1, <3>3, <4>1 DEF OneHolder, Watching
    <3> QED BY <3>2, <3>3
  <2> QED BY <2>2, <2>3 DEF AckHasOneHolder
<1> QED BY <1>2, <1>3

\* Every step preserves the one holder of each open channel.
LEMMA AckNext ==
    ASSUME TypeOK, PhaseOK, PendingTargetsTurn, PushSections, NoChannelYet,
           AckHasOneHolder, WatchersOK, [Next]_vars
    PROVE  NoChannelYet' /\ AckHasOneHolder'
<1>1. CASE UNCHANGED <<ackView, pushPC>>
  BY <1>1, AckStable
<1>2. ASSUME NEW i \in Items, PushCall(i) \/ PushBegin(i)
      PROVE  NoChannelYet' /\ AckHasOneHolder'
  <2>1. pushPC[i] \in {"ready", "begin", "check"} /\ ack[i] = "none"
    BY <1>2 DEF PushCall, PushBegin, NoChannelYet
  <2>2. UNCHANGED <<delayed, ack, watchReq, pending>>
    BY <1>2
       DEF PushCall, PushBegin, EnterPush, CheckStopped, beginPush, preVars,
           pushFrame, watchVars
  <2>3. \E l \in {"check", "send", "late", "begin"} :
          pushPC' = [pushPC EXCEPT ![i] = l]
    BY <1>2 DEF PushCall, PushBegin, EnterPush, CheckStopped
  <2>4. \A j \in Items : pushPC'[j] = "request" <=> pushPC[j] = "request"
    BY <2>1, <2>3 DEF TypeOK, CallersTypeOK
  <2>5. \A j \in Items : pushPC'[j] # pushPC[j] => ack[j] = "none"
    BY <2>1, <2>3 DEF TypeOK, CallersTypeOK
  <2> QED BY <2>2, <2>4, <2>5, AckStable DEF ackView
<1>3. ASSUME NEW i \in Items, PushSend(i)
      PROVE  NoChannelYet' /\ AckHasOneHolder'
  <2>1. pushPC[i] = "send" /\ ack[i] = "none"
    BY <1>3 DEF PushSend, NoChannelYet
  <2>2. UNCHANGED <<pending, watchReq>>
    BY <1>3 DEF PushSend, preVars, pushFrame, watchVars
  <2>3. /\ ~delayed[i] /\ i \notin pending
        /\ \A t \in Turns : i \notin watchReq[t]
    BY <2>1, HeldElsewhere
  <2>4. \A j \in Items \ {i} :
          pushPC'[j] = pushPC[j] /\ ack'[j] = ack[j] /\ delayed'[j] = delayed[j]
    BY <1>3 DEF PushSend, TypeOK, CallersTypeOK, PreTypeOK
  <2>5. \/ pushPC'[i] = "late" /\ ack'[i] = "none" /\ ~delayed'[i]
        \/ pushPC'[i] \in {"end", "returned"} /\ ack'[i] \in {"none", "closed"} /\ ~delayed'[i]
        \/ pushPC'[i] = "end" /\ ack'[i] = "open" /\ delayed'[i]
        \/ pushPC'[i] = "request" /\ ack'[i] = "open" /\ ~delayed'[i]
    <3>1. CASE ~CanSend
      BY <1>3, <2>1, <2>3, <3>1 DEF PushSend, TypeOK, CallersTypeOK
    <3>2. CASE CanSend /\ ~pushMode[i].preempt
      BY <1>3, <2>1, <2>3, <3>2 DEF PushSend, AfterPush, TypeOK, CallersTypeOK
    <3>3. CASE CanSend /\ pushMode[i].preempt /\ ~started
      BY <1>3, <2>1, <2>3, <3>3 DEF PushSend, TypeOK, CallersTypeOK, PreTypeOK
    <3>4. CASE CanSend /\ pushMode[i].preempt /\ started
      <4>1. pushMode[i].delay \in BOOLEAN
        BY DEF TypeOK, CallersTypeOK, PushOptions
      <4> QED BY <1>3, <3>4, <4>1 DEF PushSend, TypeOK, CallersTypeOK, PreTypeOK
    <3> QED BY <3>1, <3>2, <3>3, <3>4
  <2>6. NoChannelYet'
    BY <2>4, <2>5 DEF NoChannelYet
  <2>7. ASSUME NEW j \in Items PROVE OneHolder(j)'
    <3>1. CASE j # i
      BY <2>2, <2>4, <3>1 DEF AckHasOneHolder, OneHolder, Watching
    <3>2. CASE j = i
      BY <2>2, <2>3, <2>5, <3>2 DEF OneHolder, Watching
    <3> QED BY <3>1, <3>2
  <2> QED BY <2>6, <2>7 DEF AckHasOneHolder
<1>4. ASSUME NEW i \in Items, PushLate(i) \/ PushEnd(i)
      PROVE  NoChannelYet' /\ AckHasOneHolder'
  <2>1. pushPC[i] \in {"late", "end"}
    BY <1>4 DEF PushLate, PushEnd
  <2>2. UNCHANGED ackView
    BY <1>4 DEF PushLate, PushEnd, endPush, preVars, ackView, pushFrame,
                watchVars
  <2>3. pushPC' \in {[pushPC EXCEPT ![i] = "end"], [pushPC EXCEPT ![i] = "returned"]}
    BY <1>4 DEF PushLate, PushEnd, AfterPush
  <2>4. \A j \in Items : pushPC'[j] = "request" <=> pushPC[j] = "request"
    BY <2>1, <2>3 DEF TypeOK, CallersTypeOK
  <2>5. \A j \in Items : pushPC'[j] # pushPC[j] => pushPC'[j] \in {"end", "returned"}
    BY <2>1, <2>3 DEF TypeOK, CallersTypeOK
  <2> QED BY <2>2, <2>4, <2>5, AckStable
<1>5. ASSUME NEW i \in Items, PushRequest(i)
      PROVE  NoChannelYet' /\ AckHasOneHolder'
  <2>1. /\ pushPC[i] = "request" /\ requestPreempt(i, target[i])
        /\ pushPC' = [pushPC EXCEPT ![i] = "end"] /\ UNCHANGED <<watchReq, delayed>>
    BY <1>5 DEF PushRequest, pushFrame, watchVars
  <2>2. ~delayed[i]
    BY <2>1 DEF AckHasOneHolder, OneHolder
  <2> QED BY <2>1, <2>2, RequestAck DEF TypeOK, CallersTypeOK
<1>6. ASSUME NEW i \in Items, DelayFires(i)
      PROVE  NoChannelYet' /\ AckHasOneHolder'
  <2>1. /\ delayed[i] /\ delayed' = [delayed EXCEPT ![i] = FALSE]
        /\ UNCHANGED <<pushPC, watchReq>>
    BY <1>6 DEF DelayFires, pushFrame, watchVars
  <2>2. /\ pushPC[i] \notin {"ready", "begin", "check", "send", "late", "request"}
        /\ Holds({i}) /\ i \notin pending /\ \A t \in Turns : i \notin watchReq[t]
    BY <2>1, HeldElsewhere, PushHolds
  <2>3. ~delayed'[i] /\ \A j \in Items \ {i} : delayed'[j] = delayed[j]
    BY <2>1 DEF TypeOK, CallersTypeOK
  <2>4. CASE requestPreempt(i, target[i])
    BY <2>1, <2>2, <2>3, <2>4, RequestAck
  <2>5. CASE ack' = Acked({i}) /\ UNCHANGED pending
    BY <2>1, <2>2, <2>3, <2>5, AckAnswered
  <2> QED BY <1>6, <2>4, <2>5 DEF DelayFires, preVars
<1>7. ASSUME ack' = Acked(pending), pending' = {},
             UNCHANGED <<pushPC, delayed, watchReq>>
      PROVE  NoChannelYet' /\ AckHasOneHolder'
  <2>1. Holds(pending)
    BY PushHolds
  <2>2. \A i \in pending :
          /\ pushPC[i] \notin {"ready", "begin", "check", "send", "late", "request"}
          /\ ~delayed[i] /\ \A t \in Turns : i \notin watchReq[t]
    BY <2>1, HeldElsewhere DEF Holds
  <2> QED BY <1>7, <2>1, <2>2, AckAnswered
<1>8. CASE LoopStep
  <2>1. UNCHANGED <<pushPC, delayed>>
    BY <1>8, LoopFrame DEF others, pushVars
  <2>2. UNCHANGED watchReq
    BY <1>8, LoopTurnFrame DEF Activate, Launch, watchVars
  <2>3. \/ UNCHANGED <<ack, pending>>
        \/ ack' = Acked(pending) /\ pending' = {}
    BY <1>8
       DEF LoopStep, tryLoadCheckpoint, LoopTop, WaitForPushes, ResumeTake,
           IdleQuery, LoopReceive, RecheckIdle, GotFirst, TakeRest,
           BeginPlanning, planTurn, PrepareAgent, AbortPlanning, Activate,
           Launch, TurnReturns, EndStop, EndPreempt, Cleanup, TakeUnhandled,
           PersistResult, CloseControllers, CloseBuffer, beginPlanningTurn,
           abortPlanningTurn, preBeginActiveTurn, preEndActiveTurn,
           preCloseForLoopExit, preVars
  <2> QED BY <1>1, <1>7, <2>1, <2>2, <2>3 DEF ackView
<1>9. CASE TurnKind
  <2>1. PICK t \in Turns : TurnStep(t)
    BY <1>9 DEF TurnKind
  <2>2. UNCHANGED <<pushPC, delayed>>
    BY <2>1, TurnFrame DEF agentFrame, pushVars
  <2>3. CASE UNCHANGED <<ack, pending, watchReq>>
    BY <1>1, <2>2, <2>3 DEF ackView
  <2>4. CASE /\ watchP[t] = "notified" /\ CanReceivePreempt
             /\ pending' = {} /\ UNCHANGED ack
             /\ watchReq' = [watchReq EXCEPT ![t] = pending]
    <3>1. watchReq[t] = {}
      BY <2>4 DEF WatchersOK
    <3>2. \A u \in Turns, i \in Items :
            i \in watchReq'[u] <=> i \in watchReq[u] \/ (u = t /\ i \in pending)
      BY <2>4, <3>1 DEF TypeOK, TurnsTypeOK
    <3>3. NoChannelYet'
      BY <2>2, <2>4 DEF NoChannelYet
    <3>4. ASSUME NEW i \in Items PROVE OneHolder(i)'
      <4>1. OneHolder(i)
        BY DEF AckHasOneHolder
      <4>2. CASE i \in pending
        BY <2>2, <2>4, <3>2, <4>1, <4>2 DEF OneHolder, Watching
      <4>3. CASE i \notin pending
        BY <2>2, <2>4, <3>2, <4>1, <4>3 DEF OneHolder, Watching
      <4> QED BY <4>2, <4>3
    <3> QED BY <3>3, <3>4 DEF AckHasOneHolder
  <2>5. CASE /\ ack' = Acked(watchReq[t]) /\ UNCHANGED pending
             /\ watchReq' = [watchReq EXCEPT ![t] = {}]
    <3>1. Holds(watchReq[t])
      BY PushHolds
    <3>2. \A i \in watchReq[t] :
            /\ pushPC[i] \notin {"ready", "begin", "check", "send", "late", "request"}
            /\ ~delayed[i] /\ i \notin pending
      BY <3>1, HeldElsewhere DEF Holds
    <3>3. \A i \in watchReq[t] : \A u \in Turns : i \notin watchReq'[u]
      BY <2>5, <3>1 DEF AckHasOneHolder, OneHolder, Watching, Holds, TypeOK,
                        TurnsTypeOK
    <3>4. \A i \in Items \ watchReq[t] : \A u \in Turns :
            i \in watchReq'[u] <=> i \in watchReq[u]
      BY <2>5 DEF TypeOK, TurnsTypeOK
    <3> QED BY <2>2, <2>5, <3>1, <3>2, <3>3, <3>4, AckAnswered
  <2>6. CASE WatchPreempt(t) /\ watchP[t] = "notified" /\ ~CanReceivePreempt
    <3>1. watchReq[t] = {}
      BY <2>6 DEF WatchersOK
    <3>2. watchReq' = [watchReq EXCEPT ![t] = {}] /\ UNCHANGED <<ack, pending>>
      BY <2>6 DEF WatchPreempt, watchPreempt, receivePreempt
    <3>3. watchReq' = watchReq
      BY <3>1, <3>2 DEF TypeOK, TurnsTypeOK
    <3> QED BY <2>3, <3>2, <3>3
  <2>7. CASE WatchPreempt(t) /\ watchP[t] = "notified" /\ CanReceivePreempt
    BY <2>4, <2>7 DEF WatchPreempt, watchPreempt, receivePreempt
  <2>8. CASE WatchPreempt(t) /\ watchP[t] # "notified"
    BY <2>3, <2>5, <2>8 DEF WatchPreempt, watchPreempt, preVars
  <2>9. CASE ~WatchPreempt(t)
    BY <2>1, <2>3, <2>9
       DEF TurnStep, AgentEnds, MarkDone, HandlerStep, HandlerReturns,
           HandlerReturnsEarly, ProxyLate, WatchStop, watchVars, preVars
  <2> QED BY <2>6, <2>7, <2>8, <2>9
<1>10. CASE Restart
  <2>1. pending = {}
    BY <1>10 DEF Restart, PendingTargetsTurn, PhaseOK, PhaseAt, TypeOK, PreTypeOK
  <2>2. UNCHANGED <<pushPC, delayed, ack>> /\ pending' = {}
    BY <1>10 DEF Restart
  <2>3. \A t \in Turns : watchReq[t] = {} /\ watchReq'[t] = {}
    BY <1>10 DEF Restart, PerTurn
  <2>4. \A i \in Items : OneHolder(i)'
    BY <2>1, <2>2, <2>3 DEF AckHasOneHolder, OneHolder, Watching
  <2>5. NoChannelYet'
    BY <2>2 DEF NoChannelYet
  <2> QED BY <2>4, <2>5 DEF AckHasOneHolder
<1>11. CASE StopKind \/ EnvKind \/ UNCHANGED vars
  BY <1>1, <1>11, StopFrame, EnvFrame
     DEF StopKind, EnvKind, stopFrame, envFrame, vars, pushVars, preVars,
         watchVars, ackView
<1> QED
  BY <1>2, <1>3, <1>4, <1>5, <1>6, <1>8, <1>9, <1>10, <1>11, NextKinds
     DEF PushKind, PushStep

\* Every step keeps pending requests on the current turn.
LEMMA PendingNext ==
    ASSUME TypeOK, PhaseOK, PendingTargetsTurn, NoChannelYet, AckHasOneHolder,
           [Next]_vars
    PROVE  PendingTargetsTurn'
<1>1. ASSUME \A i \in pending' : i \in pending /\ target'[i] = target[i],
             UNCHANGED <<turnPhase, turnID>>
      PROVE  PendingTargetsTurn'
  BY <1>1 DEF PendingTargetsTurn
<1>2. CASE pending' = {}
  BY <1>2 DEF PendingTargetsTurn
<1>3. ASSUME NEW i \in Items, requestPreempt(i, target[i]), UNCHANGED target
      PROVE  PendingTargetsTurn'
  <2>1. UNCHANGED <<turnPhase, turnID>>
    BY <1>3 DEF requestPreempt
  <2>2. CASE Stale(target[i])
    BY <1>1, <1>3, <2>1, <2>2 DEF requestPreempt
  <2>3. CASE ~Stale(target[i])
    BY <1>3, <2>1, <2>3 DEF requestPreempt, Stale, PendingTargetsTurn
  <2> QED BY <2>2, <2>3
<1>4. CASE PushKind
  <2>1. PICK i \in Items : PushCall(i) \/ PushStep(i) \/ DelayFires(i)
    BY <1>4 DEF PushKind
  <2>2. CASE PushCall(i) \/ PushBegin(i)
    <3>1. ack[i] = "none"
      BY <2>2 DEF PushCall, PushBegin, NoChannelYet
    <3>2. i \notin pending
      BY <3>1 DEF AckHasOneHolder, OneHolder
    <3>3. /\ UNCHANGED <<turnPhase, turnID, pending>>
          /\ target' = target \/ target' = [target EXCEPT ![i] = TargetTurn]
      BY <2>2 DEF PushCall, PushBegin, EnterPush, CheckStopped, beginPush,
                  preVars
    <3>4. \A j \in pending : target'[j] = target[j]
      BY <3>2, <3>3 DEF TypeOK, CallersTypeOK, PreTypeOK
    <3> QED BY <1>1, <3>3, <3>4
  <2>3. CASE PushSend(i) \/ PushLate(i) \/ PushEnd(i)
    BY <1>1, <2>3 DEF PushSend, PushLate, PushEnd, endPush, preVars
  <2>4. CASE PushRequest(i)
    BY <1>3, <2>4 DEF PushRequest
  <2>5. CASE DelayFires(i)
    BY <1>1, <1>3, <2>5 DEF DelayFires, preVars
  <2> QED BY <2>1, <2>2, <2>3, <2>4, <2>5 DEF PushStep
<1>5. CASE LoopStep
  <2>1. UNCHANGED target
    BY <1>5, LoopFrame DEF others, pushVars
  <2>2. CASE BeginPlanning
    <3>1. turnPhase = "idle"
      BY <2>2 DEF BeginPlanning, PhaseOK, PhaseAt
    <3>2. pending = {}
      BY <3>1 DEF PendingTargetsTurn
    <3> QED BY <1>2, <2>2, <3>2 DEF BeginPlanning, beginPlanningTurn
  <2>3. CASE Activate
    BY <2>1, <2>3 DEF Activate, preBeginActiveTurn, PendingTargetsTurn
  <2>4. CASE ~BeginPlanning /\ ~Activate
    <3>1. pending' = {} \/ UNCHANGED <<pending, turnPhase, turnID>>
      BY <1>5, <2>4
         DEF LoopStep, tryLoadCheckpoint, LoopTop, WaitForPushes, ResumeTake,
             IdleQuery, LoopReceive, RecheckIdle, GotFirst, TakeRest,
             planTurn, PrepareAgent, AbortPlanning, Launch, TurnReturns,
             EndStop, EndPreempt, Cleanup, TakeUnhandled, PersistResult,
             CloseControllers, CloseBuffer, abortPlanningTurn,
             preEndActiveTurn, preCloseForLoopExit, preVars
    <3> QED BY <1>1, <1>2, <2>1, <3>1
  <2> QED BY <2>2, <2>3, <2>4
<1>6. CASE TurnKind
  <2>1. PICK t \in Turns : TurnStep(t)
    BY <1>6 DEF TurnKind
  <2>2. UNCHANGED target
    BY <2>1, TurnFrame DEF agentFrame, pushVars
  <2>3. pending' \in {pending, {}} /\ UNCHANGED <<turnPhase, turnID>>
    BY <2>1
       DEF TurnStep, AgentEnds, MarkDone, HandlerStep, HandlerReturns,
           HandlerReturnsEarly, ProxyLate, WatchPreempt, watchPreempt,
           receivePreempt, WatchStop, preVars
  <2> QED BY <1>1, <1>2, <2>2, <2>3
<1>7. CASE Restart
  BY <1>2, <1>7 DEF Restart
<1>8. CASE StopKind \/ EnvKind \/ UNCHANGED vars
  BY <1>1, <1>8, StopFrame, EnvFrame
     DEF StopKind, EnvKind, stopFrame, envFrame, vars, pushVars, preVars
<1> QED
  BY <1>4, <1>5, <1>6, <1>7, <1>8, NextKinds

-----------------------------------------------------------------------------
\* The invariant holds initially and is preserved by every step.

\* The initial states satisfy the invariant.
LEMMA IInvInit == Init => IInv
<1> SUFFICES ASSUME Init PROVE IInv
  OBVIOUS
<1>1. TypeOK
  BY TypeInit
<1>2. PhaseOK /\ TurnNumbered /\ PendingTargetsTurn
  BY DEF Init, PreInit, PhaseOK, PhaseAt, TurnNumbered, PendingTargetsTurn
<1>3. PushSections
  BY DEF Init, PushSections, InSection
<1>4. InFlightCounts
  <2>1. PushesIn = {} /\ pushInFlight = 0
    BY DEF Init, PreInit, PushesIn
  <2> QED BY <2>1, FS_EmptySet DEF InFlightCounts
<1>5. NoChannelYet
  BY DEF Init, NoChannelYet
<1>6. AckHasOneHolder
  BY DEF Init, PreInit, PerTurn, AckHasOneHolder, OneHolder, Watching
<1>7. WatchersOK
  BY DEF Init, PerTurn, WatchersOK
<1> QED BY <1>1, <1>2, <1>3, <1>4, <1>5, <1>6, <1>7 DEF IInv

\* Every step preserves the invariant.
LEMMA IInvNext == IInv /\ [Next]_vars => IInv'
  BY TypeNext, PhaseNext, PendingNext, SectionsNext, InFlightNext, AckNext,
     WatchersNext DEF IInv

\* IInv is an invariant of the specification.
THEOREM Invariance == Spec => []IInv
  BY IInvInit, IInvNext, PTL DEF Spec

\* Every variable keeps its type (struct AgentLoop and its parts).
THEOREM TypeCorrect == Spec => []TypeOK
<1>1. IInv => TypeOK
  BY DEF IInv
<1> QED BY <1>1, Invariance, PTL

\* No method of the preempt controller panics, and no acknowledgement channel
\* is closed twice, whatever the interleaving (requirePhaseLocked,
\* requireNoPendingLocked, endPush, preemptRequest.ack).
THEOREM NeverPanics == Spec => []NoPanic
<1>1. IInv => NoPanic
  <2> SUFFICES ASSUME IInv PROVE NoPanic
    OBVIOUS
  <2>1. pc = "begin" => pending = {}
    BY DEF IInv, PhaseOK, PhaseAt, PendingTargetsTurn
  <2>2. ASSUME NEW i \in Items, pushPC[i] = "end" PROVE pushInFlight > 0
    <3>1. i \in PushesIn
      BY <2>2 DEF IInv, PushSections, InSection, PushesIn
    <3>2. IsFiniteSet(PushesIn)
      BY ConstantsAssumption, FS_Subset DEF PushesIn
    <3>3. Cardinality(PushesIn) \in Nat /\ Cardinality(PushesIn) # 0
      BY <3>1, <3>2, FS_CardinalityType, FS_EmptySet
    <3> QED BY <3>3 DEF IInv, InFlightCounts
  <2> QED BY <2>1, <2>2 DEF IInv, PhaseOK, NoChannelYet, NoPanic
<1> QED BY <1>1, Invariance, PTL

\* Preempt requests are turn-targeted (requestPreempt).
THEOREM RequestsTargetTheTurn == Spec => []PendingTargetsTurn
<1>1. IInv => PendingTargetsTurn
  BY DEF IInv
<1> QED BY <1>1, Invariance, PTL

\* Every open acknowledgement channel has one holder (requestPreempt,
\* receivePreempt, watchPreempt, the delay goroutines of Push).
THEOREM OpenAcksHaveOneHolder == Spec => []AckHasOneHolder
<1>1. IInv => AckHasOneHolder
  BY DEF IInv
<1> QED BY <1>1, Invariance, PTL

-----------------------------------------------------------------------------
\* Where the items may be: the loop holds items only between Receive and the
\* end of planning, reports unhandled ones only when it exits, and keeps a
\* pending resume only until it is planned, or for good if the loop exits
\* first.  The items a planned turn consumes are the first it holds.
PlanningPCs == {"gotFirst", "pushWait", "takeRest", "begin", "plan", "prepare",
                "abort"}
ExitPCs == {"persist", "closeControllers", "closeBuffer", "exited"}
ResumePCs == {"top", "resumeWait", "resumeTake", "cleanup", "takeUnhandled"}
                \cup ExitPCs

ItemsWhere ==
    /\ items # <<>> => pc \in PlanningPCs
    /\ unhandled # <<>> => pc \in ExitPCs
    /\ pc \in {"new", "load"} => handed = <<>>
    /\ pendingResume # NoResume => pc \in ResumePCs
    /\ pc = "prepare" => /\ Len(consumed) <= Len(items)
                         /\ consumed = SubSeq(items, 1, Len(consumed))

ItemsInv == TypeOK /\ ItemsWhere /\ ItemsConserved
-----------------------------------------------------------------------------
\* The ledger, grouped: what is settled, then what the loop and the buffer hold.
Settled == handed \o pendingResume.interrupted \o pendingResume.unhandled
             \o pendingResume.newItems \o unhandled
Ledger == accepted = Settled \o (items \o buf)

\* Concatenation of sequences of items is associative and <<>> its unit.
LEMMA Assoc ==
    ASSUME NEW s \in Seq(Items), NEW t \in Seq(Items), NEW u \in Seq(Items)
    PROVE  (s \o t) \o u = s \o (t \o u)
  BY ConcatAssociative

\* The empty sequence is the unit of concatenation.
LEMMA Unit ==
    ASSUME NEW s \in Seq(Items)
    PROVE  s \o <<>> = s /\ <<>> \o s = s
  BY ConcatEmptySeq

\* A sequence is what its first k elements and the others make.
LEMMA SplitAt ==
    ASSUME NEW s \in Seq(Items), NEW k \in 0..Len(s)
    PROVE  SubSeq(s, 1, k) \o SubSeq(s, k + 1, Len(s)) = s
<1>1. Len(s) \in Nat
  OBVIOUS
<1>2. 1 \in 1..(Len(s) + 1) /\ k \in (1 - 1)..Len(s) /\ Len(s) \in k..Len(s)
  BY <1>1
<1>3. SubSeq(s, 1, k) \o SubSeq(s, k + 1, Len(s)) = SubSeq(s, 1, Len(s))
  BY <1>2, ConcatAdjacentSubSeq
<1> QED BY <1>3, SubSeqFull

\* The parts of the ledger are sequences of items.
LEMMA LedgerTypes ==
    ASSUME TypeOK
    PROVE  /\ accepted \in Seq(Items) /\ handed \in Seq(Items)
           /\ pendingResume.interrupted \in Seq(Items)
           /\ pendingResume.unhandled \in Seq(Items)
           /\ pendingResume.newItems \in Seq(Items)
           /\ unhandled \in Seq(Items) /\ items \in Seq(Items)
           /\ buf \in Seq(Items) /\ consumed \in Seq(Items)
           /\ Settled \in Seq(Items)
<1>1. /\ pendingResume.interrupted \in Seq(Items)
      /\ pendingResume.unhandled \in Seq(Items)
      /\ pendingResume.newItems \in Seq(Items)
  BY DEF TypeOK, PlanTypeOK, Resumes
<1>2. /\ accepted \in Seq(Items) /\ handed \in Seq(Items)
      /\ unhandled \in Seq(Items) /\ items \in Seq(Items)
      /\ buf \in Seq(Items) /\ consumed \in Seq(Items)
  BY DEF TypeOK, PlanTypeOK, StoreTypeOK, ResultTypeOK, BufTypeOK
<1>3. Settled \in Seq(Items)
  BY <1>1, <1>2, SeqTypes DEF Settled
<1> QED BY <1>1, <1>2, <1>3

\* Grouping does not matter.
LEMMA LedgerIsConserved ==
    ASSUME TypeOK
    PROVE  Ledger <=> ItemsConserved
<1>1. Settled \in Seq(Items) /\ items \in Seq(Items) /\ buf \in Seq(Items)
  BY LedgerTypes
<1>2. (Settled \o items) \o buf = Settled \o (items \o buf)
  BY <1>1, Assoc
<1> QED BY <1>2 DEF Ledger, ItemsConserved, Settled

\* Without a pending resume and unhandled items, only the handed ones are
\* settled.
LEMMA SettledHanded ==
    ASSUME TypeOK, pendingResume = NoResume, unhandled = <<>>
    PROVE  Settled = handed
<1>1. /\ pendingResume.interrupted = <<>> /\ pendingResume.unhandled = <<>>
      /\ pendingResume.newItems = <<>>
  BY DEF NoResume
<1>2. handed \o <<>> = handed
  BY LedgerTypes, Unit
<1> QED BY <1>1, <1>2 DEF Settled

-----------------------------------------------------------------------------
\* Every step keeps the items where they may be.
LEMMA WhereNext ==
    ASSUME TypeOK, ItemsWhere, [Next]_vars
    PROVE  ItemsWhere'
<1>1. CASE UNCHANGED <<pc, items, unhandled, handed, pendingResume, consumed>>
  BY <1>1 DEF ItemsWhere
<1>2. CASE LoopStep
  <2>1. CASE tryLoadCheckpoint
    BY <2>1 DEF tryLoadCheckpoint, goto, exitWith, ItemsWhere, PlanningPCs,
                ExitPCs, ResumePCs, planFrame, resultVars
  <2>2. CASE ResumeTake
    BY <2>2 DEF ResumeTake, goto, ItemsWhere, PlanningPCs, ExitPCs, ResumePCs,
                planFrame, resultVars, history
  <2>3. CASE LoopReceive
    BY <2>3 DEF LoopReceive, goto, ItemsWhere, PlanningPCs, ExitPCs, ResumePCs,
                planFrame, resultVars, history
  <2>4. CASE GotFirst
    BY <2>4 DEF GotFirst, GiveBack, goto, exitWith, ItemsWhere, PlanningPCs,
                ExitPCs, ResumePCs, planFrame, resultVars, history
  <2>5. CASE TakeRest
    BY <2>5 DEF TakeRest, goto, ItemsWhere, PlanningPCs, ExitPCs, ResumePCs,
                planFrame, resultVars, history
  <2>6. CASE planTurn
    <3>1. UNCHANGED <<items, unhandled, handed, pendingResume>>
      BY <2>6 DEF planTurn, planFrame, resultVars, history
    <3>2. pc = "plan" /\ pc' \in {"abort", "prepare"}
      BY <2>6 DEF planTurn, goto
    <3>3. ASSUME pc' = "prepare"
          PROVE  /\ Len(consumed') <= Len(items)
                 /\ consumed' = SubSeq(items, 1, Len(consumed'))
      <4>1. PICK k \in 0..Len(items) : consumed' = SubSeq(items, 1, k)
        BY <2>6, <3>3 DEF planTurn, goto
      <4>2. Len(consumed') = k
        BY <4>1, LedgerTypes
      <4> QED BY <4>1, <4>2, LedgerTypes
    <3> QED BY <3>1, <3>2, <3>3 DEF ItemsWhere, PlanningPCs, ExitPCs, ResumePCs
  <2>7. CASE PrepareAgent
    BY <2>7 DEF PrepareAgent, goto, ItemsWhere, PlanningPCs, ExitPCs, ResumePCs,
                planFrame, resultVars
  <2>8. CASE AbortPlanning
    BY <2>8 DEF AbortPlanning, GiveBack, goto, exitWith, ItemsWhere,
                PlanningPCs, ExitPCs, ResumePCs, planFrame, resultVars, history
  <2>9. CASE EndPreempt
    BY <2>9 DEF EndPreempt, goto, exitWith, ItemsWhere, PlanningPCs, ExitPCs,
                ResumePCs, turnFrame, history
  <2>10. CASE TakeUnhandled
    BY <2>10 DEF TakeUnhandled, goto, ItemsWhere, PlanningPCs, ExitPCs,
                 ResumePCs, planVars, history
  <2>11. CASE LoopTop \/ WaitForPushes \/ IdleQuery \/ RecheckIdle
    <3>1. UNCHANGED <<items, unhandled, handed, pendingResume, consumed>>
      BY <2>11 DEF LoopTop, WaitForPushes, IdleQuery, RecheckIdle, planVars,
                   planFrame, resultVars, history
    <3> QED BY <2>11, <3>1
               DEF LoopTop, WaitForPushes, IdleQuery, RecheckIdle, goto,
                   exitWith, ItemsWhere, PlanningPCs, ExitPCs, ResumePCs
  <2>12. CASE BeginPlanning \/ Activate \/ Launch \/ TurnReturns \/ EndStop
    <3>1. UNCHANGED <<items, unhandled, handed, pendingResume, consumed>>
      BY <2>12 DEF BeginPlanning, Activate, Launch, TurnReturns, EndStop,
                   planVars, planFrame, turnFrame, resultVars, history
    <3> QED BY <2>12, <3>1
               DEF BeginPlanning, Activate, Launch, TurnReturns, EndStop, goto,
                   ItemsWhere, PlanningPCs, ExitPCs, ResumePCs
  <2>13. CASE Cleanup \/ PersistResult \/ CloseControllers \/ CloseBuffer
    <3>1. UNCHANGED <<items, unhandled, handed, pendingResume, consumed>>
      BY <2>13 DEF Cleanup, PersistResult, CloseControllers, CloseBuffer,
                   planVars, planFrame, turnFrame, resultVars, history
    <3> QED BY <2>13, <3>1
               DEF Cleanup, PersistResult, CloseControllers, CloseBuffer, goto,
                   ItemsWhere, PlanningPCs, ExitPCs, ResumePCs
  <2> QED BY <1>2, <2>1, <2>2, <2>3, <2>4, <2>5, <2>6, <2>7, <2>8, <2>9, <2>10,
             <2>11, <2>12, <2>13 DEF LoopStep
<1>3. CASE EnvKind
  <2>1. UNCHANGED <<items, unhandled, handed, pendingResume, consumed>>
    BY <1>3, EnvFrame DEF EnvKind, envFrame, planVars, resultVars, history
  <2>2. pc' = pc \/ (pc = "new" /\ pc' = "load")
    BY <1>3 DEF EnvKind, Run, CancelCtx, CtxMonitor, TakeLateItems, loopVars
  <2> QED BY <2>1, <2>2 DEF ItemsWhere, PlanningPCs, ExitPCs, ResumePCs
<1>4. CASE Restart
  BY <1>4 DEF Restart, ItemsWhere
<1>5. CASE PushKind
  <2>1. PICK i \in Items : PushCall(i) \/ PushStep(i) \/ DelayFires(i)
    BY <1>5 DEF PushKind
  <2>2. UNCHANGED handed
    BY <2>1 DEF PushCall, PushStep, DelayFires, PushBegin, PushSend, PushLate,
                PushRequest, PushEnd, history
  <2> QED BY <1>1, <2>1, <2>2, PushFrame
             DEF pushFrame, loopVars, planVars, resultVars
<1>6. CASE StopKind
  <2>1. UNCHANGED pc
    BY <1>6 DEF StopKind, StopCall, StopWake, StopTimeout, IdleTimerFires,
                IdleCommit, finishStopCommit, loopVars
  <2> QED BY <1>1, <1>6, <2>1, StopFrame
             DEF StopKind, stopFrame, planVars, resultVars, history
<1>7. CASE TurnKind \/ UNCHANGED vars
  BY <1>1, <1>7, TurnFrame
     DEF TurnKind, agentFrame, vars, loopVars, planVars, resultVars, history
<1> QED
  BY <1>2, <1>3, <1>4, <1>5, <1>6, <1>7, NextKinds

-----------------------------------------------------------------------------
\* A Push that is accepted adds its item at the end of the ledger.
LEMMA PushLedger ==
    ASSUME TypeOK, Ledger, NEW i \in Items, UNCHANGED <<Settled, items>>,
           accepted' = Append(accepted, i), buf' = Append(buf, i)
    PROVE  Ledger'
<1>1. /\ accepted \in Seq(Items) /\ Settled \in Seq(Items)
      /\ items \in Seq(Items) /\ buf \in Seq(Items) /\ <<i>> \in Seq(Items)
  BY LedgerTypes
<1>2. Append(accepted, i) = accepted \o <<i>> /\ Append(buf, i) = buf \o <<i>>
  BY <1>1, AppendIsConcat
<1>3. items \o buf \in Seq(Items)
  BY <1>1, SeqTypes
<1>4. (Settled \o (items \o buf)) \o <<i>> = Settled \o ((items \o buf) \o <<i>>)
  <2>1. Settled \in Seq(Items) /\ <<i>> \in Seq(Items)
    BY <1>1
  <2> QED BY ONLY <1>3, <2>1, Assoc, Zenon
<1>5. (items \o buf) \o <<i>> = items \o (buf \o <<i>>)
  BY <1>1, Assoc
<1> QED BY <1>2, <1>4, <1>5 DEF Ledger

\* A step that only moves items between the loop's hands and the buffer.
LEMMA MoveLedger ==
    ASSUME Ledger, UNCHANGED <<Settled, accepted>>, items' \o buf' = items \o buf
    PROVE  Ledger'
  BY DEF Ledger

\* What is settled changes only with its parts.
LEMMA SettledUnchanged ==
    ASSUME UNCHANGED <<handed, pendingResume, unhandled>>
    PROVE  UNCHANGED Settled
  BY DEF Settled

\* The load of a checkpoint puts its items in front of all others.
LEMMA LoadLedger ==
    ASSUME TypeOK, TypeOK', ItemsWhere, Ledger, tryLoadCheckpoint
    PROVE  Ledger'
<1>1. /\ pendingResume = NoResume /\ unhandled = <<>> /\ items = <<>>
      /\ handed = <<>>
  BY DEF tryLoadCheckpoint, ItemsWhere, PlanningPCs, ExitPCs, ResumePCs
<1>2. /\ buf \in Seq(Items) /\ store.canceled \in Seq(Items)
      /\ store.unhandled \in Seq(Items)
  BY DEF TypeOK, BufTypeOK, StoreTypeOK, Checkpoints
<1>3. accepted = buf
  <2>1. Settled = <<>>
    BY <1>1, SettledHanded
  <2> QED BY <1>1, <1>2, <2>1, Unit DEF Ledger
<1>4. UNCHANGED <<handed, items, unhandled>>
  BY DEF tryLoadCheckpoint, planFrame, resultVars
<1>5. CASE UNCHANGED <<buf, pendingResume, accepted>>
  BY <1>4, <1>5, SettledUnchanged, MoveLedger
<1>6. CASE /\ pendingResume' = [interrupted |-> store.canceled,
                                unhandled |-> store.unhandled,
                                newItems |-> buf, bytes |-> store.bytes]
           /\ buf' = <<>>
           /\ accepted' = store.canceled \o store.unhandled \o accepted
  <2>1. Settled' = (((handed' \o store.canceled) \o store.unhandled) \o buf) \o unhandled'
    BY <1>6 DEF Settled
  <2>2. handed' \o store.canceled = store.canceled
    BY <1>1, <1>2, <1>4, Unit
  <2>3. (store.canceled \o store.unhandled) \o buf \in Seq(Items)
    BY <1>2, SeqTypes
  <2>4. Settled' = (store.canceled \o store.unhandled) \o buf
    BY <1>1, <1>4, <2>1, <2>2, <2>3, Unit
  <2>5. items' \o buf' = <<>>
    BY <1>1, <1>4, <1>6, EmptyType, Unit
  <2> QED BY <1>3, <1>6, <2>3, <2>4, <2>5, Unit DEF Ledger
<1>7. CASE /\ buf' = store.unhandled \o buf /\ UNCHANGED pendingResume
           /\ accepted' = store.unhandled \o accepted
  <2>1. Settled' = <<>>
    BY <1>1, <1>4, <1>7, SettledHanded, SettledUnchanged
  <2>2. store.unhandled \o buf \in Seq(Items)
    BY <1>2, SeqTypes
  <2> QED BY <1>1, <1>3, <1>4, <1>7, <2>1, <2>2, Unit DEF Ledger
<1> QED
  BY <1>5, <1>6, <1>7 DEF tryLoadCheckpoint, TakeAll, PushFront, bufVars

\* The planned resume takes the loaded items, then those pushed since.
LEMMA ResumeLedger ==
    ASSUME TypeOK, TypeOK', ItemsWhere, Ledger, ResumeTake
    PROVE  Ledger'
<1> DEFINE loaded == pendingResume.interrupted \o pendingResume.unhandled
                       \o pendingResume.newItems
<1>1. unhandled = <<>> /\ items = <<>>
  BY DEF ResumeTake, ItemsWhere, PlanningPCs, ExitPCs
<1>2. /\ buf' = <<>> /\ items' = loaded \o buf /\ pendingResume' = NoResume
      /\ UNCHANGED <<handed, unhandled, accepted>>
  BY DEF ResumeTake, TakeAll, ResumeItems, planFrame, resultVars, history
<1>3. /\ buf \in Seq(Items) /\ handed \in Seq(Items)
      /\ pendingResume.interrupted \in Seq(Items)
      /\ pendingResume.unhandled \in Seq(Items)
      /\ pendingResume.newItems \in Seq(Items)
  BY LedgerTypes
<1>4. loaded \in Seq(Items)
  BY <1>3, SeqTypes
<1>5. Settled = handed \o loaded
  <2>1. Settled = ((handed \o pendingResume.interrupted) \o pendingResume.unhandled)
                    \o pendingResume.newItems
    <3>1. ((handed \o pendingResume.interrupted) \o pendingResume.unhandled)
            \o pendingResume.newItems \in Seq(Items)
      BY <1>3, SeqTypes
    <3> QED BY <1>1, <3>1, Unit DEF Settled
  <2>2. (handed \o pendingResume.interrupted) \o pendingResume.unhandled
          = handed \o (pendingResume.interrupted \o pendingResume.unhandled)
    BY <1>3, Assoc, ZenonT(20)
  <2>3. pendingResume.interrupted \o pendingResume.unhandled \in Seq(Items)
    BY <1>3, SeqTypes
  <2>4. (handed \o (pendingResume.interrupted \o pendingResume.unhandled))
           \o pendingResume.newItems = handed \o loaded
    <3>1. ASSUME NEW s \in Seq(Items)
          PROVE  (handed \o s) \o pendingResume.newItems
                    = handed \o (s \o pendingResume.newItems)
      <4>1. handed \in Seq(Items) /\ pendingResume.newItems \in Seq(Items)
        BY <1>3
      <4> QED BY ONLY <3>1, <4>1, Assoc, Zenon
    <3> QED BY <2>3, <3>1
  <2> QED BY <2>1, <2>2, <2>4
<1> HIDE DEF loaded
<1>6. accepted = handed \o (loaded \o buf)
  <2>1. accepted = (handed \o loaded) \o buf
    <3>1. accepted = Settled \o (<<>> \o buf)
      BY <1>1 DEF Ledger
    <3>2. <<>> \o buf = buf
      BY <1>3, Unit
    <3> QED BY <1>5, <3>1, <3>2
  <2>2. handed \in Seq(Items) /\ buf \in Seq(Items)
    BY <1>3
  <2>3. (handed \o loaded) \o buf = handed \o (loaded \o buf)
    BY ONLY <1>4, <2>2, Assoc, Zenon
  <2> QED BY <2>1, <2>3
<1>7. Settled' = handed
  <2>1. Settled' = (((handed \o <<>>) \o <<>>) \o <<>>) \o <<>>
    <3>1. Settled' = (((handed' \o pendingResume'.interrupted)
                         \o pendingResume'.unhandled)
                         \o pendingResume'.newItems) \o unhandled'
      BY DEF Settled
    <3>2. /\ pendingResume'.interrupted = <<>> /\ pendingResume'.unhandled = <<>>
          /\ pendingResume'.newItems = <<>>
      BY <1>2 DEF NoResume
    <3> QED BY <1>1, <1>2, <3>1, <3>2
  <2> QED BY <1>3, <2>1, Unit
<1> QED
  <2>1. loaded \o buf \in Seq(Items)
    BY <1>3, <1>4, SeqTypes
  <2>2. items' \o buf' = loaded \o buf
    BY <1>2, <2>1, Unit
  <2> QED BY <1>2, <1>6, <1>7, <2>2 DEF Ledger

\* A turn consumes a prefix of the items; the rest goes back to the buffer.
LEMMA PrepareLedger ==
    ASSUME TypeOK, TypeOK', ItemsWhere, Ledger, PrepareAgent
    PROVE  Ledger'
<1> DEFINE rest == SubSeq(items, Len(consumed) + 1, Len(items))
<1>1. pendingResume = NoResume /\ unhandled = <<>>
  BY DEF PrepareAgent, ItemsWhere, ExitPCs, ResumePCs
<1>2. UNCHANGED <<pendingResume, unhandled, accepted>>
  BY DEF PrepareAgent, planFrame, resultVars
<1>3. CASE UNCHANGED <<buf, items, handed>>
  BY <1>2, <1>3, SettledUnchanged, MoveLedger
<1>4. CASE /\ buf' = rest \o buf /\ items' = <<>> /\ handed' = handed \o consumed
  <2>1. /\ buf \in Seq(Items) /\ handed \in Seq(Items)
        /\ items \in Seq(Items) /\ consumed \in Seq(Items)
    BY LedgerTypes
  <2>2. Len(consumed) \in 0..Len(items) /\ consumed = SubSeq(items, 1, Len(consumed))
    BY <2>1 DEF PrepareAgent, ItemsWhere
  <2>3. rest \in Seq(Items)
    BY <2>1, <2>2, SeqTypes
  <2>4. consumed \o rest = items
    <3>1. SubSeq(items, 1, Len(consumed)) \o rest = items
      BY <2>1, <2>2, SplitAt
    <3> QED BY <2>2, <3>1
  <2>5. Settled = handed
    BY <1>1, SettledHanded
  <2>6. Settled' = handed \o consumed
    <3>1. handed \o consumed \in Seq(Items)
      BY <2>1, SeqTypes
    <3>2. Settled' = (((handed' \o pendingResume'.interrupted)
                         \o pendingResume'.unhandled)
                         \o pendingResume'.newItems) \o unhandled'
      BY DEF Settled
    <3>3. /\ pendingResume'.interrupted = <<>> /\ pendingResume'.unhandled = <<>>
          /\ pendingResume'.newItems = <<>> /\ unhandled' = <<>>
      BY <1>1, <1>2 DEF NoResume
    <3> QED BY <1>4, <3>1, <3>2, <3>3, Unit
  <2>7. items' \o buf' = rest \o buf
    <3>1. rest \o buf \in Seq(Items)
      BY <2>1, <2>3, SeqTypes
    <3> QED BY <1>4, <3>1, Unit
  <2>8. (handed \o consumed) \o (rest \o buf) = handed \o (items \o buf)
    <3>1. rest \o buf \in Seq(Items)
      BY <2>1, <2>3, SeqTypes
    <3>2. (handed \o consumed) \o (rest \o buf) = handed \o (consumed \o (rest \o buf))
      BY <2>1, <3>1, Assoc, ZenonT(20)
    <3>3. (consumed \o rest) \o buf = consumed \o (rest \o buf)
      BY <2>1, <2>3, Assoc
    <3> QED BY <2>4, <3>2, <3>3
  <2> QED BY <1>2, <2>5, <2>6, <2>7, <2>8 DEF Ledger
<1> QED
  BY <1>3, <1>4 DEF PrepareAgent, PushFront, bufVars

\* The exit takes what is left in the buffer as the unhandled items.
LEMMA ExitLedger ==
    ASSUME TypeOK, ItemsWhere, Ledger, TakeUnhandled
    PROVE  Ledger'
<1> DEFINE before == handed \o pendingResume.interrupted
                       \o pendingResume.unhandled \o pendingResume.newItems
<1>1. items = <<>> /\ unhandled = <<>>
  BY DEF TakeUnhandled, ItemsWhere, PlanningPCs, ExitPCs
<1>2. /\ unhandled' = buf /\ buf' = <<>>
      /\ UNCHANGED <<handed, pendingResume, items, accepted>>
  BY DEF TakeUnhandled, TakeAll, planVars, history
<1>3. /\ buf \in Seq(Items) /\ handed \in Seq(Items)
      /\ pendingResume.interrupted \in Seq(Items)
      /\ pendingResume.unhandled \in Seq(Items)
      /\ pendingResume.newItems \in Seq(Items)
  BY LedgerTypes
<1>4. before \in Seq(Items)
  BY <1>3, SeqTypes
<1>5. Settled = before
  <2>1. Settled = before \o <<>>
    BY <1>1 DEF Settled
  <2> QED BY <1>4, <2>1, Unit
<1>6. Settled' = before \o buf
  BY <1>2 DEF Settled
<1>7. accepted = before \o buf
  <2>1. accepted = before \o (<<>> \o buf)
    BY <1>1, <1>5 DEF Ledger
  <2> QED BY <1>3, <2>1, Unit
<1>8. before \o buf \in Seq(Items)
  BY <1>3, <1>4, SeqTypes
<1>9. items' \o buf' = <<>>
  BY <1>1, <1>2, EmptyType, Unit
<1> QED
  BY <1>2, <1>6, <1>7, <1>8, <1>9, Unit DEF Ledger

-----------------------------------------------------------------------------
\* Every step preserves the ledger.
LEMMA LedgerNext ==
    ASSUME TypeOK, TypeOK', ItemsWhere, Ledger, [Next]_vars
    PROVE  Ledger'
<1>0. items \in Seq(Items) /\ buf \in Seq(Items)
  BY LedgerTypes
<1>1. CASE UNCHANGED <<handed, pendingResume, unhandled, accepted, items, buf>>
  BY <1>1, SettledUnchanged, MoveLedger
<1>2. ASSUME UNCHANGED <<handed, pendingResume, unhandled, accepted>>,
             items' \o buf' = items \o buf
      PROVE  Ledger'
  BY <1>2, SettledUnchanged, MoveLedger
<1>3. CASE LoopStep
  <2>1. CASE LoopReceive
    <3>1. items = <<>>
      BY <2>1 DEF LoopReceive, ItemsWhere, PlanningPCs
    <3>2. UNCHANGED <<handed, pendingResume, unhandled, accepted>>
      BY <2>1 DEF LoopReceive, planFrame, resultVars, history
    <3>3. CASE buf = <<>>
      <4>1. items' = <<>> /\ buf' = <<>>
        BY <2>1, <3>3 DEF LoopReceive, Receive
      <4> QED BY <1>2, <3>1, <3>2, <3>3, <4>1
    <3>4. CASE buf # <<>>
      <4>1. items' = <<Head(buf)>> /\ buf' = Tail(buf)
        BY <2>1, <3>4 DEF LoopReceive, Receive
      <4>2. <<Head(buf)>> \o Tail(buf) = buf
        BY <1>0, <3>4
      <4>3. items \o buf = buf
        BY <1>0, <3>1, Unit
      <4> QED BY <1>2, <3>2, <4>1, <4>2, <4>3
    <3> QED BY <3>3, <3>4
  <2>2. CASE GiveBack /\ UNCHANGED <<handed, pendingResume, unhandled, accepted>>
    <3>1. items' = <<>> /\ buf' = items \o buf
      BY <2>2 DEF GiveBack, PushFront
    <3>2. items \o buf \in Seq(Items)
      BY <1>0, SeqTypes
    <3> QED BY <1>2, <2>2, <3>1, <3>2, Unit
  <2>3. CASE TakeRest
    <3>1. items' = items \o buf /\ buf' = <<>>
      BY <2>3 DEF TakeRest, TakeAll
    <3>2. UNCHANGED <<handed, pendingResume, unhandled, accepted>>
      BY <2>3 DEF TakeRest, planFrame, resultVars, history
    <3>3. items \o buf \in Seq(Items)
      BY <1>0, SeqTypes
    <3> QED BY <1>2, <3>1, <3>2, <3>3, Unit
  <2>4. CASE GotFirst \/ AbortPlanning
    <3>1. UNCHANGED <<handed, pendingResume, unhandled, accepted>>
      BY <2>4 DEF GotFirst, AbortPlanning, planFrame, resultVars, history
    <3>2. GiveBack \/ UNCHANGED <<buf, items>>
      BY <2>4 DEF GotFirst, AbortPlanning, bufVars
    <3> QED BY <1>1, <2>2, <3>1, <3>2
  <2>5. CASE LoopTop \/ WaitForPushes \/ IdleQuery \/ RecheckIdle \/ BeginPlanning
    BY <1>1, <2>5
       DEF LoopTop, WaitForPushes, IdleQuery, RecheckIdle, BeginPlanning,
           ClearWakeup, bufVars, planVars, planFrame, resultVars, history
  <2>6. CASE planTurn \/ Activate \/ Launch \/ TurnReturns \/ EndStop
    BY <1>1, <2>6
       DEF planTurn, Activate, Launch, TurnReturns, EndStop, bufVars, planVars,
           planFrame, turnFrame, resultVars, history
  <2>7. CASE EndPreempt \/ Cleanup \/ PersistResult
    BY <1>1, <2>7
       DEF EndPreempt, Cleanup, PersistResult, bufVars, planVars, planFrame,
           turnFrame, resultVars, history
  <2>8. CASE CloseControllers \/ CloseBuffer
    BY <1>1, <2>8
       DEF CloseControllers, CloseBuffer, Close, bufVars, planVars, planFrame,
           turnFrame, resultVars, history
  <2> QED BY <1>3, <2>1, <2>3, <2>4, <2>5, <2>6, <2>7, <2>8, LoadLedger,
             ResumeLedger, PrepareLedger, ExitLedger DEF LoopStep
<1>4. CASE PushKind
  <2>1. PICK i \in Items : PushCall(i) \/ PushStep(i) \/ DelayFires(i)
    BY <1>4 DEF PushKind
  <2>2. UNCHANGED <<pendingResume, unhandled, items>>
    BY <2>1, PushFrame DEF pushFrame, planVars, resultVars
  <2>3. /\ UNCHANGED handed
        /\ \/ UNCHANGED <<accepted, buf>>
           \/ accepted' = Append(accepted, i) /\ buf' = Append(buf, i)
    BY <2>1 DEF PushCall, PushStep, DelayFires, PushBegin, PushSend, PushLate,
                PushRequest, PushEnd, TrySend, bufVars, history
  <2> QED BY <1>1, <2>2, <2>3, SettledUnchanged, PushLedger
<1>5. CASE Restart
  <2>1. /\ handed' = <<>> /\ unhandled' = <<>> /\ items' = <<>> /\ buf' = <<>>
        /\ accepted' = <<>> /\ pendingResume' = NoResume
    BY <1>5 DEF Restart
  <2>2. /\ pendingResume'.interrupted = <<>> /\ pendingResume'.unhandled = <<>>
        /\ pendingResume'.newItems = <<>>
    BY <2>1 DEF NoResume
  <2> QED BY <2>1, <2>2, EmptyType, Unit DEF Ledger, Settled
<1>6. CASE StopKind \/ EnvKind
  <2>1. UNCHANGED buf
    BY <1>6 DEF StopKind, EnvKind, StopCall, StopWake, StopTimeout,
                IdleTimerFires, IdleCommit, finishStopCommit, Run, CancelCtx,
                CtxMonitor, TakeLateItems, Wakeup, Close, bufVars
  <2> QED BY <1>1, <1>6, <2>1, StopFrame, EnvFrame
             DEF StopKind, EnvKind, stopFrame, envFrame, planVars, resultVars,
                 history
<1>7. CASE TurnKind \/ UNCHANGED vars
  BY <1>1, <1>7, TurnFrame
     DEF TurnKind, agentFrame, vars, bufVars, planVars, resultVars, history
<1> QED
  BY <1>3, <1>4, <1>5, <1>6, <1>7, NextKinds

\* No accepted item is lost, duplicated or reordered inside the loop (Receive,
\* TakeAll, PushFront, the abort paths of run, cleanup, tryLoadCheckpoint).
THEOREM NoItemLost == Spec => []ItemsConserved
<1>1. Init => ItemsWhere /\ Ledger
  <2> SUFFICES ASSUME Init PROVE ItemsWhere /\ Ledger
    OBVIOUS
  <2>1. ItemsWhere
    BY DEF Init, ItemsWhere
  <2>2. /\ handed = <<>> /\ unhandled = <<>> /\ items = <<>> /\ buf = <<>>
        /\ accepted = <<>> /\ pendingResume = NoResume
    BY DEF Init, BufInit
  <2>3. Settled = <<>>
    BY <2>2, TypeInit, SettledHanded
  <2> QED BY <2>1, <2>2, <2>3, EmptyType, Unit DEF Ledger
<1>2. TypeOK /\ TypeOK' /\ ItemsWhere /\ Ledger /\ [Next]_vars
        => ItemsWhere' /\ Ledger'
  BY WhereNext, LedgerNext
<1>3. TypeOK /\ Ledger => ItemsConserved
  BY LedgerIsConserved
<1> QED
  BY <1>1, <1>2, <1>3, TypeCorrect, PTL DEF Spec


-----------------------------------------------------------------------------
(***************************************************************************)
(* What a Push reports.  The result of a push is settled by the step that  *)
(* puts its item into the buffer or into the late list; until then the     *)
(* item is in neither.  In the first loop nothing but a push puts an item  *)
(* anywhere, because the store is empty when the checkpoint is loaded.     *)
(***************************************************************************)
Sent(i) == i \in ItemsOf(accepted)
Late(i) == i \in ItemsOf(lateItems)

ReportOf(i) ==
    /\ pushPC[i] \in {"ready", "begin", "check", "send", "late"}
         => ret[i] = "none" /\ ~Sent(i) /\ ~Late(i)
    /\ pushPC[i] = "request" => ret[i] = "true" /\ Sent(i) /\ ~Late(i)
    /\ pushPC[i] \in {"end", "returned"}
         => (ret[i] = "true" <=> Sent(i)) /\ (ret[i] = "false" <=> Late(i))

ReportInv ==
    /\ runs >= 1
    /\ runs = 1 /\ pc \in {"new", "load"} => ~store.exists
    /\ runs = 1 => \A i \in Items : ReportOf(i)

\* Append adds its element to those of the sequence.
LEMMA ItemsOfAppend ==
    ASSUME NEW s \in Seq(Items), NEW i \in Items
    PROVE  ItemsOf(Append(s, i)) = ItemsOf(s) \cup {i}
<1>1. /\ DOMAIN Append(s, i) = 1..(Len(s) + 1) /\ DOMAIN s = 1..Len(s)
      /\ Len(s) \in Nat
      /\ \A n \in 1..Len(s) : Append(s, i)[n] = s[n]
      /\ Append(s, i)[Len(s) + 1] = i
  OBVIOUS
<1>2. ASSUME NEW x \in ItemsOf(Append(s, i)) PROVE x \in ItemsOf(s) \cup {i}
  <2>1. PICK n \in 1..(Len(s) + 1) : x = Append(s, i)[n]
    BY <1>1, <1>2 DEF ItemsOf
  <2>2. n \in 1..Len(s) \/ n = Len(s) + 1
    BY <1>1
  <2> QED BY <1>1, <2>1, <2>2 DEF ItemsOf
<1>3. ASSUME NEW x \in ItemsOf(s) \cup {i} PROVE x \in ItemsOf(Append(s, i))
  <2>1. CASE x = i
    <3>1. Len(s) + 1 \in 1..(Len(s) + 1)
      BY <1>1
    <3> QED BY <1>1, <2>1, <3>1 DEF ItemsOf
  <2>2. CASE x \in ItemsOf(s)
    <3>1. PICK n \in 1..Len(s) : x = s[n]
      BY <1>1, <2>2 DEF ItemsOf
    <3>2. n \in 1..(Len(s) + 1)
      BY <1>1
    <3> QED BY <1>1, <3>1, <3>2 DEF ItemsOf
  <2> QED BY <1>3, <2>1, <2>2
<1> QED BY <1>2, <1>3

\* A step of a push settles its own item and no other.
LEMMA ReportPush ==
    ASSUME TypeOK, NEW i \in Items, PushCall(i) \/ PushStep(i) \/ DelayFires(i),
           NEW j \in Items, ReportOf(j)
    PROVE  ReportOf(j)'
<1>1. /\ accepted \in Seq(Items) /\ lateItems \in Seq(Items)
      /\ pushPC \in [Items -> PushPCs] /\ ret \in [Items -> {"none", "true", "false", "panic"}]
  BY DEF TypeOK, StoreTypeOK, ControlTypeOK, CallersTypeOK, PushPCs
<1>2. CASE PushCall(i) \/ PushBegin(i) \/ PushRequest(i) \/ PushEnd(i) \/ DelayFires(i)
  <2>1. UNCHANGED <<accepted, lateItems, ret>>
    BY <1>2 DEF PushCall, PushBegin, PushRequest, PushEnd, DelayFires, lateVars,
                history
  <2>2. j # i => pushPC'[j] = pushPC[j]
    BY <1>1, <1>2 DEF PushCall, PushBegin, PushRequest, PushEnd, DelayFires,
                      EnterPush, CheckStopped
  <2>3. \/ pushPC'[i] = pushPC[i]
        \/ /\ pushPC[i] \in {"ready", "begin", "check"}
           /\ pushPC'[i] \in {"begin", "check", "send", "late"}
        \/ pushPC[i] = "request" /\ pushPC'[i] = "end"
        \/ pushPC[i] = "end" /\ pushPC'[i] = "returned"
    BY <1>1, <1>2 DEF PushCall, PushBegin, PushRequest, PushEnd, DelayFires,
                      EnterPush, CheckStopped
  <2> QED BY <2>1, <2>2, <2>3 DEF ReportOf, Sent, Late
<1>3. CASE PushSend(i)
  <2>1. UNCHANGED lateItems
    BY <1>3 DEF PushSend, lateVars
  <2>2. CASE ~CanSend
    <3>1. UNCHANGED <<accepted, ret>> /\ pushPC' = [pushPC EXCEPT ![i] = "late"]
      BY <1>3, <2>2 DEF PushSend
    <3> QED BY <1>1, <1>3, <2>1, <3>1 DEF ReportOf, Sent, Late, PushSend
  <2>3. CASE CanSend
    <3>1. /\ accepted' = Append(accepted, i)
          /\ ret' = [ret EXCEPT ![i] = "true"]
          /\ pushPC[i] = "send"
      BY <1>3, <2>3 DEF PushSend
    <3>2. /\ pushPC'[i] \in {"request", "end", "returned"}
          /\ j # i => pushPC'[j] = pushPC[j]
      BY <1>1, <1>3, <2>3 DEF PushSend, AfterPush
    <3>3. Sent(j)' <=> (Sent(j) \/ j = i)
      BY <1>1, <3>1, ItemsOfAppend DEF Sent
    <3> QED BY <1>1, <2>1, <3>1, <3>2, <3>3 DEF ReportOf, Late
  <2> QED BY <2>2, <2>3
<1>4. CASE PushLate(i)
  <2>1. /\ UNCHANGED accepted /\ pushPC[i] = "late"
        /\ pushPC'[i] \in {"end", "returned"}
        /\ j # i => pushPC'[j] = pushPC[j]
    BY <1>1, <1>4 DEF PushLate, AfterPush, history
  <2>2. CASE lateSealed
    <3>1. UNCHANGED lateItems /\ ret' = [ret EXCEPT ![i] = "panic"]
      BY <1>4, <2>2 DEF PushLate
    <3> QED BY <1>1, <2>1, <3>1 DEF ReportOf, Sent, Late
  <2>3. CASE ~lateSealed
    <3>1. /\ lateItems' = Append(lateItems, i)
          /\ ret' = [ret EXCEPT ![i] = "false"]
      BY <1>4, <2>3 DEF PushLate
    <3>2. Late(j)' <=> (Late(j) \/ j = i)
      BY <1>1, <3>1, ItemsOfAppend DEF Late
    <3> QED BY <1>1, <2>1, <3>1, <3>2 DEF ReportOf, Sent
  <2> QED BY <2>2, <2>3
<1> QED BY <1>2, <1>3, <1>4 DEF PushStep

\* Every step preserves the invariant.
LEMMA ReportNext ==
    ASSUME TypeOK, ReportInv, [Next]_vars
    PROVE  ReportInv'
<1>0. runs \in Nat
  BY DEF TypeOK, StoreTypeOK
<1>1. ASSUME UNCHANGED <<runs, store, pushPC, ret, accepted, lateItems>>,
             pc' \in {"new", "load"} => pc \in {"new", "load"}
      PROVE  ReportInv'
  BY <1>1 DEF ReportInv, ReportOf, Sent, Late
<1>2. CASE LoopStep
  <2>1. UNCHANGED <<runs, pushPC, ret, lateItems>>
    <3>1. UNCHANGED <<pushPC, ret, lateItems>>
      BY <1>2, LoopFrame DEF others, lateVars, pushVars
    <3>2. UNCHANGED runs
      BY <1>2
         DEF LoopStep, tryLoadCheckpoint, LoopTop, WaitForPushes, ResumeTake,
             IdleQuery, LoopReceive, RecheckIdle, GotFirst, TakeRest,
             BeginPlanning, planTurn, PrepareAgent, AbortPlanning, Activate,
             Launch, TurnReturns, EndStop, EndPreempt, Cleanup, TakeUnhandled,
             PersistResult, CloseControllers, CloseBuffer, planFrame,
             turnFrame, storeVars
    <3> QED BY <3>1, <3>2
  <2>2. pc' \notin {"new", "load"}
    BY <1>2
       DEF LoopStep, tryLoadCheckpoint, LoopTop, WaitForPushes, ResumeTake,
           IdleQuery, LoopReceive, RecheckIdle, GotFirst, TakeRest,
           BeginPlanning, planTurn, PrepareAgent, AbortPlanning, Activate,
           Launch, TurnReturns, EndStop, EndPreempt, Cleanup, TakeUnhandled,
           PersistResult, CloseControllers, CloseBuffer, goto, exitWith
  <2>3. UNCHANGED accepted \/ (tryLoadCheckpoint /\ store.exists)
    BY <1>2
       DEF LoopStep, tryLoadCheckpoint, LoopTop, WaitForPushes, ResumeTake,
           IdleQuery, LoopReceive, RecheckIdle, GotFirst, TakeRest,
           BeginPlanning, planTurn, PrepareAgent, AbortPlanning, Activate,
           Launch, TurnReturns, EndStop, EndPreempt, Cleanup, TakeUnhandled,
           PersistResult, CloseControllers, CloseBuffer, turnFrame, history
  <2>4. runs = 1 => UNCHANGED accepted
    BY <2>3 DEF ReportInv, tryLoadCheckpoint
  <2> QED BY <2>1, <2>2, <2>4 DEF ReportInv, ReportOf, Sent, Late
<1>3. CASE PushKind
  <2>1. PICK i \in Items : PushCall(i) \/ PushStep(i) \/ DelayFires(i)
    BY <1>3 DEF PushKind
  <2>2. UNCHANGED <<runs, store, pc>>
    BY <2>1, PushFrame DEF pushFrame, storeVars, loopVars
  <2>3. runs = 1 => \A j \in Items : ReportOf(j)'
    BY <2>1, ReportPush DEF ReportInv
  <2> QED BY <2>2, <2>3 DEF ReportInv
<1>4. CASE StopKind
  <2>1. UNCHANGED pc
    BY <1>4 DEF StopKind, StopCall, StopWake, StopTimeout, IdleTimerFires,
                IdleCommit, finishStopCommit, loopVars
  <2> QED BY <1>1, <1>4, <2>1, StopFrame
             DEF StopKind, stopFrame, storeVars, pushVars, history, lateVars
<1>5. CASE EnvKind
  <2>1. UNCHANGED <<runs, store, pushPC, ret, accepted, lateItems>>
    BY <1>5, EnvFrame DEF EnvKind, envFrame, storeVars, pushVars, history,
                          Run, CancelCtx, CtxMonitor, TakeLateItems, lateVars
  <2>2. pc' = pc \/ pc = "new"
    BY <1>5 DEF EnvKind, Run, CancelCtx, CtxMonitor, TakeLateItems, loopVars
  <2> QED BY <1>1, <2>1, <2>2
<1>6. CASE Restart
  <2>1. runs' = runs + 1
    BY <1>6 DEF Restart
  <2> QED BY <1>0, <2>1 DEF ReportInv
<1>7. CASE TurnKind \/ UNCHANGED vars
  BY <1>1, <1>7, TurnFrame
     DEF TurnKind, agentFrame, vars, loopVars, storeVars, pushVars, history,
         lateVars
<1> QED
  BY <1>2, <1>3, <1>4, <1>5, <1>6, <1>7, NextKinds

\* A Push reports what became of its item: true for one the buffer accepted,
\* false for one in the late list, and no item is in both (pushWithConfig,
\* pushWithStrategy, appendLate).
THEOREM PushTellsTheTruth == Spec => []PushReportsItem
<1>1. Init => ReportInv
  BY DEF Init, ReportInv, ReportOf, Sent, Late, ItemsOf, NoCheckpoint
<1>2. TypeOK /\ ReportInv /\ [Next]_vars => ReportInv'
  BY ReportNext
<1>3. ReportInv => PushReportsItem
  BY DEF ReportInv, ReportOf, Sent, Late, PushReportsItem
<1> QED
  BY <1>1, <1>2, <1>3, TypeCorrect, PTL DEF Spec

-----------------------------------------------------------------------------
(***************************************************************************)
(* The saving of a cancelled turn.  The invariant follows the CancelError  *)
(* from the end of the agent's stream to the step that saves: the bridge   *)
(* store holds the turn's items by then, and only a turn that a preempt    *)
(* cancelled as well lets the loop go on without keeping it.               *)
(***************************************************************************)

\* Only the current turn's handler runs, while the loop waits for it, and a
\* handler that returned a CancelError saw the agent's stream end with one.
HandlersOK ==
    \A t \in Turns :
        /\ ToCome(t) => handler[t] = "none" /\ events[t] = "none"
        /\ handler[t] = "running" => pc = "wait" /\ t = turnID
        /\ handler[t] = "cancel" => events[t] = "cancel"

\* A resume has runner state, and a turn has items or runner state.
ResumeHasState ==
    /\ pendingResume # NoResume => pendingResume.bytes # {}
    /\ pc \in {"resumeWait", "resumeTake"} => pendingResume # NoResume
    /\ isResume => resumeBytes # {}
    /\ pc \in {"prepare", "activate", "launch", "wait"}
         => consumed # <<>> \/ resumeBytes # {}
    /\ pc \in {"launch", "wait"} => resumeBytes \subseteq bridge[turnID]

\* The bridge store of a cancelled turn holds its items and is not empty.
Cancelled(t) == events[t] = "cancel" /\ handler[t] \in {"running", "cancel"}
BridgeHolds ==
    Persist =>
      /\ \A t \in Turns : Cancelled(t) => bridge[t] # {}
      /\ pc \in {"wait", "endStop", "endPreempt"} /\ Cancelled(turnID)
           => ItemsOf(consumed) \subseteq bridge[turnID]

\* What the loop keeps of a cancelled turn until it saves it; only a turn that
\* was preempted lets the loop go on.
CancelEnds == turnID > 0 /\ handler[turnID] = "cancel"
AfterTurn == {"endStop", "endPreempt", "cleanup", "takeUnhandled", "persist"}
BetweenTurns == {"new", "load", "top", "resumeWait", "resumeTake", "idleQuery",
                 "receive", "receiveIdle", "recheckIdle", "recheckClosed",
                 "gotFirst", "pushWait", "takeRest", "begin"}
CancelKept ==
  Persist =>
    /\ pc \in {"wait", "endStop", "endPreempt"} /\ CancelEnds => captured
    /\ pc \in AfterTurn /\ CancelEnds /\ ~preemptDone[turnID]
         => runErr = "cancel" /\ runnerBytes = bridge[turnID]
    /\ pc \in {"cleanup", "takeUnhandled", "persist"} /\ CancelEnds
         /\ ~preemptDone[turnID]
         => ItemsOf(interruptedItems) \subseteq bridge[turnID]
    /\ pc \in BetweenTurns /\ CancelEnds => preemptDone[turnID]

SavedInv == HandlersOK /\ ResumeHasState /\ BridgeHolds /\ CancelKept

\* Steps that are neither the loop's nor a turn's leave both alone; Run alone
\* moves the loop.
LEMMA OutsideSteps ==
    ASSUME [Next]_vars, ~LoopStep, ~Restart, ~TurnKind
    PROVE  /\ UNCHANGED <<turnID, planVars, resultVars, turnVars, runErr, store>>
           /\ pc' = pc \/ (pc = "new" /\ pc' = "load")
<1>1. CASE PushKind
  <2>1. PICK i \in Items : PushCall(i) \/ PushStep(i) \/ DelayFires(i)
    BY <1>1 DEF PushKind
  <2>2. UNCHANGED turnID
    BY <2>1
       DEF PushCall, PushStep, DelayFires, PushBegin, PushSend, PushLate,
           PushRequest, PushEnd, EnterPush, CheckStopped, beginPush, endPush,
           requestPreempt, preVars
  <2> QED BY <2>1, <2>2, PushFrame DEF pushFrame, loopVars, storeVars
<1>2. CASE EnvKind
  BY <1>2, EnvFrame DEF EnvKind, envFrame, preVars, storeVars, Run, CancelCtx,
                        CtxMonitor, TakeLateItems, loopVars
<1>3. CASE StopKind
  <2>1. UNCHANGED <<pc, runErr>>
    BY <1>3 DEF StopKind, StopCall, StopWake, StopTimeout, IdleTimerFires,
                IdleCommit, finishStopCommit, loopVars
  <2> QED BY <1>3, <2>1, StopFrame DEF StopKind, stopFrame, preVars, storeVars
<1>4. CASE UNCHANGED vars
  BY <1>4 DEF vars, preVars, loopVars, storeVars
<1> QED BY <1>1, <1>2, <1>3, <1>4, NextKinds

\* A turn's goroutines leave the loop and its plan alone.
LEMMA TurnSteps ==
    ASSUME NEW t \in Turns, TurnStep(t)
    PROVE  UNCHANGED <<turnID, pc, runErr, planVars, runnerBytes,
                       interruptedItems, store>>
<1>1. UNCHANGED turnID
  BY DEF TurnStep, AgentEnds, MarkDone, HandlerStep, HandlerReturns,
         HandlerReturnsEarly, ProxyLate, WatchPreempt, watchPreempt,
         receivePreempt, WatchStop, preVars
<1> QED BY <1>1, TurnFrame DEF agentFrame, loopVars, storeVars

\* The loop changes a turn's state only when it activates and launches it, and
\* its number only when it begins to plan.
LEMMA LoopSteps ==
    ASSUME LoopStep
    PROVE  /\ ~BeginPlanning => UNCHANGED turnID
           /\ ~Launch => UNCHANGED <<events, handler>>
           /\ ~Activate => UNCHANGED <<bridge, captured>>
           /\ UNCHANGED preemptDone
           /\ pc' \in {"plan", "prepare", "abort", "activate", "launch"}
                => BeginPlanning
                   \/ pc \in {"plan", "prepare", "abort", "activate", "launch"}
<1>1. ~BeginPlanning => UNCHANGED turnID
  BY DEF LoopStep, tryLoadCheckpoint, LoopTop, WaitForPushes, ResumeTake,
         IdleQuery, LoopReceive, RecheckIdle, GotFirst, TakeRest, planTurn,
         PrepareAgent, AbortPlanning, Activate, Launch, TurnReturns, EndStop,
         EndPreempt, Cleanup, TakeUnhandled, PersistResult, CloseControllers,
         CloseBuffer, abortPlanningTurn, preBeginActiveTurn, preEndActiveTurn,
         preCloseForLoopExit, preVars
<1>2. /\ ~Launch => UNCHANGED <<events, handler>>
      /\ ~Activate => UNCHANGED bridge
      /\ UNCHANGED preemptDone
  BY LoopTurnFrame DEF Activate, Launch, turnVars
<1>3. ~Activate => UNCHANGED captured
  BY DEF LoopStep, tryLoadCheckpoint, LoopTop, WaitForPushes, ResumeTake,
         IdleQuery, LoopReceive, RecheckIdle, GotFirst, TakeRest,
         BeginPlanning, planTurn, PrepareAgent, AbortPlanning, Launch,
         TurnReturns, EndStop, EndPreempt, Cleanup, TakeUnhandled,
         PersistResult, CloseControllers, CloseBuffer, planFrame, resultVars
<1>4. pc' \in {"plan", "prepare", "abort", "activate", "launch"}
        => BeginPlanning
           \/ pc \in {"plan", "prepare", "abort", "activate", "launch"}
  BY DEF LoopStep, tryLoadCheckpoint, LoopTop, WaitForPushes, ResumeTake,
         IdleQuery, LoopReceive, RecheckIdle, GotFirst, TakeRest, planTurn,
         PrepareAgent, AbortPlanning, Activate, Launch, TurnReturns, EndStop,
         EndPreempt, Cleanup, TakeUnhandled, PersistResult, CloseControllers,
         CloseBuffer, goto, exitWith
<1> QED BY <1>1, <1>2, <1>3, <1>4

\* A turn that is to come was to come.
LEMMA ToComeNext ==
    ASSUME TypeOK, [Next]_vars, ~Restart, NEW t \in Turns, ToCome(t)'
    PROVE  ToCome(t)
<1>0. turnID \in Nat /\ t \in Nat
  BY ConstantsAssumption DEF TypeOK, PreTypeOK, Turns
<1>1. CASE BeginPlanning
  BY <1>0, <1>1 DEF BeginPlanning, beginPlanningTurn, ToCome
<1>2. CASE LoopStep /\ ~BeginPlanning
  BY <1>2, LoopSteps DEF ToCome
<1>3. CASE TurnKind
  BY <1>3, TurnSteps DEF TurnKind, ToCome
<1>4. CASE ~LoopStep /\ ~TurnKind
  BY <1>4, OutsideSteps DEF ToCome
<1> QED BY <1>1, <1>2, <1>3, <1>4

\* While a turn is planned or runs, the current number is one of a turn.
LEMMA CurrentTurn ==
    ASSUME TypeOK, PhaseOK, TurnNumbered,
           pc \in {"plan", "prepare", "abort", "activate", "launch", "wait",
                  "endStop", "endPreempt"}
    PROVE  turnID \in Turns
<1>1. turnPhase # "idle"
  BY DEF PhaseOK, PhaseAt
<1> QED BY <1>1, ConstantsAssumption DEF TurnNumbered, TypeOK, PreTypeOK, Turns

\* HandlersOK is preserved.
LEMMA HandlersNext ==
    ASSUME TypeOK, PhaseOK, TurnNumbered, HandlersOK, [Next]_vars
    PROVE  HandlersOK'
<1> SUFFICES ASSUME NEW t \in Turns
             PROVE  /\ ToCome(t)' => handler'[t] = "none" /\ events'[t] = "none"
                    /\ handler'[t] = "running" => pc' = "wait" /\ t = turnID'
                    /\ handler'[t] = "cancel" => events'[t] = "cancel"
  BY DEF HandlersOK
<1>1. CASE Restart
  BY <1>1 DEF Restart, PerTurn
<1>2. CASE Launch
  <2>1. turnID \in Turns /\ UNCHANGED turnID
    BY <1>2, CurrentTurn DEF Launch, preVars
  <2>2. turnID \in Nat /\ t \in Nat
    BY ConstantsAssumption DEF TypeOK, PreTypeOK, Turns
  <2>3. CASE t = turnID
    <3>1. ~ToCome(t)'
      BY <1>2, <2>1, <2>2, <2>3 DEF Launch, goto, ToCome
    <3>2. handler[t] = "none"
      BY <1>2, <2>3 DEF HandlersOK, ToCome, Launch
    <3> QED BY <1>2, <2>1, <2>3, <3>1, <3>2
               DEF Launch, goto, TypeOK, TurnsTypeOK
  <2>4. CASE t # turnID
    <3>1. handler'[t] = handler[t] /\ events'[t] = events[t]
      BY <1>2, <2>4 DEF Launch, TypeOK, TurnsTypeOK
    <3>2. handler[t] # "running"
      BY <1>2 DEF Launch, HandlersOK
    <3>3. ToCome(t)' => ToCome(t)
      BY <1>2, <2>1 DEF Launch, ToCome, goto
    <3> QED BY <3>1, <3>2, <3>3 DEF HandlersOK
  <2> QED BY <2>3, <2>4
<1>3. CASE LoopStep /\ ~Launch
  <2>1. UNCHANGED <<events, handler>>
    BY <1>3, LoopSteps
  <2>2. ToCome(t)' => ToCome(t)
    <3>1. ~Restart
      BY <1>3 DEF Restart, LoopStep, tryLoadCheckpoint, LoopTop, WaitForPushes,
             ResumeTake, IdleQuery, LoopReceive, RecheckIdle, GotFirst,
             TakeRest, BeginPlanning, planTurn, PrepareAgent, AbortPlanning,
             Activate, TurnReturns, EndStop, EndPreempt, Cleanup,
             TakeUnhandled, PersistResult, CloseControllers, CloseBuffer
    <3> QED BY <3>1, ToComeNext
  <2>3. handler[t] # "running"
    <3> SUFFICES ASSUME pc = "wait" /\ t = turnID PROVE handler[t] # "running"
      BY DEF HandlersOK
    <3> QED BY <1>3 DEF LoopStep, tryLoadCheckpoint, LoopTop, WaitForPushes,
               ResumeTake, IdleQuery, LoopReceive, RecheckIdle, GotFirst,
               TakeRest, BeginPlanning, planTurn, PrepareAgent, AbortPlanning,
               Activate, TurnReturns, EndStop, EndPreempt, Cleanup,
               TakeUnhandled, PersistResult, CloseControllers, CloseBuffer,
               HandlerDone
  <2> QED BY <2>1, <2>2, <2>3 DEF HandlersOK
<1>4. ASSUME NEW u \in Turns, TurnStep(u)
      PROVE  /\ ToCome(t)' => handler'[t] = "none" /\ events'[t] = "none"
             /\ handler'[t] = "running" => pc' = "wait" /\ t = turnID'
             /\ handler'[t] = "cancel" => events'[t] = "cancel"
  <2>1. UNCHANGED <<pc, turnID>> /\ (ToCome(t)' <=> ToCome(t))
    BY <1>4, TurnSteps DEF ToCome
  <2>2. t # u => handler'[t] = handler[t] /\ events'[t] = events[t]
    BY <1>4 DEF TurnStep, AgentEnds, MarkDone, HandlerStep, HandlerReturns,
                HandlerReturnsEarly, ProxyLate, WatchPreempt, WatchStop,
                TypeOK, TurnsTypeOK
  <2>3. CASE t # u
    BY <2>1, <2>2, <2>3 DEF HandlersOK
  <2>4. CASE t = u /\ AgentEnds(u)
    BY <2>1, <2>4, ConstantsAssumption
       DEF AgentEnds, HandlersOK, TypeOK, TurnsTypeOK, Outcomes
  <2>5. CASE t = u /\ HandlerReturns(u)
    <3>1. PICK e \in HandlerErrors(events[u]) : handler' = [handler EXCEPT ![u] = e]
      BY <2>5 DEF HandlerReturns
    <3>2. e \in {"nil", "agent", "cancel"} /\ (e = "cancel" => events[u] = "cancel")
      BY DEF HandlerErrors
    <3>3. UNCHANGED events /\ handler[u] = "running"
      BY <2>5 DEF HandlerReturns
    <3>4. handler'[u] = e
      BY <3>1 DEF TypeOK, TurnsTypeOK
    <3>5. ~ToCome(u)
      BY <3>3 DEF HandlersOK
    <3> QED BY <2>1, <2>5, <3>2, <3>3, <3>4, <3>5
  <2>6. CASE t = u /\ (HandlerReturnsEarly(u) \/ ProxyLate(u))
    <3>1. UNCHANGED events /\ handler'[u] \in {"early", "nil"}
          /\ handler[u] \in {"running", "early"}
      BY <2>6 DEF HandlerReturnsEarly, ProxyLate, TypeOK, TurnsTypeOK
    <3>2. ~ToCome(u)
      BY <3>1 DEF HandlersOK
    <3> QED BY <2>1, <2>6, <3>1, <3>2
  <2>7. CASE MarkDone(u) \/ WatchPreempt(u) \/ WatchStop(u)
    <3>1. UNCHANGED <<events, handler>>
      BY <2>7 DEF MarkDone, WatchPreempt, WatchStop
    <3> QED BY <2>1, <3>1 DEF HandlersOK
  <2> QED BY <1>4, <2>3, <2>4, <2>5, <2>6, <2>7 DEF TurnStep, HandlerStep
<1>5. CASE ~LoopStep /\ ~Restart /\ ~TurnKind
  <2>1. UNCHANGED <<turnID, events, handler>> /\ (pc = "wait" => pc' = "wait")
    BY <1>5, OutsideSteps DEF turnVars
  <2>2. ToCome(t)' => ToCome(t)
    BY <1>5, ToComeNext
  <2> QED BY <2>1, <2>2 DEF HandlersOK
<1> QED
  BY <1>1, <1>2, <1>3, <1>4, <1>5 DEF TurnKind

\* ResumeHasState is preserved.
LEMMA ResumeNext ==
    ASSUME TypeOK, PhaseOK, TurnNumbered, ResumeHasState, [Next]_vars
    PROVE  ResumeHasState'
<1>1. ASSUME UNCHANGED <<planVars, turnID>>,
             pc' = pc \/ pc' \notin {"resumeWait", "resumeTake", "prepare",
                                     "activate", "launch", "wait"},
             pc' \in {"launch", "wait"} => bridge[turnID] \subseteq bridge'[turnID]
      PROVE  ResumeHasState'
  BY <1>1 DEF ResumeHasState, planVars
<1>2. CASE Restart
  BY <1>2 DEF Restart, ResumeHasState
<1>3. CASE LoopStep
  <2>1. CASE tryLoadCheckpoint
    <3>1. /\ UNCHANGED <<consumed, isResume, resumeBytes>>
          /\ pc' \in {"top", "cleanup"}
      BY <2>1 DEF tryLoadCheckpoint, goto, exitWith
    <3>2. \/ UNCHANGED pendingResume
          \/ /\ store.bytes # {}
             /\ pendingResume' = [interrupted |-> store.canceled,
                                  unhandled |-> store.unhandled,
                                  newItems |-> buf, bytes |-> store.bytes]
      BY <2>1 DEF tryLoadCheckpoint
    <3>3. pendingResume' # NoResume => pendingResume'.bytes # {}
      BY <3>2 DEF ResumeHasState
    <3> QED BY <3>1, <3>3 DEF ResumeHasState
  <2>2. CASE LoopTop
    BY <2>2 DEF LoopTop, goto, exitWith, ResumeHasState, planVars
  <2>3. CASE WaitForPushes
    BY <2>3 DEF WaitForPushes, goto, ResumeHasState, planVars
  <2>4. CASE ResumeTake
    BY <2>4 DEF ResumeTake, goto, ResumeHasState
  <2>5. CASE IdleQuery \/ RecheckIdle \/ BeginPlanning
    BY <2>5 DEF IdleQuery, RecheckIdle, BeginPlanning, goto, exitWith,
                ResumeHasState, planVars
  <2>6. CASE LoopReceive \/ GotFirst \/ TakeRest
    BY <2>6 DEF LoopReceive, GotFirst, TakeRest, goto, exitWith, ResumeHasState
  <2>7. CASE planTurn
    <3>1. /\ UNCHANGED <<isResume, pendingResume, resumeBytes>>
          /\ pc' \in {"abort", "prepare"}
      BY <2>7 DEF planTurn, goto
    <3>2. ASSUME pc' = "prepare" PROVE consumed' # <<>> \/ resumeBytes # {}
      <4>1. PICK k \in 0..Len(items) : /\ isResume \/ k > 0
                                       /\ consumed' = SubSeq(items, 1, k)
        BY <2>7, <3>2 DEF planTurn, goto
      <4>2. Len(consumed') = k
        BY <4>1, LedgerTypes
      <4> QED BY <4>1, <4>2 DEF ResumeHasState
    <3> QED BY <3>1, <3>2 DEF ResumeHasState
  <2>8. CASE PrepareAgent
    BY <2>8 DEF PrepareAgent, goto, ResumeHasState
  <2>9. CASE AbortPlanning \/ EndPreempt
    BY <2>9 DEF AbortPlanning, EndPreempt, goto, exitWith, ResumeHasState
  <2>10. CASE Activate
    <3>1. turnID \in Turns /\ UNCHANGED <<turnID, planVars>> /\ pc' = "launch"
      BY <2>10, CurrentTurn DEF Activate, preBeginActiveTurn, goto
    <3>2. bridge'[turnID] = resumeBytes
      BY <2>10, <3>1 DEF Activate, TypeOK, TurnsTypeOK
    <3> QED BY <2>10, <3>1, <3>2 DEF ResumeHasState, planVars, Activate
  <2>11. CASE Launch
    <3>1. UNCHANGED <<turnID, planVars, bridge>> /\ pc' \in {"endStop", "wait"}
      BY <2>11 DEF Launch, goto, preVars
    <3> QED BY <2>11, <3>1 DEF ResumeHasState, planVars, Launch
  <2>12. CASE TurnReturns \/ EndStop \/ Cleanup \/ TakeUnhandled
    BY <2>12 DEF TurnReturns, EndStop, Cleanup, TakeUnhandled, goto,
                 ResumeHasState, planVars
  <2>13. CASE PersistResult \/ CloseControllers \/ CloseBuffer
    BY <2>13 DEF PersistResult, CloseControllers, CloseBuffer, goto,
                 ResumeHasState, planVars
  <2> QED BY <1>3, <2>1, <2>2, <2>3, <2>4, <2>5, <2>6, <2>7, <2>8, <2>9, <2>10,
             <2>11, <2>12, <2>13 DEF LoopStep
<1>4. ASSUME NEW t \in Turns, TurnStep(t) PROVE ResumeHasState'
  <2>1. UNCHANGED <<planVars, turnID, pc>>
    BY <1>4, TurnSteps
  <2>2. ASSUME NEW u \in Turns PROVE bridge[u] \subseteq bridge'[u]
    BY <1>4 DEF TurnStep, AgentEnds, MarkDone, HandlerStep, HandlerReturns,
                HandlerReturnsEarly, ProxyLate, WatchPreempt, WatchStop,
                TypeOK, TurnsTypeOK
  <2>3. pc \in {"launch", "wait"} => turnID \in Turns
    BY CurrentTurn
  <2> QED BY <1>1, <2>1, <2>2, <2>3
<1>5. CASE ~LoopStep /\ ~Restart /\ ~TurnKind
  BY <1>1, <1>5, OutsideSteps DEF turnVars
<1> QED
  BY <1>2, <1>3, <1>4, <1>5 DEF TurnKind

\* BridgeHolds is preserved: an agent that ends with a CancelError has left
\* the turn's items in the bridge store.
LEMMA BridgeNext ==
    ASSUME TypeOK, PhaseOK, TurnNumbered, HandlersOK, ResumeHasState,
           BridgeHolds, [Next]_vars
    PROVE  BridgeHolds'
<1> SUFFICES ASSUME Persist
             PROVE  /\ \A t \in Turns : Cancelled(t)' => bridge'[t] # {}
                    /\ pc' \in {"wait", "endStop", "endPreempt"} /\ Cancelled(turnID)'
                         => ItemsOf(consumed') \subseteq bridge'[turnID']
  BY DEF BridgeHolds
<1> DEFINE Running == {"wait", "endStop", "endPreempt"}
<1>1. ASSUME UNCHANGED <<consumed, turnID, events, handler, bridge>>,
             pc' \in Running => pc \in Running
      PROVE  BridgeHolds'
  BY <1>1 DEF BridgeHolds, Cancelled
<1>2. CASE Restart
  <2>1. \A t \in Turns : ~Cancelled(t)'
    BY <1>2 DEF Restart, PerTurn, Cancelled
  <2>2. pc' = "new"
    BY <1>2 DEF Restart
  <2> QED BY <2>1, <2>2
<1>3. CASE Activate
  <2>1. turnID \in Turns /\ UNCHANGED <<events, handler>> /\ pc' = "launch"
    BY <1>3, CurrentTurn DEF Activate, goto
  <2>2. ~Cancelled(turnID)
    BY <1>3, <2>1 DEF HandlersOK, ToCome, Cancelled, Activate
  <2>3. \A t \in Turns : t # turnID => bridge'[t] = bridge[t]
    BY <1>3 DEF Activate, TypeOK, TurnsTypeOK
  <2> QED BY <2>1, <2>2, <2>3 DEF BridgeHolds, Cancelled
<1>4. CASE Launch
  <2>1. turnID \in Turns /\ UNCHANGED <<turnID, bridge, consumed>>
    BY <1>4, CurrentTurn DEF Launch, preVars, planVars
  <2>2. ~Cancelled(turnID)'
    BY <1>4, <2>1 DEF Launch, Cancelled, HandlersOK, ToCome, TypeOK, TurnsTypeOK
  <2>3. \A t \in Turns : t # turnID => (Cancelled(t)' <=> Cancelled(t))
    BY <1>4 DEF Launch, Cancelled, TypeOK, TurnsTypeOK
  <2> QED BY <2>1, <2>2, <2>3 DEF BridgeHolds
<1>5. CASE EndPreempt
  <2>1. UNCHANGED <<events, handler, bridge>> /\ pc' \notin Running
    BY <1>5 DEF EndPreempt, exitWith, goto, turnVars
  <2> QED BY <2>1 DEF BridgeHolds, Cancelled
<1>6. CASE LoopStep /\ ~Activate /\ ~Launch /\ ~EndPreempt
  <2>1. UNCHANGED <<events, handler, bridge>>
    BY <1>6, LoopSteps
  <2>2. pc' \in Running => pc \in Running /\ UNCHANGED <<consumed, turnID>>
    BY <1>6
       DEF LoopStep, tryLoadCheckpoint, LoopTop, WaitForPushes, ResumeTake,
           IdleQuery, LoopReceive, RecheckIdle, GotFirst, TakeRest,
           BeginPlanning, planTurn, PrepareAgent, AbortPlanning, TurnReturns,
           EndStop, Cleanup, TakeUnhandled, PersistResult, CloseControllers,
           CloseBuffer, goto, exitWith, planVars, preVars
  <2> QED BY <2>1, <2>2 DEF BridgeHolds, Cancelled
<1>7. ASSUME NEW u \in Turns, TurnStep(u) PROVE BridgeHolds'
  <2>1. UNCHANGED <<consumed, turnID, pc, resumeBytes>>
    BY <1>7, TurnSteps DEF planVars
  <2>2. CASE AgentEnds(u)
    <3>1. PICK o \in AgentOutcomes :
            /\ events' = [events EXCEPT ![u] = o]
            /\ bridge' = [bridge EXCEPT ![u] =
                 IF Persist /\ o \in {"cancel", "internal"}
                   THEN @ \cup ItemsOf(consumed) ELSE @]
      BY <2>2 DEF AgentEnds
    <3>2. UNCHANGED handler
      BY <2>2 DEF AgentEnds
    <3>3. \A t \in Turns : t # u => bridge'[t] = bridge[t] /\ events'[t] = events[t]
      BY <3>1 DEF TypeOK, TurnsTypeOK
    <3>4. CASE Cancelled(u)'
      <4>1. events'[u] = "cancel" /\ handler[u] \in {"running", "cancel"}
        BY <3>2, <3>4 DEF Cancelled
      <4>2. bridge'[u] = bridge[u] \cup ItemsOf(consumed)
        BY <3>1, <4>1 DEF TypeOK, TurnsTypeOK
      <4>3. handler[u] = "running"
        BY <2>2, <4>1 DEF HandlersOK, AgentEnds
      <4>4. pc = "wait" /\ u = turnID
        BY <4>3 DEF HandlersOK
      <4>5. bridge'[u] # {}
        <5>1. CASE consumed # <<>>
          <6>1. consumed \in Seq(Items)
            BY LedgerTypes
          <6>2. 1 \in DOMAIN consumed
            BY <5>1, <6>1
          <6>3. consumed[1] \in ItemsOf(consumed)
            BY <6>2 DEF ItemsOf
          <6> QED BY <4>2, <6>3
        <5>2. CASE consumed = <<>>
          BY <4>2, <4>4, <5>2 DEF ResumeHasState
        <5> QED BY <5>1, <5>2
      <4> QED BY <2>1, <3>2, <3>3, <4>2, <4>4, <4>5 DEF BridgeHolds, Cancelled
    <3>5. CASE ~Cancelled(u)'
      <4>1. pc \in Running => turnID \in Turns
        BY CurrentTurn
      <4> QED BY <2>1, <3>2, <3>3, <3>5, <4>1 DEF BridgeHolds, Cancelled
    <3> QED BY <3>4, <3>5
  <2>3. CASE HandlerStep(u)
    <3>1. UNCHANGED <<events, bridge>>
      BY <2>3 DEF HandlerStep, HandlerReturns, HandlerReturnsEarly, ProxyLate
    <3>2. \A t \in Turns : t # u => handler'[t] = handler[t]
      BY <2>3 DEF HandlerStep, HandlerReturns, HandlerReturnsEarly, ProxyLate,
                  TypeOK, TurnsTypeOK
    <3>3. handler'[u] \in {"running", "cancel"} => handler[u] \in {"running", "cancel"}
      BY <2>3 DEF HandlerStep, HandlerReturns, HandlerReturnsEarly, ProxyLate,
                  TypeOK, TurnsTypeOK
    <3>4. \A t \in Turns : Cancelled(t)' => Cancelled(t)
      BY <3>1, <3>2, <3>3 DEF Cancelled
    <3>5. pc \in Running => turnID \in Turns
      BY CurrentTurn
    <3> QED BY <2>1, <3>1, <3>4, <3>5 DEF BridgeHolds
  <2>4. CASE MarkDone(u) \/ WatchPreempt(u) \/ WatchStop(u)
    <3>1. UNCHANGED <<events, handler, bridge>>
      BY <2>4 DEF MarkDone, WatchPreempt, WatchStop
    <3> QED BY <1>1, <2>1, <3>1
  <2> QED BY <1>7, <2>2, <2>3, <2>4 DEF TurnStep
<1>8. CASE ~LoopStep /\ ~Restart /\ ~TurnKind
  <2>1. UNCHANGED <<consumed, turnID, events, handler, bridge>>
    BY <1>8, OutsideSteps DEF turnVars, planVars
  <2>2. pc' = pc \/ (pc = "new" /\ pc' = "load")
    BY <1>8, OutsideSteps
  <2>3. pc' \in Running => pc \in Running
    BY <2>2
  <2> QED BY <1>1, <2>1, <2>3 DEF BridgeHolds
<1> QED
  BY <1>2, <1>3, <1>4, <1>5, <1>6, <1>7, <1>8 DEF TurnKind, BridgeHolds

\* CancelKept is preserved: the end of the turn, its deferred calls and the
\* cleanup keep the CancelError, the runner state and the interrupted items.
LEMMA CancelNext ==
    ASSUME TypeOK, PhaseOK, TurnNumbered, HandlersOK, BridgeHolds, CancelKept,
           [Next]_vars
    PROVE  CancelKept'
<1> SUFFICES ASSUME Persist PROVE CancelKept'
  BY DEF CancelKept
<1> DEFINE Running == {"wait", "endStop", "endPreempt"}
           Exiting == {"cleanup", "takeUnhandled", "persist"}
           Planned == {"plan", "prepare", "abort", "activate", "launch"}
<1>0. turnID \in 0..MaxTurns /\ MaxTurns \in Nat
  BY ConstantsAssumption DEF TypeOK, PreTypeOK
<1>a. turnID > 0 => turnID \in Turns
  BY <1>0 DEF Turns
<1>b. pc \in Planned => ~CancelEnds
  BY <1>a DEF CancelEnds, HandlersOK, ToCome
<1>c. ASSUME ~CancelEnds' PROVE CancelKept'
  BY <1>c DEF CancelKept
<1>d. ASSUME pc' \notin Running \cup AfterTurn \cup BetweenTurns PROVE CancelKept'
  BY <1>d DEF CancelKept, AfterTurn
<1>1. ASSUME UNCHANGED <<pc, turnID, runErr, runnerBytes, interruptedItems>>,
             turnID > 0 => UNCHANGED <<handler[turnID], bridge[turnID]>>,
             captured => captured',
             turnID > 0 /\ preemptDone[turnID] => preemptDone'[turnID]
      PROVE  CancelKept'
  BY <1>1, <1>a DEF CancelKept, CancelEnds, TypeOK, TurnsTypeOK
<1>2. CASE Restart
  <2>1. turnID' = 0
    BY <1>2 DEF Restart
  <2> QED BY <1>c, <2>1 DEF CancelEnds
<1>3. CASE LoopStep
  <2>1. CASE BeginPlanning
    <3>1. pc' = "plan"
      BY <2>1 DEF BeginPlanning, goto
    <3> QED BY <1>d, <3>1 DEF AfterTurn, BetweenTurns
  <2>2. CASE pc \in Planned /\ ~Launch
    <3>1. ~BeginPlanning
      BY <2>2 DEF BeginPlanning
    <3>2. UNCHANGED <<turnID, handler>>
      BY <1>3, <2>2, <3>1, LoopSteps
    <3> QED BY <1>b, <1>c, <2>2, <3>2 DEF CancelEnds
  <2>3. CASE Launch
    <3>1. UNCHANGED turnID /\ turnID \in Turns /\ handler[turnID] = "none"
      BY <2>3, CurrentTurn DEF Launch, preVars, HandlersOK, ToCome
    <3>2. handler'[turnID] # "cancel"
      BY <2>3, <3>1 DEF Launch, TypeOK, TurnsTypeOK
    <3> QED BY <1>c, <3>1, <3>2 DEF CancelEnds
  <2>4. CASE TurnReturns
    <3>1. turnID \in Turns /\ UNCHANGED <<turnID, handler, bridge, captured, preemptDone>>
      BY <2>4, CurrentTurn DEF TurnReturns, preVars, turnVars
    <3>2. pc = "wait" /\ pc' = "endStop"
      BY <2>4 DEF TurnReturns, goto
    <3>3. ASSUME CancelEnds, ~preemptDone[turnID]
          PROVE  runErr' = "cancel" /\ runnerBytes' = bridge[turnID]
      <4>1. finalizeCheckpoint /\ runErr' = applyFrameworkCapturedError
        BY <2>4, <3>3 DEF TurnReturns
      <4>2. bridge[turnID] # {}
        BY <3>1, <3>3 DEF CancelEnds, HandlersOK, BridgeHolds, Cancelled
      <4> QED BY <3>3, <4>1, <4>2 DEF finalizeCheckpoint, CancelEnds,
                                      applyFrameworkCapturedError
    <3> QED BY <3>1, <3>2, <3>3 DEF CancelKept, CancelEnds, AfterTurn, BetweenTurns
  <2>5. CASE EndStop
    <3>1. /\ UNCHANGED <<turnID, handler, bridge, captured, preemptDone, runErr,
                         runnerBytes>>
          /\ pc = "endStop" /\ pc' = "endPreempt"
      BY <2>5 DEF EndStop, goto, preVars, turnVars, resultVars
    <3> QED BY <3>1 DEF CancelKept, CancelEnds, AfterTurn, BetweenTurns
  <2>6. CASE EndPreempt
    <3>1. /\ UNCHANGED <<turnID, handler, bridge, captured, preemptDone, runnerBytes>>
          /\ pc = "endPreempt"
      BY <2>6 DEF EndPreempt, preEndActiveTurn, turnVars
    <3>2. CASE ~CancelEnds
      BY <1>c, <3>1, <3>2 DEF CancelEnds
    <3>3. CASE CancelEnds /\ ~preemptDone[turnID]
      <4>1. runErr = "cancel" /\ captured /\ runnerBytes = bridge[turnID]
        BY <3>1, <3>3 DEF CancelKept, AfterTurn
      <4>2. pc' = "cleanup" /\ runErr' = "cancel" /\ interruptedItems' = consumed
        BY <2>6, <4>1 DEF EndPreempt, exitWith, goto
      <4>3. ItemsOf(consumed) \subseteq bridge[turnID]
        <5>1. turnID \in Turns
          BY <3>1, CurrentTurn
        <5> QED BY <3>1, <3>3, <5>1 DEF BridgeHolds, Cancelled, CancelEnds, HandlersOK
      <4> QED BY <3>1, <4>1, <4>2, <4>3 DEF CancelKept, CancelEnds, AfterTurn,
                                            BetweenTurns
    <3>4. CASE CancelEnds /\ preemptDone[turnID]
      <4>1. pc' \in {"cleanup", "top"}
        BY <2>6 DEF EndPreempt, exitWith, goto
      <4> QED BY <3>1, <3>4, <4>1 DEF CancelKept, CancelEnds, AfterTurn, BetweenTurns
    <3> QED BY <3>2, <3>3, <3>4
  <2>7. CASE Cleanup \/ TakeUnhandled
    <3>1. /\ UNCHANGED <<turnID, handler, bridge, captured, preemptDone, runErr,
                         runnerBytes, interruptedItems>>
          /\ pc \in {"cleanup", "takeUnhandled"} /\ pc' \in {"takeUnhandled", "persist"}
      BY <2>7 DEF Cleanup, TakeUnhandled, goto, preVars, turnVars, resultVars,
                  planFrame
    <3> QED BY <3>1 DEF CancelKept, CancelEnds, AfterTurn, BetweenTurns
  <2>8. CASE PersistResult \/ CloseControllers \/ CloseBuffer
    <3>1. pc' \in {"closeControllers", "closeBuffer", "exited"}
      BY <2>8 DEF PersistResult, CloseControllers, CloseBuffer, goto
    <3> QED BY <1>d, <3>1 DEF AfterTurn, BetweenTurns
  <2>9. CASE pc \in BetweenTurns /\ ~BeginPlanning
    <3>1. UNCHANGED <<turnID, handler, preemptDone>>
      <4>1. ~Launch
        BY <2>9 DEF Launch, BetweenTurns
      <4> QED BY <1>3, <2>9, <4>1, LoopSteps
    <3>2. pc' \in BetweenTurns \cup {"cleanup"}
      BY <1>3, <2>9
         DEF LoopStep, tryLoadCheckpoint, LoopTop, WaitForPushes, ResumeTake,
             IdleQuery, LoopReceive, RecheckIdle, GotFirst, TakeRest,
             planTurn, PrepareAgent, AbortPlanning, Activate, Launch,
             TurnReturns, EndStop, EndPreempt, Cleanup, TakeUnhandled,
             PersistResult, CloseControllers, CloseBuffer, goto, exitWith,
             BetweenTurns
    <3> QED BY <2>9, <3>1, <3>2 DEF CancelKept, CancelEnds, AfterTurn, BetweenTurns
  <2> QED BY <1>3, <2>1, <2>2, <2>3, <2>4, <2>5, <2>6, <2>7, <2>8, <2>9
             DEF LoopStep, tryLoadCheckpoint, LoopTop, WaitForPushes,
                 ResumeTake, IdleQuery, LoopReceive, RecheckIdle, GotFirst,
                 TakeRest, planTurn, PrepareAgent, AbortPlanning, Activate, BetweenTurns
<1>4. ASSUME NEW u \in Turns, TurnStep(u) PROVE CancelKept'
  <2>1. UNCHANGED <<turnID, pc, runErr, runnerBytes, interruptedItems>>
    BY <1>4, TurnSteps
  <2>2. captured => captured'
    BY <1>4 DEF TurnStep, AgentEnds, MarkDone, HandlerStep, HandlerReturns,
                HandlerReturnsEarly, ProxyLate, ProxyCaptures, WatchPreempt,
                WatchStop
  <2>3. \A t \in Turns : preemptDone[t] => preemptDone'[t]
    BY <1>4 DEF TurnStep, AgentEnds, MarkDone, HandlerStep, HandlerReturns,
                HandlerReturnsEarly, ProxyLate, WatchPreempt, watchPreempt,
                WatchStop, TypeOK, TurnsTypeOK
  <2>4. CASE HandlerReturns(u)
    <3>1. pc = "wait" /\ u = turnID /\ UNCHANGED events
      BY <2>4 DEF HandlersOK, HandlerReturns
    <3>2. ASSUME handler'[u] = "cancel" PROVE captured'
      <4>1. events[u] = "cancel"
        <5>1. PICK e \in HandlerErrors(events[u]) : handler' = [handler EXCEPT ![u] = e]
          BY <2>4 DEF HandlerReturns
        <5>2. e = "cancel"
          BY <3>2, <5>1 DEF TypeOK, TurnsTypeOK
        <5> QED BY <5>1, <5>2 DEF HandlerErrors
      <4> QED BY <2>4, <4>1 DEF HandlerReturns, ProxyCaptures
    <3> QED BY <2>1, <3>1, <3>2 DEF CancelKept, CancelEnds, AfterTurn, BetweenTurns
  <2>5. CASE HandlerReturnsEarly(u) \/ ProxyLate(u)
    <3>1. /\ \A t \in Turns : handler'[t] = "cancel" => handler[t] = "cancel"
          /\ UNCHANGED bridge
      BY <2>5 DEF HandlerReturnsEarly, ProxyLate, TypeOK, TurnsTypeOK
    <3> QED BY <1>a, <2>1, <2>2, <2>3, <3>1 DEF CancelKept, CancelEnds
  <2>6. CASE AgentEnds(u)
    <3>1. UNCHANGED handler
      BY <2>6 DEF AgentEnds
    <3>2. CancelEnds => UNCHANGED bridge[turnID]
      <4> SUFFICES ASSUME CancelEnds PROVE UNCHANGED bridge[turnID]
        OBVIOUS
      <4>1. turnID \in Turns /\ events[turnID] = "cancel"
        BY <1>a DEF CancelEnds, HandlersOK
      <4> QED BY <2>1, <2>6, <4>1 DEF AgentEnds, TypeOK, TurnsTypeOK
    <3> QED BY <1>a, <2>1, <2>2, <2>3, <3>1, <3>2 DEF CancelKept, CancelEnds
  <2>7. CASE MarkDone(u) \/ WatchPreempt(u) \/ WatchStop(u)
    <3>1. UNCHANGED <<handler, bridge>>
      BY <2>7 DEF MarkDone, WatchPreempt, WatchStop
    <3> QED BY <1>a, <2>1, <2>2, <2>3, <3>1 DEF CancelKept, CancelEnds
  <2> QED BY <1>4, <2>4, <2>5, <2>6, <2>7 DEF TurnStep, HandlerStep
<1>5. CASE ~LoopStep /\ ~Restart /\ ~TurnKind
  <2>1. UNCHANGED <<turnID, handler, bridge, captured, preemptDone, runErr,
                    runnerBytes, interruptedItems>>
    BY <1>5, OutsideSteps DEF turnVars, resultVars
  <2>2. pc' = pc \/ (pc = "new" /\ pc' = "load")
    BY <1>5, OutsideSteps
  <2> QED BY <2>1, <2>2 DEF CancelKept, CancelEnds, AfterTurn, BetweenTurns
<1> QED
  BY <1>2, <1>3, <1>4, <1>5 DEF TurnKind

\* A turn that a stop cancelled is saved with its items (finalizeCheckpoint,
\* applyFrameworkCapturedError, the deferred end of the turn, cleanup).
THEOREM CancelledTurnsAreSaved == Spec => CancelledTurnIsSaved
<1> DEFINE Inv == TypeOK /\ PhaseOK /\ TurnNumbered
           Saved == (/\ pc = "persist" /\ turnID > 0 /\ ~skipCheckpoint
                     /\ Persist /\ isCommitted /\ ~preemptDone[turnID]
                     /\ events[turnID] = "cancel" /\ handler[turnID] = "cancel"
                     /\ store' # store \/ ~CallbacksMayFail)
                      => /\ store'.exists /\ store'.bytes = bridge[turnID]
                         /\ ItemsOf(store'.canceled) \subseteq store'.bytes
<1>1. Init => SavedInv
  <2> SUFFICES ASSUME Init PROVE SavedInv
    OBVIOUS
  <2>1. turnID = 0 /\ handler = PerTurn("none") /\ events = PerTurn("none")
    BY DEF Init, PreInit
  <2>2. HandlersOK
    BY <2>1 DEF HandlersOK, PerTurn
  <2>3. ResumeHasState
    BY DEF Init, ResumeHasState
  <2>4. BridgeHolds
    BY <2>1 DEF Init, BridgeHolds, Cancelled, PerTurn
  <2>5. CancelKept
    BY <2>1 DEF CancelKept, CancelEnds
  <2> QED BY <2>2, <2>3, <2>4, <2>5 DEF SavedInv
<1>2. Inv /\ SavedInv /\ [Next]_vars => SavedInv'
  BY HandlersNext, ResumeNext, BridgeNext, CancelNext DEF SavedInv
<1>3. Inv /\ SavedInv /\ [Next]_vars => [Saved]_<<pc, store>>
  <2> SUFFICES ASSUME Inv, SavedInv, [Next]_vars, ~UNCHANGED <<pc, store>>,
                      pc = "persist", turnID > 0, ~skipCheckpoint,
                      Persist, isCommitted, ~preemptDone[turnID],
                      events[turnID] = "cancel", handler[turnID] = "cancel",
                      store' # store \/ ~CallbacksMayFail
               PROVE  /\ store'.exists /\ store'.bytes = bridge[turnID]
                      /\ ItemsOf(store'.canceled) \subseteq store'.bytes
    OBVIOUS
  <2>1. turnID \in Turns
    BY ConstantsAssumption DEF TypeOK, PreTypeOK, Turns
  <2>2. LoopStep
    BY OutsideSteps, TurnSteps DEF TurnKind, Restart
  <2>3. PersistResult
    BY <2>2 DEF LoopStep, tryLoadCheckpoint, LoopTop, WaitForPushes,
           ResumeTake, IdleQuery, LoopReceive, RecheckIdle, GotFirst, TakeRest,
           BeginPlanning, planTurn, PrepareAgent, AbortPlanning, Activate,
           Launch, TurnReturns, EndStop, EndPreempt, Cleanup, TakeUnhandled,
           CloseControllers, CloseBuffer
  <2>4. /\ runErr = "cancel" /\ runnerBytes = bridge[turnID]
        /\ ItemsOf(interruptedItems) \subseteq bridge[turnID]
        /\ bridge[turnID] # {}
    BY <2>1 DEF SavedInv, CancelKept, CancelEnds, AfterTurn, BridgeHolds, Cancelled
  <2>5. shouldSaveCheckpoint
    BY <2>4 DEF shouldSaveCheckpoint, exitCausedByStop, isIdle
  <2>6. store' = [bytes |-> runnerBytes, unhandled |-> unhandled,
                  canceled |-> interruptedItems, exists |-> TRUE]
    BY <2>3, <2>5 DEF PersistResult
  <2> QED BY <2>4, <2>6
<1>4. IInv => Inv
  BY DEF IInv
<1> QED
  BY <1>1, <1>2, <1>3, <1>4, Invariance, PTL DEF Spec, CancelledTurnIsSaved

-----------------------------------------------------------------------------
(***************************************************************************)
(* A committed stop.  It stays committed for the life of the loop, and the *)
(* loop looks at it between the plan of a turn and its activation, so a    *)
(* turn that was not activated before is given up.                         *)
(***************************************************************************)
ActivePCs == {"activate", "launch", "wait", "endStop", "endPreempt"}
NeverRuns(t, r) ==
    \/ runs > r
    \/ /\ runs = r /\ stopPhase = "committed"
       /\ turnID < t \/ pc \notin ActivePCs

\* A step of the same loop keeps it committed.
LEMMA CommitStays ==
    ASSUME [Next]_vars, ~Restart, stopPhase = "committed"
    PROVE  stopPhase' = "committed"
<1>1. CASE PushKind \/ EnvKind
  BY <1>1, PushFrame, EnvFrame DEF PushKind, EnvKind, pushFrame, envFrame, stopVars
<1>2. CASE StopKind
  BY <1>2 DEF StopKind, StopCall, StopWake, StopTimeout, IdleTimerFires,
              IdleCommit, finishStopCommit, requestStop, commit, commitLocked,
              CanCommit, stopVars
<1>3. CASE LoopStep
  BY <1>3
     DEF LoopStep, tryLoadCheckpoint, LoopTop, WaitForPushes, ResumeTake,
         IdleQuery, LoopReceive, RecheckIdle, GotFirst, TakeRest,
         BeginPlanning, planTurn, PrepareAgent, AbortPlanning, Activate,
         Launch, TurnReturns, EndStop, EndPreempt, Cleanup, TakeUnhandled,
         PersistResult, CloseControllers, CloseBuffer, planFrame, stopVars,
         stopBeginActiveTurn, stopEndActiveTurn, stopCloseForLoopExit
<1>4. CASE TurnKind
  BY <1>4 DEF TurnKind, TurnStep, AgentEnds, MarkDone, HandlerStep,
              HandlerReturns, HandlerReturnsEarly, ProxyLate, WatchPreempt,
              WatchStop, watchStop, receiveCancel, stopVars
<1>5. CASE UNCHANGED vars
  BY <1>5 DEF vars, stopVars
<1> QED BY <1>1, <1>2, <1>3, <1>4, <1>5, NextKinds

\* Only Restart creates a loop.
LEMMA RunsStay ==
    ASSUME [Next]_vars, ~Restart
    PROVE  UNCHANGED runs
<1>1. CASE LoopStep
  BY <1>1
     DEF LoopStep, tryLoadCheckpoint, LoopTop, WaitForPushes, ResumeTake,
         IdleQuery, LoopReceive, RecheckIdle, GotFirst, TakeRest,
         BeginPlanning, planTurn, PrepareAgent, AbortPlanning, Activate,
         Launch, TurnReturns, EndStop, EndPreempt, Cleanup, TakeUnhandled,
         PersistResult, CloseControllers, CloseBuffer, planFrame, turnFrame,
         storeVars
<1> QED
  BY <1>1, NextKinds, PushFrame, StopFrame, EnvFrame, TurnFrame
     DEF PushKind, StopKind, EnvKind, TurnKind, pushFrame, stopFrame, envFrame,
         agentFrame, vars, storeVars

\* Once a turn never runs it never runs.
LEMMA NeverRunsNext ==
    ASSUME TypeOK, [Next]_vars, NEW t \in Turns, NEW r \in 1..MaxRuns,
           NeverRuns(t, r)
    PROVE  NeverRuns(t, r)'
<1>0. /\ runs \in Nat /\ turnID \in Nat /\ t \in Nat
      /\ r \in Nat
  BY ConstantsAssumption DEF TypeOK, StoreTypeOK, PreTypeOK, Turns
<1>1. CASE Restart
  BY <1>0, <1>1 DEF Restart, NeverRuns
<1>2. CASE ~Restart
  <2>1. UNCHANGED runs /\ (stopPhase = "committed" => stopPhase' = "committed")
    BY <1>2, CommitStays, RunsStay
  <2> SUFFICES ASSUME stopPhase = "committed", turnID < t \/ pc \notin ActivePCs
               PROVE  turnID' < t \/ pc' \notin ActivePCs
    BY <1>0, <2>1 DEF NeverRuns
  <2>2. CASE LoopStep
    <3>1. CASE BeginPlanning
      BY <3>1 DEF BeginPlanning, goto, ActivePCs
    <3>2. CASE ~BeginPlanning
      <4>1. UNCHANGED turnID
        BY <2>2, <3>2, LoopSteps
      <4>2. pc' \in ActivePCs => pc \in ActivePCs
        BY <2>2, <3>2
           DEF LoopStep, tryLoadCheckpoint, LoopTop, WaitForPushes, ResumeTake,
               IdleQuery, LoopReceive, RecheckIdle, GotFirst, TakeRest,
               planTurn, PrepareAgent, AbortPlanning, Activate, Launch,
               TurnReturns, EndStop, EndPreempt, Cleanup, TakeUnhandled,
               PersistResult, CloseControllers, CloseBuffer, goto, exitWith,
               isCommitted, ActivePCs
      <4> QED BY <4>1, <4>2
    <3> QED BY <3>1, <3>2
  <2>3. CASE TurnKind
    BY <2>3, TurnSteps DEF TurnKind
  <2>4. CASE ~LoopStep /\ ~TurnKind
    <3>1. UNCHANGED turnID /\ (pc' = pc \/ pc' = "load")
      BY <1>2, <2>4, OutsideSteps
    <3> QED BY <3>1 DEF ActivePCs
  <2> QED BY <2>2, <2>3, <2>4
<1> QED BY <1>1, <1>2

\* The same for one turn of one loop, as a temporal formula.
LEMMA CommitHolds ==
    ASSUME NEW CONSTANT t \in Turns, NEW CONSTANT r \in 1..MaxRuns
    PROVE  Spec => [](stopPhase = "committed" /\ runs = r /\ NotActivated(t)
                        => [](turnID >= t /\ runs = r => turnPhase # "active"))
<1> DEFINE Before == stopPhase = "committed" /\ runs = r /\ NotActivated(t)
           After == turnID >= t /\ runs = r => turnPhase # "active"
           Never == NeverRuns(t, r)
<1>1. Before => Never
  BY DEF NotActivated, NeverRuns, ActivePCs
<1>2. IInv /\ Never => After
  <2> SUFFICES ASSUME IInv, Never, turnID >= t, runs = r
               PROVE  turnPhase # "active"
    OBVIOUS
  <2>1. runs \in Nat /\ turnID \in Nat /\ t \in Nat
    BY ConstantsAssumption DEF IInv, TypeOK, StoreTypeOK, PreTypeOK, Turns
  <2>2. pc \notin ActivePCs
    BY <2>1 DEF NeverRuns
  <2> QED BY <2>2 DEF IInv, PhaseOK, PhaseAt, ActivePCs
<1>3. IInv /\ Never /\ [Next]_vars => Never'
  BY NeverRunsNext DEF IInv
<1> HIDE DEF Before, After, Never
<1>4. Spec => [](Before => []After)
  BY <1>1, <1>2, <1>3, Invariance, PTL DEF Spec
<1> QED
  BY <1>4 DEF Before, After

\* Once a stop has committed, no turn of the loop runs that was not activated
\* before (the looks at isCommitted in run).
THEOREM StopsPreventTurns == Spec => StopPreventsNewTurns
  BY CommitHolds DEF StopPreventsNewTurns
=============================================================================
