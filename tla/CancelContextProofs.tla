------------------------- MODULE CancelContextProofs -------------------------
(***************************************************************************)
(* Proofs about CancelContext for every tree of contexts, every set of     *)
(* callers with any options and every number of sub-agents: the type       *)
(* invariant and the four safety properties.                               *)
(***************************************************************************)
EXTENDS CancelContext, TLAPS

-----------------------------------------------------------------------------
\* The inductive invariant.

\* Where a call holds cancelMu; InterruptFromGraph keeps it to its end.
InMutex(k) ==
    \/ callPC[k] \in {"swap", "first", "close", "read", "write", "decide"}
    \/ opt[k].graph /\ callPC[k] \in ImmediateSteps
MutexInv ==
    /\ \A k \in Callers : InMutex(k) => cancelMu = k
    /\ exec = "flags" => cancelMu = "exec"

\* While the root runs nobody has contributed and there is no timeout; the
\* compare-and-swap fails only if the execution has ended.
StartInv ==
    /\ state[Root] = "running" =>
         /\ timer = "none"
         /\ \A k \in Callers : /\ ~contributed[k]
                               /\ callPC[k] \in {"ready", "lock", "swap", "returned"}
    /\ \A k \in Callers :
         /\ callPC[k] = "swap" => state[Root] \in {"running", "done"}
         /\ contributed[k] => callPC[k] \notin {"ready", "lock", "swap", "read", "write"}

\* The execution has an error if and only if the root is handled, and then
\* no call can contribute any more.
EndInv ==
    /\ state[Root] = "handled" <=> ~err.none
    /\ state[Root] = "handled" =>
         \A k \in Callers : callPC[k] \notin {"swap", "read", "write"}
    /\ exec = "next" => sub < SubAgents

\* The mode covers what was contributed, but for a first request that has not
\* written it yet; so does the mode that a joining call or the error has read.
CoversAll(m) == \A k \in Callers : contributed[k] => Covers(m, opt[k].mode)
ModeInv ==
    /\ (\A k \in Callers : callPC[k] # "first") => CoversAll(mode[Root])
    /\ \A k \in Callers :
         /\ callPC[k] = "first" => \A j \in Callers \ {k} : ~contributed[j]
         /\ callPC[k] = "write" => CoversAll(seen[k])
    /\ exec = "flags" => CoversAll(errMode)

\* cancelChan of the root is closed before anybody can act on the cancel.
RootInv ==
    /\ state[Root] = "cancelling" =>
         cancelled[Root] \/ \E k \in Callers : callPC[k] \in {"first", "close"}
    /\ \A k \in Callers :
         callPC[k] \in {"read", "write", "decide"} \cup ImmediateSteps => cancelled[Root]
    /\ timer # "none" => cancelled[Root]
    /\ immediate[Root] => cancelled[Root]

\* What the two goroutines of a derived context have seen of its parent, and
\* what a cancel that has reached it says of the root.
ChildInv(c) ==
    /\ state[c] = "cancelling" => cancelled[c]
    /\ spread[c] \in {"adopt", "trigger"} => cancelled[Parent[c]] /\ recursive[Parent[c]]
    /\ urge[c] \in {"adopt"} \cup ImmediateSteps =>
         immediate[Parent[c]] /\ recursive[Parent[c]]
    /\ urge[c] = "interrupt" => state[c] # "running"
    /\ cancelled[c] \/ immediate[c] \/ recursive[c] => cancelled[Root] /\ recursive[Root]
ChildrenInv == \A c \in Children : ChildInv(c)

IInv ==
    /\ TypeOK /\ MutexInv /\ StartInv /\ EndInv
    /\ ModeInv /\ ErrorCoversRequests
    /\ RootInv /\ ChildrenInv /\ ShallowStays /\ RecursiveReaches
-----------------------------------------------------------------------------
\* The disjuncts of Next, for proofs by cases.
LEMMA NextCases ==
    ASSUME Next
    PROVE  \/ \E k \in Callers : \/ CallCheck(k) \/ CallLock(k) \/ CallSwap(k)
                                 \/ CallFirst(k) \/ CallJoin(k) \/ CallDecide(k)
                                 \/ CallImmediate(k) \/ CallWait(k)
           \/ TimerLoop \/ TimerFires \/ TimerWakes \/ TimerImmediate
           \/ \E c \in Children : \/ SpreadWaits(c) \/ SpreadAdopts(c)
                                  \/ SpreadTriggers(c) \/ UrgeWaits(c)
                                  \/ UrgeAdopts(c) \/ UrgeTriggers(c)
                                  \/ ChildEnds(c)
           \/ NextSubAgent \/ ReportMode \/ ReportError
           \/ SubAgentEnds \/ AgentInterrupts \/ CtxEnds \/ Tick
  BY DEF Next, CallStep, TimerStep, ChildStep, ExecStep

-----------------------------------------------------------------------------
\* Types.

LEMMA FieldsFrame == ASSUME FieldsOK, UNCHANGED fields PROVE FieldsOK'
  BY DEF FieldsOK, fields
LEMMA RootFrame == ASSUME RootFieldsOK, UNCHANGED <<rootFields, cancelMu>> PROVE RootFieldsOK'
  BY DEF RootFieldsOK, rootFields
LEMMA CallsFrame == ASSUME CallsOK, UNCHANGED callVars PROVE CallsOK'
  BY DEF CallsOK, callVars
LEMMA TimerFrame == ASSUME TimerOK, UNCHANGED timerVars PROVE TimerOK'
  BY DEF TimerOK, timerVars
LEMMA ChildrenFrame == ASSUME ChildrenOK, UNCHANGED childVars PROVE ChildrenOK'
  BY DEF ChildrenOK, childVars
LEMMA ExecFrame == ASSUME ExecOK, UNCHANGED execVars PROVE ExecOK'
  BY DEF ExecOK, execVars
LEMMA EnvFrame == ASSUME EnvOK, UNCHANGED envVars PROVE EnvOK'
  BY DEF EnvOK, envVars

\* A step of triggerImmediate keeps the types of the fields.
LEMMA TriggerType ==
    ASSUME FieldsOK, NEW c \in Contexts, NEW l, triggerImmediate(c, l)
    PROVE  FieldsOK'
  BY DEF FieldsOK, triggerImmediate, Modes, CancelImmediate

LEMMA TypeInit == ASSUME Init PROVE TypeOK
  <1>1. FieldsOK /\ RootFieldsOK
    BY DEF Init, FieldsOK, RootFieldsOK, Modes, CancelImmediate
  <1>2. CallsOK
    BY DEF Init, CallsOK, Modes, Options, NoOptions, SafePoints, CancelImmediate, CallPCs
  <1>3. TimerOK /\ ChildrenOK
    BY DEF Init, TimerOK, ChildrenOK, Modes, CancelImmediate, Waiting
  <1>4. SubAgents \in Nat
    BY ContextsAssumption
  <1>5. NoErr \in [mode : Modes, escalated : BOOLEAN, timeout : BOOLEAN, none : BOOLEAN]
    BY DEF NoErr, Modes
  <1>6. ExecOK
    BY <1>4, <1>5 DEF Init, ExecOK, Modes, CancelImmediate
  <1>7. EnvOK
    BY DEF Init, EnvOK
  <1> QED
    BY <1>1, <1>2, <1>3, <1>6, <1>7 DEF TypeOK

\* Steps of the cancel function and of InterruptFromGraph.
LEMMA CallType ==
    ASSUME TypeOK, NEW k \in Callers, CallCheck(k) \/ CallStep(k)
    PROVE  TypeOK'
  <1> USE DEF TypeOK
  <1>1. CASE CallCheck(k)
    <2>1. PICK o \in CallOptions[k] :
             /\ opt' = [opt EXCEPT ![k] = o]
             /\ IF IsDone(Root) /\ ~o.graph
                  THEN Refuse(k, o, EndedResult)
                  ELSE /\ callPC' = [callPC EXCEPT ![k] = "lock"]
                       /\ UNCHANGED result
      BY <1>1 DEF CallCheck
    <2>2. o \in Options
      BY ContextsAssumption
    <2>3. CallsOK'
      BY <1>1, <2>1, <2>2 DEF CallCheck, CallsOK, Refuse, EndedResult, CallPCs
    <2> QED
      BY <1>1, <2>3, FieldsFrame, RootFrame, TimerFrame, ChildrenFrame, ExecFrame,
         EnvFrame DEF CallCheck
  <1>2. CASE CallLock(k)
    <2>1. CallsOK'
      BY <1>2 DEF CallLock, CallsOK, Refuse, EndedResult, CallPCs, callVars
    <2>2. RootFieldsOK'
      BY <1>2 DEF CallLock, RootFieldsOK, rootFields
    <2> QED
      BY <1>2, <2>1, <2>2, FieldsFrame, TimerFrame, ChildrenFrame, ExecFrame,
         EnvFrame DEF CallLock
  <1>3. CASE CallSwap(k)
    <2>1. callPC' \in [Callers -> CallPCs]
      BY <1>3 DEF CallSwap, CallsOK, Refuse, Accepted, CallPCs
    <2>2. contributed' \in [Callers -> BOOLEAN]
      <3>1. opt[k].graph \in BOOLEAN
        BY DEF CallsOK, Options
      <3> QED
        BY <1>3, <3>1 DEF CallSwap, CallsOK
    <2>3. CallsOK'
      BY <1>3, <2>1, <2>2 DEF CallSwap, CallsOK, Refuse
    <2>4. FieldsOK' /\ RootFieldsOK'
      BY <1>3 DEF CallSwap, FieldsOK, RootFieldsOK, rootFields
    <2> QED
      BY <1>3, <2>3, <2>4, TimerFrame, ChildrenFrame, ExecFrame, EnvFrame DEF CallSwap
  <1>4. CASE CallFirst(k)
    <2>1. CallsOK'
      BY <1>4 DEF CallFirst, CallsOK, CallPCs
    <2>2. opt[k].mode \in Modes /\ opt[k].recursive \in BOOLEAN
      BY DEF CallsOK, Options, Modes
    <2>3. FieldsOK'
      BY <1>4, <2>2 DEF CallFirst, FieldsOK, Contexts
    <2> QED
      BY <1>4, <2>1, <2>3, RootFrame, TimerFrame, ChildrenFrame, ExecFrame, EnvFrame
         DEF CallFirst
  <1>5. CASE CallJoin(k)
    <2>1. opt[k].mode \in Modes /\ opt[k].recursive \in BOOLEAN
      BY DEF CallsOK, Options, Modes
    <2>2. mode[Root] \in Modes /\ join(seen[k], opt[k].mode) \in Modes
      BY <2>1 DEF FieldsOK, CallsOK, Contexts, join, Modes, CancelImmediate
    <2>3. CallsOK'
      BY <1>5, <2>2 DEF CallJoin, CallsOK, CallPCs
    <2>4. FieldsOK'
      BY <1>5, <2>1, <2>2 DEF CallJoin, FieldsOK, Contexts
    <2> QED
      BY <1>5, <2>3, <2>4, RootFrame, TimerFrame, ChildrenFrame, ExecFrame, EnvFrame
         DEF CallJoin
  <1>6. CASE CallDecide(k)
    <2>1. CallsOK'
      BY <1>6 DEF CallDecide, CallsOK, Accepted, CallPCs, ImmediateSteps
    <2>2. now \in Nat /\ opt[k].timeout \in Nat
      BY DEF CallsOK, EnvOK, Options
    <2>3. cancelMu' \in Callers \cup {"free", "exec"}
      BY <1>6 DEF CallDecide
    <2>4. SetDeadline(k) \/ UNCHANGED <<deadline, timeoutNotify, timer>>
      BY <1>6 DEF CallDecide
    <2>5. deadline' \in Nat
      BY <2>2, <2>4 DEF SetDeadline, RootFieldsOK
    <2>6. timeoutNotify' \in BOOLEAN
      BY <2>4 DEF SetDeadline, RootFieldsOK
    <2>7. TimerOK'
      BY <1>6, <2>4 DEF CallDecide, SetDeadline, TimerOK
    <2>8. RootFieldsOK'
      BY <1>6, <2>3, <2>5, <2>6 DEF CallDecide, RootFieldsOK
    <2> QED
      BY <1>6, <2>1, <2>7, <2>8, FieldsFrame, ChildrenFrame, ExecFrame, EnvFrame
         DEF CallDecide
  <1>7. CASE CallImmediate(k)
    <2>1. CallsOK'
      BY <1>7 DEF CallImmediate, CallsOK, After, Accepted, CallPCs, ImmediateSteps
    <2>2. RootFieldsOK'
      BY <1>7 DEF CallImmediate, RootFieldsOK, rootFields
    <2> QED
      BY <1>7, <2>1, <2>2, TriggerType, TimerFrame, ChildrenFrame, ExecFrame, EnvFrame
         DEF CallImmediate, Contexts
  <1>8. CASE CallWait(k)
    <2>1. CallsOK'
      BY <1>8 DEF CallWait, CallsOK, CallPCs
    <2> QED
      BY <1>8, <2>1, FieldsFrame, RootFrame, TimerFrame, ChildrenFrame, ExecFrame,
         EnvFrame DEF CallWait
  <1> QED
    BY <1>1, <1>2, <1>3, <1>4, <1>5, <1>6, <1>7, <1>8 DEF CallStep

\* Steps of the timeout goroutine and of those that pass a cancel on.
LEMMA GoroutineType ==
    ASSUME TypeOK, TimerStep \/ \E c \in Children : ChildStep(c) \/ ChildEnds(c)
    PROVE  TypeOK'
  <1> USE DEF TypeOK
  <1>1. CASE TimerLoop \/ TimerFires \/ TimerWakes
    <2>1. FieldsOK'
      BY <1>1 DEF TimerLoop, TimerFires, TimerWakes, Escalates, FieldsOK, fields
    <2>2. RootFieldsOK' /\ TimerOK'
      BY <1>1 DEF TimerLoop, TimerFires, TimerWakes, Escalates, RootFieldsOK, TimerOK,
                  ImmediateSteps
    <2> QED
      BY <1>1, <2>1, <2>2, CallsFrame, ChildrenFrame, ExecFrame, EnvFrame
         DEF TimerLoop, TimerFires, TimerWakes
  <1>2. CASE TimerImmediate
    <2>1. TimerOK'
      BY <1>2 DEF TimerImmediate, After, TimerOK, ImmediateSteps
    <2> QED
      BY <1>2, <2>1, TriggerType, RootFrame, CallsFrame, ChildrenFrame, ExecFrame,
         EnvFrame DEF TimerImmediate, Contexts
  <1>3. ASSUME NEW c \in Children, SpreadWaits(c) \/ UrgeWaits(c) PROVE TypeOK'
    <2>1. ChildrenOK'
      BY <1>3 DEF SpreadWaits, UrgeWaits, NextWait, ChildrenOK, Waiting
    <2> QED
      BY <1>3, <2>1, FieldsFrame, RootFrame, CallsFrame, TimerFrame, ExecFrame,
         EnvFrame DEF SpreadWaits, UrgeWaits
  <1>4. ASSUME NEW c \in Children, SpreadAdopts(c) \/ UrgeAdopts(c) PROVE TypeOK'
    <2>1. FieldsOK'
      BY <1>4 DEF SpreadAdopts, UrgeAdopts, FieldsOK
    <2>2. mode[Parent[c]] \in Modes
      BY ContextsAssumption DEF FieldsOK
    <2>3. ChildrenOK'
      BY <1>4, <2>2 DEF SpreadAdopts, UrgeAdopts, ChildrenOK, ImmediateSteps
    <2> QED
      BY <1>4, <2>1, <2>3, RootFrame, CallsFrame, TimerFrame, ExecFrame, EnvFrame
         DEF SpreadAdopts, UrgeAdopts
  <1>5. ASSUME NEW c \in Children, SpreadTriggers(c) PROVE TypeOK'
    <2>1. FieldsOK' /\ ChildrenOK'
      BY <1>5 DEF SpreadTriggers, triggerCancel, FieldsOK, ChildrenOK
    <2> QED
      BY <1>5, <2>1, RootFrame, CallsFrame, TimerFrame, ExecFrame, EnvFrame
         DEF SpreadTriggers
  <1>6. ASSUME NEW c \in Children, UrgeTriggers(c) PROVE TypeOK'
    <2>1. ChildrenOK'
      BY <1>6 DEF UrgeTriggers, After, ChildrenOK, ImmediateSteps
    <2> QED
      BY <1>6, <2>1, TriggerType, RootFrame, CallsFrame, TimerFrame, ExecFrame,
         EnvFrame DEF UrgeTriggers, Contexts
  <1>7. ASSUME NEW c \in Children, ChildEnds(c) PROVE TypeOK'
    <2>1. FieldsOK'
      BY <1>7 DEF ChildEnds, markDone, FieldsOK
    <2> QED
      BY <1>7, <2>1, RootFrame, CallsFrame, TimerFrame, ChildrenFrame, ExecFrame,
         EnvFrame DEF ChildEnds
  <1> QED
    BY <1>1, <1>2, <1>3, <1>4, <1>5, <1>6, <1>7 DEF TimerStep, ChildStep

\* Steps of the execution and of the environment.
LEMMA ExecType ==
    ASSUME TypeOK, EndInv,
           ExecStep \/ SubAgentEnds \/ AgentInterrupts \/ CtxEnds \/ Tick
    PROVE  TypeOK'
  <1> USE DEF TypeOK
  <1>1. CASE NextSubAgent
    <2>1. ExecOK'
      BY <1>1, ContextsAssumption DEF NextSubAgent, ExecOK, EndInv
    <2> QED
      BY <1>1, <2>1, FieldsFrame, RootFrame, CallsFrame, TimerFrame, ChildrenFrame,
         EnvFrame DEF NextSubAgent
  <1>2. CASE ReportMode
    <2>1. ExecOK' /\ RootFieldsOK'
      BY <1>2 DEF ReportMode, ExecOK, FieldsOK, RootFieldsOK, rootFields, Contexts
    <2> QED
      BY <1>2, <2>1, FieldsFrame, CallsFrame, TimerFrame, ChildrenFrame, EnvFrame
         DEF ReportMode
  <1>3. CASE ReportError
    <2>1. escalated[Root] \in BOOLEAN /\ (escalated[Root] /\ timeoutEscalated) \in BOOLEAN
      BY DEF FieldsOK, RootFieldsOK, Contexts
    <2>2. err' \in [mode : Modes, escalated : BOOLEAN, timeout : BOOLEAN, none : BOOLEAN]
      BY <1>3, <2>1 DEF ReportError, createAndMarkHandled, ExecOK
    <2>3. FieldsOK' /\ RootFieldsOK' /\ ExecOK'
      BY <1>3, <2>2 DEF ReportError, createAndMarkHandled, FieldsOK, RootFieldsOK,
                        rootFields, ExecOK
    <2> QED
      BY <1>3, <2>3, CallsFrame, TimerFrame, ChildrenFrame, EnvFrame DEF ReportError
  <1>4. CASE SubAgentEnds \/ AgentInterrupts
    <2>1. FieldsOK' /\ ExecOK'
      BY <1>4 DEF SubAgentEnds, AgentInterrupts, markDone, FieldsOK, ExecOK
    <2> QED
      BY <1>4, <2>1, RootFrame, CallsFrame, TimerFrame, ChildrenFrame, EnvFrame
         DEF SubAgentEnds, AgentInterrupts
  <1>5. CASE CtxEnds \/ Tick
    <2>1. EnvOK'
      <3>1. CASE CtxEnds
        BY <3>1 DEF CtxEnds, EnvOK
      <3>2. CASE Tick
        BY <3>2 DEF Tick, EnvOK
      <3> QED
        BY <1>5, <3>1, <3>2
    <2> QED
      BY <1>5, <2>1, FieldsFrame, RootFrame, CallsFrame, TimerFrame, ChildrenFrame,
         ExecFrame DEF CtxEnds, Tick
  <1> QED
    BY <1>1, <1>2, <1>3, <1>4, <1>5 DEF ExecStep

LEMMA TypeNext ==
    ASSUME TypeOK, EndInv, [Next]_vars
    PROVE  TypeOK'
  <1>1. CASE UNCHANGED vars
    BY <1>1, FieldsFrame, RootFrame, CallsFrame, TimerFrame, ChildrenFrame, ExecFrame,
       EnvFrame DEF TypeOK, vars
  <1> QED
    BY <1>1, CallType, GoroutineType, ExecType DEF Next

-----------------------------------------------------------------------------
\* Frames.

\* The goroutines and the agent of a derived context change its fields only.
LEMMA ChildFrame ==
    ASSUME TypeOK, NEW c \in Children, ChildStep(c) \/ ChildEnds(c)
    PROVE  /\ \A x \in Contexts \ {c} :
                /\ state'[x] = state[x] /\ mode'[x] = mode[x]
                /\ cancelled'[x] = cancelled[x] /\ immediate'[x] = immediate[x]
                /\ recursive'[x] = recursive[x]
           /\ \A d \in Children \ {c} :
                spread'[d] = spread[d] /\ urge'[d] = urge[d]
           /\ UNCHANGED <<rootFields, cancelMu, callVars, timerVars, execVars, envVars>>
  <1> USE DEF TypeOK, FieldsOK, ChildrenOK, Contexts, fields, childVars
  <1>1. CASE SpreadWaits(c) \/ SpreadAdopts(c) \/ UrgeWaits(c) \/ UrgeAdopts(c)
    BY <1>1 DEF SpreadWaits, SpreadAdopts, UrgeWaits, UrgeAdopts
  <1>2. CASE SpreadTriggers(c)
    BY <1>2 DEF SpreadTriggers, triggerCancel
  <1>3. CASE UrgeTriggers(c)
    BY <1>3 DEF UrgeTriggers, triggerImmediate
  <1>4. CASE ChildEnds(c)
    BY <1>4 DEF ChildEnds, markDone
  <1> QED
    BY <1>1, <1>2, <1>3, <1>4 DEF ChildStep

\* Every other step leaves the derived contexts alone, and opens no channel of
\* the root again.
OtherStep ==
    \/ \E k \in Callers : CallCheck(k) \/ CallStep(k)
    \/ TimerStep \/ ExecStep \/ SubAgentEnds \/ AgentInterrupts \/ CtxEnds \/ Tick
ChildrenAlone ==
    /\ \A c \in Children :
         /\ state'[c] = state[c] /\ cancelled'[c] = cancelled[c]
         /\ immediate'[c] = immediate[c] /\ recursive'[c] = recursive[c]
    /\ UNCHANGED childVars
    /\ cancelled[Root] => cancelled'[Root]
    /\ immediate[Root] => immediate'[Root]
    /\ recursive[Root] => recursive'[Root]
    /\ ctxDone => ctxDone'
LEMMA OtherFrame ==
    ASSUME TypeOK, OtherStep
    PROVE  ChildrenAlone
  <1> USE ContextsAssumption
      DEF ChildrenAlone, TypeOK, FieldsOK, Contexts, fields, envVars
  <1>1. ASSUME NEW k \in Callers, CallCheck(k) \/ CallLock(k) \/ CallDecide(k) \/ CallWait(k)
        PROVE  ChildrenAlone
    BY <1>1 DEF CallCheck, CallLock, CallDecide, CallWait
  <1>2. ASSUME NEW k \in Callers, CallSwap(k) \/ CallFirst(k) \/ CallJoin(k)
        PROVE  ChildrenAlone
    BY <1>2 DEF CallSwap, CallFirst, CallJoin
  <1>3. ASSUME NEW k \in Callers, CallImmediate(k)
        PROVE  ChildrenAlone
    BY <1>3 DEF CallImmediate, triggerImmediate
  <1>4. CASE TimerLoop \/ TimerFires \/ TimerWakes
    BY <1>4 DEF TimerLoop, TimerFires, TimerWakes, Escalates
  <1>5. CASE TimerImmediate
    BY <1>5 DEF TimerImmediate, triggerImmediate
  <1>6. CASE NextSubAgent \/ ReportMode \/ ReportError
    BY <1>6 DEF NextSubAgent, ReportMode, ReportError, createAndMarkHandled
  <1>7. CASE SubAgentEnds \/ AgentInterrupts
    BY <1>7 DEF SubAgentEnds, AgentInterrupts, markDone
  <1>8. CASE CtxEnds \/ Tick
    BY <1>8 DEF CtxEnds, Tick
  <1> QED
    BY <1>1, <1>2, <1>3, <1>4, <1>5, <1>6, <1>7, <1>8
       DEF OtherStep, CallStep, TimerStep, ExecStep

\* A call changes its own variables only.
LEMMA CallFrame ==
    ASSUME TypeOK, NEW k \in Callers, CallCheck(k) \/ CallStep(k)
    PROVE  /\ \A j \in Callers \ {k} :
                /\ callPC'[j] = callPC[j] /\ opt'[j] = opt[j]
                /\ seen'[j] = seen[j] /\ contributed'[j] = contributed[j]
           /\ UNCHANGED execVars
  <1> USE DEF TypeOK, CallsOK
  <1>1. CASE CallCheck(k)
    BY <1>1 DEF CallCheck, Refuse
  <1>2. CASE CallLock(k) \/ CallSwap(k)
    BY <1>2 DEF CallLock, CallSwap, Refuse
  <1>3. CASE CallFirst(k) \/ CallJoin(k) \/ CallDecide(k) \/ CallImmediate(k) \/ CallWait(k)
    BY <1>3 DEF CallFirst, CallJoin, CallDecide, CallImmediate, CallWait
  <1> QED
    BY <1>1, <1>2, <1>3 DEF CallStep

-----------------------------------------------------------------------------
\* Steps that do not touch the root's fields, its callers or its execution.
RootPart == MutexInv /\ StartInv /\ EndInv /\ ModeInv /\ ErrorCoversRequests /\ RootInv
LEMMA RootAlone ==
    ASSUME RootPart,
           state'[Root] = state[Root], mode'[Root] = mode[Root],
           cancelled'[Root] = cancelled[Root], immediate'[Root] = immediate[Root],
           UNCHANGED <<cancelMu, callVars, timerVars, execVars>>
    PROVE  RootPart'
  BY DEF RootPart, MutexInv, InMutex, StartInv, EndInv, ModeInv, CoversAll,
         ErrorCoversRequests, RootInv, callVars, timerVars, execVars

\* cancelMu is held by at most one call, or by the execution.
LEMMA MutexNext ==
    ASSUME TypeOK, MutexInv, OtherStep
    PROVE  MutexInv'
  <1> USE DEF TypeOK, CallsOK
  <1>1. ASSUME NEW k \in Callers, CallCheck(k) \/ CallStep(k)
        PROVE  MutexInv'
    <2>1. \A j \in Callers \ {k} : InMutex(j)' <=> InMutex(j)
      BY <1>1, CallFrame DEF InMutex
    <2>2. UNCHANGED exec
      BY <1>1, CallFrame DEF execVars
    <2>3. CASE CallCheck(k)
      <3>1. UNCHANGED cancelMu /\ ~InMutex(k)'
        BY <2>3 DEF CallCheck, Refuse, InMutex, ImmediateSteps
      <3> QED
        BY <2>1, <2>2, <3>1 DEF MutexInv
    <2>4. CASE CallLock(k)
      <3>1. cancelMu = "free"
        BY <2>4 DEF CallLock
      <3>2. \A j \in Callers : ~InMutex(j)
        BY <3>1, ContextsAssumption DEF MutexInv
      <3>3. \/ ~InMutex(k)'
            \/ cancelMu' = k
        BY <2>4 DEF CallLock, Refuse, InMutex, ImmediateSteps
      <3>4. exec # "flags"
        BY <3>1 DEF MutexInv
      <3> QED
        BY <2>1, <2>2, <3>2, <3>3, <3>4 DEF MutexInv
    <2>5. CASE CallSwap(k) \/ CallFirst(k) \/ CallJoin(k) \/ CallDecide(k)
      <3>1. InMutex(k)
        BY <2>5 DEF CallSwap, CallFirst, CallJoin, CallDecide, InMutex
      <3>2. cancelMu = k /\ exec # "flags" /\ \A j \in Callers \ {k} : ~InMutex(j)
        BY <3>1, ContextsAssumption DEF MutexInv
      <3>3. InMutex(k)' => cancelMu' = k
        <4>1. CASE CallSwap(k)
          BY <3>2, <4>1 DEF CallSwap, Refuse, Accepted, InMutex, ImmediateSteps
        <4>2. CASE CallFirst(k) \/ CallJoin(k)
          BY <3>2, <4>2 DEF CallFirst, CallJoin
        <4>3. CASE CallDecide(k)
          BY <4>3 DEF CallDecide, Accepted, InMutex, ImmediateSteps
        <4> QED
          BY <2>5, <4>1, <4>2, <4>3
      <3> QED
        BY <2>1, <2>2, <3>2, <3>3 DEF MutexInv
    <2>6. CASE CallImmediate(k)
      <3>1. InMutex(k)' => cancelMu' = cancelMu /\ InMutex(k)
        BY <2>6 DEF CallImmediate, After, Accepted, InMutex, ImmediateSteps
      <3>2. InMutex(k) \/ cancelMu' = cancelMu
        BY <2>6 DEF CallImmediate, InMutex, ImmediateSteps
      <3> QED
        BY <2>1, <2>2, <3>1, <3>2, ContextsAssumption DEF MutexInv
    <2>7. CASE CallWait(k)
      BY <2>1, <2>2, <2>7 DEF CallWait, InMutex, MutexInv, ImmediateSteps
    <2> QED
      BY <1>1, <2>3, <2>4, <2>5, <2>6, <2>7 DEF CallStep
  <1>2. CASE TimerStep
    BY <1>2 DEF TimerStep, TimerLoop, TimerFires, TimerWakes, TimerImmediate,
                MutexInv, InMutex, callVars, execVars
  <1>3. CASE ReportMode
    <2>1. \A k \in Callers : ~InMutex(k)
      BY <1>3, ContextsAssumption DEF ReportMode, MutexInv
    <2> QED
      BY <1>3, <2>1 DEF ReportMode, MutexInv, InMutex, callVars
  <1>4. CASE ReportError
    <2>1. \A k \in Callers : ~InMutex(k)
      BY <1>4, ContextsAssumption DEF ReportError, MutexInv
    <2> QED
      BY <1>4, <2>1 DEF ReportError, MutexInv, InMutex, callVars
  <1>5. CASE NextSubAgent \/ SubAgentEnds \/ AgentInterrupts \/ CtxEnds \/ Tick
    BY <1>5 DEF NextSubAgent, SubAgentEnds, AgentInterrupts, CtxEnds, Tick,
                MutexInv, InMutex, callVars, execVars
  <1> QED
    BY <1>1, <1>2, <1>3, <1>4, <1>5 DEF OtherStep, ExecStep

\* triggerImmediate on the root finds it cancelled.
LEMMA TriggerRoot ==
    ASSUME TypeOK, NEW l, triggerImmediate(Root, l), state[Root] # "running"
    PROVE  /\ state'[Root] = state[Root] /\ cancelled'[Root] = cancelled[Root]
           /\ mode'[Root] \in {mode[Root], CancelImmediate}
           /\ immediate[Root] => immediate'[Root]
           /\ recursive' = recursive
  BY DEF TypeOK, FieldsOK, Contexts, triggerImmediate

\* Requests that are covered stay covered when the modes are joined.
LEMMA JoinCovers ==
    ASSUME NEW m \in Modes, NEW n \in Modes, NEW r
    PROVE  /\ Covers(m, r) => Covers(join(m, n), r)
           /\ Covers(join(m, n), n)
           /\ Covers(n, n)
           /\ Covers(CancelImmediate, r)
  BY DEF Covers, join, Modes, SafePoints, CancelImmediate

\* The step of a call keeps the invariant of the root, action by action.
LEMMA CheckRoot ==
    ASSUME TypeOK, RootPart, NEW k \in Callers, CallCheck(k)
    PROVE  RootPart'
  <1> USE DEF RootPart
  <1>1. MutexInv'
    BY MutexNext DEF OtherStep
  <1>2. /\ callPC[k] = "ready" /\ callPC'[k] \in {"lock", "returned"}
        /\ UNCHANGED <<state, mode, cancelled, immediate, timer, contributed, seen, execVars>>
    BY DEF CallCheck, Refuse, TypeOK, CallsOK, fields, timerVars
  <1>3. \A j \in Callers \ {k} : callPC'[j] = callPC[j] /\ opt'[j] = opt[j]
    BY CallFrame
  <1>4. ~contributed[k]
    BY <1>2 DEF StartInv
  <1>5. StartInv' /\ EndInv'
    BY <1>2, <1>3, <1>4 DEF StartInv, EndInv, execVars
  <1>6. \A m : CoversAll(m) => CoversAll(m)'
    BY <1>2, <1>3, <1>4 DEF CoversAll
  <1>7. ModeInv' 
    BY <1>2, <1>3, <1>4, <1>6 DEF ModeInv, execVars
  <1>8. ErrorCoversRequests'
    BY <1>2, <1>3, <1>4 DEF ErrorCoversRequests, execVars
  <1>9. RootInv'
    BY <1>2, <1>3 DEF RootInv, ImmediateSteps
  <1> QED
    BY <1>1, <1>5, <1>7, <1>8, <1>9

LEMMA LockRoot ==
    ASSUME TypeOK, RootPart, NEW k \in Callers, CallLock(k)
    PROVE  RootPart'
  <1> USE DEF RootPart
  <1>1. MutexInv'
    BY MutexNext DEF OtherStep, CallStep
  <1>2. /\ callPC[k] = "lock" /\ callPC'[k] \in {"returned", "swap", "read"}
        /\ callPC'[k] = "swap" => state[Root] = "running"
        /\ callPC'[k] = "read" => state[Root] = "cancelling"
        /\ UNCHANGED <<state, mode, cancelled, immediate, timer, contributed, opt, seen, execVars>>
    BY DEF CallLock, Refuse, IsDone, TypeOK, FieldsOK, Contexts, CallsOK, fields, timerVars
  <1>3. \A j \in Callers \ {k} : callPC'[j] = callPC[j]
    BY CallFrame DEF CallStep
  <1>4. ~contributed[k]
    BY <1>2 DEF StartInv
  <1>5. \A j \in Callers : callPC[j] \notin {"first", "close"}
    BY ContextsAssumption DEF CallLock, MutexInv, InMutex
  <1>6. StartInv' /\ EndInv'
    BY <1>2, <1>3, <1>4 DEF StartInv, EndInv, execVars
  <1>7. \A m : CoversAll(m) => CoversAll(m)'
    BY <1>2 DEF CoversAll
  <1>8. ModeInv' /\ ErrorCoversRequests'
    BY <1>2, <1>3, <1>4, <1>7 DEF ModeInv, ErrorCoversRequests, execVars
  <1>9. RootInv'
    BY <1>2, <1>3, <1>5 DEF RootInv, ImmediateSteps
  <1> QED
    BY <1>1, <1>6, <1>8, <1>9

LEMMA SwapRoot ==
    ASSUME TypeOK, RootPart, NEW k \in Callers, CallSwap(k)
    PROVE  RootPart'
  <1> USE DEF RootPart
  <1>1. MutexInv'
    BY MutexNext DEF OtherStep, CallStep
  <1>2. /\ callPC[k] = "swap" /\ state[Root] \in {"running", "done"}
        /\ UNCHANGED <<mode, cancelled, immediate, timer, opt, seen, execVars>>
    BY DEF CallSwap, StartInv, timerVars
  <1>3. \A j \in Callers \ {k} : callPC'[j] = callPC[j] /\ contributed'[j] = contributed[j]
    BY CallFrame DEF CallStep
  <1>4. ~contributed[k] /\ exec # "flags"
    BY <1>2, ContextsAssumption DEF StartInv, MutexInv, InMutex
  <1>5. CASE state[Root] = "running"
    <2>1. /\ state'[Root] = "cancelling" /\ callPC'[k] = "first" /\ contributed'[k]
      BY <1>5 DEF CallSwap, TypeOK, FieldsOK, Contexts, CallsOK
    <2>2. \A j \in Callers \ {k} : ~contributed[j] /\ callPC[j] \notin {"first", "write", "swap"}
      BY <1>2, <1>5, ContextsAssumption DEF StartInv, MutexInv, InMutex
    <2>3. StartInv' /\ EndInv'
      BY <1>2, <1>3, <1>5, <2>1, <2>2 DEF StartInv, EndInv, execVars
    <2>4. ModeInv' /\ ErrorCoversRequests'
      BY <1>2, <1>3, <1>4, <1>5, <2>1, <2>2 DEF ModeInv, ErrorCoversRequests, EndInv, execVars
    <2>5. RootInv'
      BY <1>2, <1>3, <2>1 DEF RootInv, ImmediateSteps
    <2> QED
      BY <1>1, <2>3, <2>4, <2>5
  <1>6. CASE state[Root] = "done"
    <2>1. callPC'[k] = "returned" /\ UNCHANGED <<state, contributed>>
      BY <1>6 DEF CallSwap, Refuse, TypeOK, CallsOK
    <2>2. StartInv' /\ EndInv'
      BY <1>2, <1>3, <1>6, <2>1 DEF StartInv, EndInv, execVars
    <2>3. \A m : CoversAll(m) => CoversAll(m)'
      BY <1>2, <2>1 DEF CoversAll
    <2>4. ModeInv' /\ ErrorCoversRequests'
      BY <1>2, <1>3, <2>1, <2>3 DEF ModeInv, ErrorCoversRequests, execVars
    <2>5. RootInv'
      BY <1>2, <1>3, <1>6, <2>1 DEF RootInv, ImmediateSteps
    <2> QED
      BY <1>1, <2>2, <2>4, <2>5
  <1> QED
    BY <1>2, <1>5, <1>6

LEMMA FirstRoot ==
    ASSUME TypeOK, RootPart, NEW k \in Callers, CallFirst(k)
    PROVE  RootPart'
  <1> USE DEF RootPart
  <1>1. MutexInv'
    BY MutexNext DEF OtherStep, CallStep
  <1>2. UNCHANGED <<state, immediate, timer, contributed, opt, seen, execVars>>
    BY DEF CallFirst, timerVars
  <1>3. \A j \in Callers \ {k} : callPC'[j] = callPC[j]
    BY CallFrame DEF CallStep
  <1>4. \A m : CoversAll(m) => CoversAll(m)'
    BY <1>2 DEF CoversAll
  <1>5. CASE callPC[k] = "first"
    <2>1. callPC'[k] = "close" /\ mode'[Root] = opt[k].mode /\ UNCHANGED cancelled
      BY <1>5 DEF CallFirst, TypeOK, FieldsOK, Contexts, CallsOK
    <2>2. CoversAll(mode[Root])'
      <3>1. \A j \in Callers \ {k} : ~contributed[j]
        BY <1>5 DEF ModeInv
      <3>2. opt[k].mode \in Modes
        BY DEF TypeOK, CallsOK, Options, Modes
      <3>3. Covers(opt[k].mode, opt[k].mode)
        BY <3>2, JoinCovers
      <3> QED
        BY <1>2, <2>1, <3>1, <3>3 DEF CoversAll
    <2>3. StartInv' /\ EndInv'
      BY <1>2, <1>3, <1>5, <2>1 DEF StartInv, EndInv, execVars
    <2>4. ModeInv' /\ ErrorCoversRequests'
      BY <1>2, <1>3, <1>4, <2>1, <2>2 DEF ModeInv, ErrorCoversRequests, execVars
    <2>5. RootInv'
      BY <1>2, <1>3, <2>1 DEF RootInv, ImmediateSteps
    <2> QED
      BY <1>1, <2>3, <2>4, <2>5
  <1>6. CASE callPC[k] = "close"
    <2>1. callPC'[k] = "decide" /\ cancelled'[Root] /\ UNCHANGED mode
      BY <1>6 DEF CallFirst, TypeOK, FieldsOK, Contexts, CallsOK
    <2>2. StartInv' /\ EndInv'
      BY <1>2, <1>3, <1>6, <2>1 DEF StartInv, EndInv, execVars
    <2>3. ModeInv' /\ ErrorCoversRequests'
      BY <1>2, <1>3, <1>4, <1>6, <2>1 DEF ModeInv, ErrorCoversRequests, execVars
    <2>4. RootInv'
      BY <1>2, <1>3, <2>1 DEF RootInv, ImmediateSteps
    <2> QED
      BY <1>1, <2>2, <2>3, <2>4
  <1> QED
    BY <1>5, <1>6 DEF CallFirst

LEMMA JoinRoot ==
    ASSUME TypeOK, RootPart, NEW k \in Callers, CallJoin(k)
    PROVE  RootPart'
  <1> USE DEF RootPart
  <1>1. MutexInv'
    BY MutexNext DEF OtherStep, CallStep
  <1>2. /\ callPC[k] \in {"read", "write"}
        /\ UNCHANGED <<state, cancelled, immediate, timer, opt, execVars>>
    BY DEF CallJoin, timerVars
  <1>3. \A j \in Callers \ {k} : /\ callPC'[j] = callPC[j]
                                 /\ contributed'[j] = contributed[j]
                                 /\ seen'[j] = seen[j]
    BY CallFrame DEF CallStep
  <1>4. /\ \A j \in Callers \ {k} : callPC[j] \notin {"first", "write"}
        /\ exec # "flags"
    BY <1>2, ContextsAssumption DEF MutexInv, InMutex
  <1>5. CASE callPC[k] = "read"
    <2>1. callPC'[k] = "write" /\ seen'[k] = mode[Root] /\ UNCHANGED <<mode, contributed>>
      BY <1>5 DEF CallJoin, TypeOK, CallsOK
    <2>2. \A m : CoversAll(m) => CoversAll(m)'
      BY <1>2, <2>1 DEF CoversAll
    <2>3. StartInv' /\ EndInv'
      BY <1>2, <1>3, <1>5, <2>1 DEF StartInv, EndInv, execVars
    <2>4. ModeInv' /\ ErrorCoversRequests'
      BY <1>2, <1>3, <1>4, <1>5, <2>1, <2>2 DEF ModeInv, ErrorCoversRequests, execVars
    <2>5. RootInv'
      BY <1>2, <1>3, <1>5, <2>1 DEF RootInv, ImmediateSteps
    <2> QED
      BY <1>1, <2>3, <2>4, <2>5
  <1>6. CASE callPC[k] = "write"
    <2>1. /\ callPC'[k] = "decide" /\ contributed'[k]
          /\ mode'[Root] = join(seen[k], opt[k].mode)
      BY <1>6 DEF CallJoin, TypeOK, FieldsOK, Contexts, CallsOK
    <2>2. CoversAll(mode[Root])'
      <3>1. seen[k] \in Modes /\ opt[k].mode \in Modes
        BY DEF TypeOK, CallsOK, Options, Modes
      <3>2. \A j \in Callers : contributed[j] => Covers(seen[k], opt[j].mode)
        BY <1>6 DEF ModeInv, CoversAll
      <3>3. \A j \in Callers : contributed'[j] => Covers(mode'[Root], opt[j].mode)
        BY <1>3, <2>1, <3>1, <3>2, JoinCovers
      <3> QED
        BY <1>2, <3>3 DEF CoversAll
    <2>3. state[Root] # "running" /\ err.none
      BY <1>6 DEF StartInv, EndInv
    <2>4. StartInv' /\ EndInv'
      BY <1>2, <1>3, <1>6, <2>1, <2>3 DEF StartInv, EndInv, execVars
    <2>5. ModeInv' /\ ErrorCoversRequests'
      BY <1>2, <1>3, <1>4, <2>1, <2>2, <2>3 DEF ModeInv, ErrorCoversRequests, execVars
    <2>6. RootInv'
      BY <1>2, <1>3, <1>6, <2>1 DEF RootInv, ImmediateSteps
    <2> QED
      BY <1>1, <2>4, <2>5, <2>6
  <1> QED
    BY <1>2, <1>5, <1>6

LEMMA DecideRoot ==
    ASSUME TypeOK, RootPart, NEW k \in Callers, CallDecide(k) \/ CallWait(k)
    PROVE  RootPart'
  <1> USE DEF RootPart
  <1>1. MutexInv'
    BY MutexNext DEF OtherStep, CallStep
  <1>2. /\ callPC[k] \in {"decide", "wait"}
        /\ callPC'[k] \in {"escalate", "wait", "returned"}
        /\ callPC'[k] = "escalate" => callPC[k] = "decide"
        /\ timer' = timer \/ callPC[k] = "decide"
        /\ UNCHANGED <<state, mode, cancelled, immediate, contributed, opt, seen, execVars>>
    BY DEF CallDecide, CallWait, SetDeadline, Accepted, TypeOK, CallsOK, fields, timerVars
  <1>3. \A j \in Callers \ {k} : callPC'[j] = callPC[j]
    BY CallFrame DEF CallStep
  <1>4. state[Root] # "running"
    BY <1>2 DEF StartInv
  <1>5. StartInv' /\ EndInv'
    BY <1>2, <1>3, <1>4 DEF StartInv, EndInv, execVars
  <1>6. \A m : CoversAll(m) => CoversAll(m)'
    BY <1>2 DEF CoversAll
  <1>7. ModeInv' /\ ErrorCoversRequests'
    BY <1>2, <1>3, <1>6 DEF ModeInv, ErrorCoversRequests, execVars
  <1>8. RootInv'
    BY <1>2, <1>3 DEF RootInv, ImmediateSteps
  <1> QED
    BY <1>1, <1>5, <1>7, <1>8

LEMMA ImmediateRoot ==
    ASSUME TypeOK, RootPart, NEW k \in Callers, CallImmediate(k)
    PROVE  RootPart'
  <1> USE DEF RootPart
  <1>1. MutexInv'
    BY MutexNext DEF OtherStep, CallStep
  <1>2. /\ callPC[k] \in ImmediateSteps
        /\ callPC'[k] \in {"cancel", "interrupt", "wait", "returned"}
        /\ UNCHANGED <<timer, contributed, opt, seen, execVars>>
    BY DEF CallImmediate, After, Accepted, ImmediateSteps, TypeOK, CallsOK, timerVars
  <1>3. \A j \in Callers \ {k} : callPC'[j] = callPC[j]
    BY CallFrame DEF CallStep
  <1>4. state[Root] # "running" /\ cancelled[Root]
    BY <1>2 DEF StartInv, RootInv, ImmediateSteps
  <1>5. /\ state'[Root] = state[Root] /\ cancelled'[Root] = cancelled[Root]
        /\ mode'[Root] \in {mode[Root], CancelImmediate}
    BY <1>4, TriggerRoot DEF CallImmediate
  <1>6. StartInv' /\ EndInv'
    BY <1>2, <1>3, <1>4, <1>5 DEF StartInv, EndInv, execVars, ImmediateSteps
  <1>7. \A m : CoversAll(m) => CoversAll(m)'
    BY <1>2 DEF CoversAll
  <1>8. CoversAll(CancelImmediate)'
    BY DEF CoversAll, Covers
  <1>9. ModeInv' /\ ErrorCoversRequests'
    BY <1>2, <1>3, <1>5, <1>7, <1>8 DEF ModeInv, ErrorCoversRequests, execVars, ImmediateSteps
  <1>10. RootInv'
    BY <1>2, <1>3, <1>4, <1>5 DEF RootInv, ImmediateSteps
  <1> QED
    BY <1>1, <1>6, <1>9, <1>10

\* So does a step of the timeout goroutine.
LEMMA TimerRoot ==
    ASSUME TypeOK, RootPart, TimerStep
    PROVE  RootPart'
  <1> USE DEF RootPart
  <1>1. MutexInv'
    BY MutexNext DEF OtherStep
  <1>2. timer # "none" /\ UNCHANGED <<callVars, execVars>>
    BY DEF TimerStep, TimerLoop, TimerFires, TimerWakes, TimerImmediate, ImmediateSteps
  <1>3. state[Root] # "running" /\ cancelled[Root]
    BY <1>2 DEF StartInv, RootInv
  <1>4. /\ state'[Root] = state[Root] /\ cancelled'[Root] = cancelled[Root]
        /\ mode'[Root] \in {mode[Root], CancelImmediate}
    <2>1. CASE TimerLoop \/ TimerFires \/ TimerWakes
      BY <2>1 DEF TimerLoop, TimerFires, TimerWakes, fields
    <2>2. CASE TimerImmediate
      BY <1>3, <2>2, TriggerRoot DEF TimerImmediate
    <2> QED
      BY <2>1, <2>2 DEF TimerStep
  <1>5. StartInv' /\ EndInv'
    BY <1>2, <1>3, <1>4 DEF StartInv, EndInv, callVars, execVars
  <1>6. \A m : CoversAll(m) => CoversAll(m)'
    BY <1>2 DEF CoversAll, callVars
  <1>7. CoversAll(CancelImmediate)'
    BY DEF CoversAll, Covers
  <1>8. ModeInv' /\ ErrorCoversRequests'
    BY <1>2, <1>4, <1>6, <1>7 DEF ModeInv, ErrorCoversRequests, callVars, execVars
  <1>9. RootInv'
    BY <1>2, <1>3, <1>4 DEF RootInv, callVars
  <1> QED
    BY <1>1, <1>5, <1>8, <1>9

\* So does a step of the execution or of its environment.
LEMMA ExecRoot ==
    ASSUME TypeOK, RootPart,
           ExecStep \/ SubAgentEnds \/ AgentInterrupts \/ CtxEnds \/ Tick
    PROVE  RootPart'
  <1> USE DEF RootPart
  <1>1. MutexInv'
    BY MutexNext DEF OtherStep
  <1>2. UNCHANGED <<mode, cancelled, immediate, timer, callVars>>
    BY DEF ExecStep, NextSubAgent, ReportMode, ReportError, SubAgentEnds, AgentInterrupts,
           CtxEnds, Tick, fields, timerVars
  <1>3. \A m : CoversAll(m) => CoversAll(m)'
    BY <1>2 DEF CoversAll, callVars
  <1>4. CASE NextSubAgent \/ CtxEnds \/ Tick
    <2>1. UNCHANGED <<state, err, errMode>> /\ (exec' = "flags" => exec = "flags")
      BY <1>4 DEF NextSubAgent, CtxEnds, Tick, fields, execVars
    <2>2. exec' = "next" => sub' < SubAgents
      BY <1>4 DEF NextSubAgent, CtxEnds, Tick, execVars, EndInv
    <2>3. StartInv' /\ EndInv' /\ RootInv'
      BY <1>2, <2>1, <2>2 DEF StartInv, EndInv, RootInv, callVars
    <2>4. ModeInv' /\ ErrorCoversRequests'
      BY <1>2, <1>3, <2>1 DEF ModeInv, ErrorCoversRequests, callVars
    <2> QED
      BY <1>1, <2>3, <2>4
  <1>5. CASE SubAgentEnds \/ AgentInterrupts
    <2>1. UNCHANGED <<err, errMode>> /\ exec' # "flags" /\ (exec' = "next" => sub' < SubAgents)
      BY <1>5 DEF SubAgentEnds, AgentInterrupts
    <2>2. \/ state'[Root] = state[Root]
          \/ state[Root] \in {"running", "cancelling"} /\ state'[Root] = "done"
      BY <1>5 DEF SubAgentEnds, AgentInterrupts, markDone, TypeOK, FieldsOK, Contexts
    <2>3. StartInv' /\ EndInv' /\ RootInv'
      BY <1>2, <2>1, <2>2 DEF StartInv, EndInv, RootInv, callVars
    <2>4. ModeInv' /\ ErrorCoversRequests'
      BY <1>2, <1>3, <2>1 DEF ModeInv, ErrorCoversRequests, callVars
    <2> QED
      BY <1>1, <2>3, <2>4
  <1>6. CASE ReportMode
    <2>1. UNCHANGED <<state, err>> /\ errMode' = mode[Root] /\ exec' = "flags"
      BY <1>6 DEF ReportMode, fields
    <2>2. \A k \in Callers : callPC[k] # "first"
      BY <1>6, ContextsAssumption DEF ReportMode, MutexInv, InMutex
    <2>3. StartInv' /\ EndInv' /\ RootInv'
      BY <1>2, <2>1 DEF StartInv, EndInv, RootInv, callVars
    <2>4. ModeInv' /\ ErrorCoversRequests'
      BY <1>2, <1>3, <2>1, <2>2 DEF ModeInv, ErrorCoversRequests, callVars
    <2> QED
      BY <1>1, <2>3, <2>4
  <1>7. CASE ReportError
    <2>1. exec = "flags" /\ exec' = "ended"
      BY <1>7 DEF ReportError
    <2>2. \A k \in Callers : callPC[k] \notin {"swap", "read", "write"}
      BY <2>1, ContextsAssumption DEF MutexInv, InMutex
    <2>3. \/ UNCHANGED <<state, err>>
          \/ /\ state[Root] = "cancelling" /\ state'[Root] = "handled"
             /\ ~err'.none /\ err'.mode = errMode
      BY <1>7 DEF ReportError, createAndMarkHandled, TypeOK, FieldsOK, Contexts
    <2>4. StartInv' /\ EndInv' /\ RootInv'
      BY <1>2, <2>1, <2>2, <2>3 DEF StartInv, EndInv, RootInv, callVars
    <2>5. ErrorCoversRequests'
      BY <1>2, <2>1, <2>3 DEF ErrorCoversRequests, ModeInv, CoversAll, callVars
    <2>6. ModeInv'
      BY <1>2, <1>3, <2>1 DEF ModeInv, callVars
    <2> QED
      BY <1>1, <2>4, <2>5, <2>6
  <1> QED
    BY <1>4, <1>5, <1>6, <1>7 DEF ExecStep

LEMMA RootNext ==
    ASSUME TypeOK, RootPart, OtherStep
    PROVE  RootPart'
  BY CheckRoot, LockRoot, SwapRoot, FirstRoot, JoinRoot, DecideRoot, ImmediateRoot,
     TimerRoot, ExecRoot DEF OtherStep, CallStep

-----------------------------------------------------------------------------
\* The derived contexts.

ChildrenPart == ChildrenInv /\ ShallowStays /\ RecursiveReaches

\* A step of the root's callers, goroutines and execution keeps what holds of
\* the derived contexts: it leaves them alone and opens no channel again.
LEMMA ChildrenOther ==
    ASSUME TypeOK, ChildrenPart, OtherStep
    PROVE  ChildrenPart'
  <1>1. ChildrenAlone
    BY OtherFrame
  <1>2. \A c \in Children : /\ Parent[c] = Root \/ Parent[c] \in Children
                            /\ Stops(c) => Stops(c)'
    BY <1>1, ContextsAssumption DEF ChildrenAlone, Contexts, Stops, IsDone
  <1>3. \A c \in Children : /\ cancelled[Parent[c]] => cancelled'[Parent[c]]
                            /\ immediate[Parent[c]] => immediate'[Parent[c]]
                            /\ recursive[Parent[c]] => recursive'[Parent[c]]
    BY <1>1, <1>2 DEF ChildrenAlone
  <1>4. ChildrenInv'
    BY <1>1, <1>3 DEF ChildrenPart, ChildrenInv, ChildInv, ChildrenAlone, childVars
  <1>5. ShallowStays'
    BY <1>1, <1>3 DEF ChildrenPart, ShallowStays, ChildrenAlone
  <1>6. RecursiveReaches'
    BY <1>1, <1>2 DEF ChildrenPart, RecursiveReaches, ChildrenAlone, childVars
  <1> QED
    BY <1>4, <1>5, <1>6 DEF ChildrenPart

\* No channel of any context is opened again, and no context starts again.
LEMMA ChildKeeps ==
    ASSUME TypeOK, NEW c \in Children, ChildStep(c) \/ ChildEnds(c)
    PROVE  /\ \A x \in Contexts : /\ cancelled[x] => cancelled'[x]
                                  /\ immediate[x] => immediate'[x]
                                  /\ recursive[x] => recursive'[x]
           /\ \A d \in Children : Stops(d) => Stops(d)'
  <1> USE DEF TypeOK, FieldsOK, Contexts, fields
  <1>1. /\ cancelled[c] => cancelled'[c]
        /\ immediate[c] => immediate'[c]
        /\ recursive[c] => recursive'[c]
        /\ IsDone(c) => IsDone(c)'
    <2>1. CASE SpreadWaits(c) \/ SpreadAdopts(c) \/ UrgeWaits(c) \/ UrgeAdopts(c)
      BY <2>1 DEF SpreadWaits, SpreadAdopts, UrgeWaits, UrgeAdopts, IsDone
    <2>2. CASE SpreadTriggers(c)
      BY <2>2 DEF SpreadTriggers, triggerCancel, IsDone
    <2>3. CASE UrgeTriggers(c)
      BY <2>3 DEF UrgeTriggers, triggerImmediate, IsDone
    <2>4. CASE ChildEnds(c)
      BY <2>4 DEF ChildEnds, markDone, IsDone
    <2> QED
      BY <2>1, <2>2, <2>3, <2>4 DEF ChildStep
  <1> QED
    BY <1>1, ChildFrame DEF Stops, IsDone, envVars

\* What the step of a goroutine does to its own context: it leaves the promises
\* about that context true.
LEMMA OwnStep ==
    ASSUME IInv, NEW c \in Children, ChildStep(c) \/ ChildEnds(c)
    PROVE  /\ ChildInv(c)'
           /\ cancelled'[c] => /\ recursive'[Parent[c]]
                               /\ cancelled'[Parent[c]] \/ immediate'[Parent[c]]
           /\ immediate'[c] => recursive'[Parent[c]] /\ immediate'[Parent[c]]
           /\ cancelled'[c] \/ immediate'[c] => recursive'[Root] /\ cancelled'[Root]
           /\ spread'[c] = "gone" => cancelled'[c] \/ Stops(c)'
           /\ urge'[c] = "gone" => (cancelled'[c] /\ immediate'[c]) \/ Stops(c)'
  <1> DEFINE P == Parent[c]
  <1>1. TypeOK /\ ChildInv(c) /\ (P \in Children => ChildInv(P)) /\ RootInv
    BY DEF IInv, ChildrenInv
  <1>2. P \in Contexts /\ Root \in Contexts /\ c \in Contexts
    BY ContextsAssumption DEF Contexts
  <1>3. /\ cancelled[P] \/ immediate[P] \/ recursive[P] => P = Root \/ P \in Children
        /\ recursive[P] /\ (cancelled[P] \/ immediate[P]) => cancelled[Root] /\ recursive[Root]
    BY <1>1, <1>2 DEF ChildInv, RootInv, Contexts
  <1>4. /\ cancelled[c] => recursive[P] /\ (cancelled[P] \/ immediate[P])
        /\ immediate[c] => recursive[P] /\ immediate[P]
        /\ spread[c] = "gone" => cancelled[c] \/ Stops(c)
        /\ urge[c] = "gone" => (cancelled[c] /\ immediate[c]) \/ Stops(c)
    BY DEF IInv, ShallowStays, RecursiveReaches
  <1>5. /\ cancelled[P] => cancelled'[P]
        /\ immediate[P] => immediate'[P]
        /\ recursive[P] => recursive'[P]
        /\ cancelled[Root] => cancelled'[Root]
        /\ recursive[Root] => recursive'[Root]
        /\ Stops(c) => Stops(c)'
    BY <1>1, <1>2, ChildKeeps
  <1> HIDE DEF P
  <1>6. CASE SpreadWaits(c)
    BY <1>1, <1>3, <1>4, <1>5, <1>6
       DEF P, SpreadWaits, NextWait, Waiting, ChildInv, TypeOK, ChildrenOK, fields, Stops
  <1>7. CASE UrgeWaits(c)
    BY <1>1, <1>3, <1>4, <1>5, <1>7
       DEF P, UrgeWaits, NextWait, Waiting, ChildInv, TypeOK, ChildrenOK, fields, Stops, ImmediateSteps
  <1>8. CASE SpreadAdopts(c)
    BY <1>1, <1>2, <1>3, <1>4, <1>5, <1>8
       DEF P, SpreadAdopts, ChildInv, TypeOK, FieldsOK, ChildrenOK
  <1>9. CASE UrgeAdopts(c)
    BY <1>1, <1>2, <1>3, <1>4, <1>5, <1>9
       DEF P, UrgeAdopts, ChildInv, TypeOK, FieldsOK, ChildrenOK, ImmediateSteps
  <1>10. CASE SpreadTriggers(c)
    BY <1>1, <1>2, <1>3, <1>4, <1>5, <1>10
       DEF P, SpreadTriggers, triggerCancel, ChildInv, TypeOK, FieldsOK, ChildrenOK, Stops, IsDone
  <1>11. CASE UrgeTriggers(c)
    BY <1>1, <1>2, <1>3, <1>4, <1>5, <1>11
       DEF P, UrgeTriggers, triggerImmediate, After, ImmediateSteps, ChildInv, TypeOK,
           FieldsOK, ChildrenOK, Stops, IsDone
  <1>12. CASE ChildEnds(c)
    BY <1>1, <1>2, <1>3, <1>4, <1>5, <1>12
       DEF P, ChildEnds, markDone, ChildInv, TypeOK, FieldsOK, childVars
  <1> QED
    BY <1>6, <1>7, <1>8, <1>9, <1>10, <1>11, <1>12 DEF ChildStep, P

\* The step of one derived context keeps the promises about all of them.
LEMMA ChildrenOwn ==
    ASSUME IInv, NEW c \in Children, ChildStep(c) \/ ChildEnds(c)
    PROVE  ChildrenPart'
  <1>1. TypeOK
    BY DEF IInv
  <1>2. ASSUME NEW d \in Children \ {c}
        PROVE  /\ ChildInv(d)'
               /\ cancelled'[d] => /\ recursive'[Parent[d]]
                                   /\ cancelled'[Parent[d]] \/ immediate'[Parent[d]]
               /\ immediate'[d] => recursive'[Parent[d]] /\ immediate'[Parent[d]]
               /\ cancelled'[d] \/ immediate'[d] => recursive'[Root] /\ cancelled'[Root]
               /\ spread'[d] = "gone" => cancelled'[d] \/ Stops(d)'
               /\ urge'[d] = "gone" => (cancelled'[d] /\ immediate'[d]) \/ Stops(d)'
    <2>1. /\ state'[d] = state[d] /\ cancelled'[d] = cancelled[d]
          /\ immediate'[d] = immediate[d] /\ recursive'[d] = recursive[d]
          /\ spread'[d] = spread[d] /\ urge'[d] = urge[d]
      BY <1>1, ChildFrame DEF Contexts
    <2>2. Parent[d] \in Contexts /\ Root \in Contexts
      BY ContextsAssumption DEF Contexts
    <2>3. /\ \A x \in {Parent[d], Root} : /\ cancelled[x] => cancelled'[x]
                                          /\ immediate[x] => immediate'[x]
                                          /\ recursive[x] => recursive'[x]
          /\ Stops(d) => Stops(d)'
      BY <1>1, <2>2, ChildKeeps
    <2> QED
      BY <2>1, <2>3 DEF IInv, ChildrenInv, ChildInv, ShallowStays, RecursiveReaches
  <1> QED
    BY <1>2, OwnStep DEF ChildrenPart, ChildrenInv, ShallowStays, RecursiveReaches

-----------------------------------------------------------------------------
\* The theorems.

LEMMA InitInv == ASSUME Init PROVE IInv
  <1>1. TypeOK
    BY TypeInit
  <1>2. MutexInv /\ StartInv /\ RootInv
    BY DEF Init, MutexInv, InMutex, StartInv, RootInv, Contexts, ImmediateSteps
  <1>3. EndInv /\ ModeInv /\ ErrorCoversRequests
    BY ContextsAssumption
       DEF Init, EndInv, ModeInv, CoversAll, ErrorCoversRequests, NoErr, Contexts
  <1>4. ChildrenInv /\ ShallowStays /\ RecursiveReaches
    BY ContextsAssumption
       DEF Init, ChildrenInv, ChildInv, ShallowStays, RecursiveReaches, Contexts, ImmediateSteps
  <1> QED
    BY <1>1, <1>2, <1>3, <1>4 DEF IInv

LEMMA NextInv == ASSUME IInv, [Next]_vars PROVE IInv'
  <1>1. TypeOK'
    BY TypeNext DEF IInv
  <1>2. CASE UNCHANGED vars
    <2>1. RootPart'
      BY <1>2, RootAlone DEF IInv, RootPart, vars, fields
    <2>2. ChildrenPart'
      BY <1>2 DEF IInv, ChildrenPart, ChildrenInv, ChildInv, ShallowStays, RecursiveReaches,
                  Stops, IsDone, vars, fields, childVars, envVars
    <2> QED
      BY <1>1, <2>1, <2>2 DEF IInv, RootPart, ChildrenPart
  <1>3. CASE OtherStep
    BY <1>1, <1>3, RootNext, ChildrenOther DEF IInv, RootPart, ChildrenPart
  <1>4. ASSUME NEW c \in Children, ChildStep(c) \/ ChildEnds(c)
        PROVE  IInv'
    <2>1. Root # c /\ Root \in Contexts
      BY ContextsAssumption DEF Contexts
    <2>2. RootPart'
      BY <1>4, <2>1, ChildFrame, RootAlone DEF IInv, RootPart
    <2> QED
      BY <1>1, <1>4, <2>2, ChildrenOwn DEF IInv, RootPart, ChildrenPart
  <1> QED
    BY <1>2, <1>3, <1>4 DEF Next, OtherStep

THEOREM Invariant == Spec => []IInv
  <1> QED
    BY InitInv, NextInv, PTL DEF Spec

\* The fields of every context and the variables of every goroutine keep their
\* types.
THEOREM TypeCorrect == Spec => []TypeOK
  <1>1. IInv => TypeOK
    BY DEF IInv
  <1> QED
    BY <1>1, Invariant, PTL

\* Joining modes under cancelMu loses no request: the error that the execution
\* reports covers the mode of every caller that was told it contributed
\* (buildCancelFunc, createAndMarkHandled).
THEOREM NoRequestLost == Spec => []ErrorCoversRequests
  <1>1. IInv => ErrorCoversRequests
    BY DEF IInv
  <1> QED
    BY <1>1, Invariant, PTL

\* The event stream of an execution ends with a CancelError if and only if the
\* handles see the context handled (markDone, markHandled).
THEOREM ErrorIffHandled == Spec => []HandledMeansError
  <1>1. IInv => HandledMeansError
    BY DEF IInv, EndInv, HandledMeansError
  <1> QED
    BY <1>1, Invariant, PTL

\* In every tree of derived contexts a cancel that is not recursive stays with
\* the root (deriveAgentToolCancelContext).
THEOREM ShallowCancelStays == Spec => []ShallowStays
  <1>1. IInv => ShallowStays
    BY DEF IInv
  <1> QED
    BY <1>1, Invariant, PTL

\* The goroutines that pass a recursive cancel on to a derived context are gone
\* only once it has arrived, or the context has ended.
THEOREM RecursiveCancelReaches == Spec => []RecursiveReaches
  <1>1. IInv => RecursiveReaches
    BY DEF IInv
  <1> QED
    BY <1>1, Invariant, PTL
=============================================================================
