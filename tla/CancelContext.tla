---------------------------- MODULE CancelContext ----------------------------
(***************************************************************************)
(* The cancellation state machine of an execution (agentcore/cancel.go):   *)
(* the context of WithCancel with its cancel function, its timeout         *)
(* goroutine and the iterator wrappers that end it, and the contexts       *)
(* derived from it, each with its two propagating goroutines.  The fields  *)
(* are atomics, so every access the others can tell apart is a step.       *)
(*                                                                         *)
(* A mode is the set of safe points at which the agent may stop;           *)
(* CancelImmediate, the zero of the bit mask, is the empty set.  Left out: *)
(* the grace period of sendInterrupt, which needs a call of                *)
(* markAgentToolDescendant that nothing in the repository makes, and the   *)
(* callbacks of SetGraphInterruptFunc, which are stored and never called.  *)
(***************************************************************************)
EXTENDS Integers

CONSTANTS
    Root,           \* the context of WithCancel
    Children,       \* the derived ones
    Parent,         \* what each was derived from
    Callers,        \* calls of the cancel function and of InterruptFromGraph
    CallOptions,    \* per caller, the options it may pass
    SubAgents,      \* agents that run one after the other with the root
    CtxMayEnd,      \* the Go context given to derive may be cancelled
    MaxTime         \* bound: how long time passes without a deadline

SafePoints == {"chat", "tool"}
CancelImmediate == {}
Options == [mode : SUBSET SafePoints, recursive : BOOLEAN, timeout : Nat,
            graph : BOOLEAN]
Contexts == {Root} \cup Children

ASSUME ContextsAssumption ==
    /\ Root \notin Children
    /\ Parent \in [Children -> Contexts]
    /\ "free" \notin Callers /\ "exec" \notin Callers
    /\ CallOptions \in [Callers -> SUBSET Options]
    /\ SubAgents \in Nat \ {0}
    /\ CtxMayEnd \in BOOLEAN
    /\ MaxTime \in Nat

VARIABLES
    \* fields of the contexts
    state,          \* "running", "cancelling", "done", "handled"; doneChan
                    \* is closed in the last two
    mode,
    cancelled,      \* cancelChan is closed
    immediate,      \* immediateChan is closed
    recursive,      \* recursive is set and recursiveChan closed
    escalated,
    \* fields of the root only
    timeoutEscalated, deadline, timeoutNotify,
    cancelMu,       \* who holds it: a caller, "exec" or "free"
    \* processes
    callPC, opt, seen, contributed, result,
    timer, armedFor,
    spread, spreadMode,  \* the goroutine that passes a cancel on to a child
    urge,                \* the one that passes an immediate cancel on
    exec, sub, err, errMode,
    ctxDone, now

fields == <<state, mode, cancelled, immediate, recursive, escalated>>
rootFields == <<timeoutEscalated, deadline, timeoutNotify>>
callVars == <<callPC, opt, seen, contributed, result>>
timerVars == <<timer, armedFor>>
childVars == <<spread, spreadMode, urge>>
execVars == <<exec, sub, err, errMode>>
envVars == <<ctxDone, now>>

vars == <<fields, rootFields, cancelMu, callVars, timerVars, childVars,
          execVars, envVars>>

NoErr == [mode |-> {}, escalated |-> FALSE, timeout |-> FALSE, none |-> TRUE]

NoOptions == [mode |-> CancelImmediate, recursive |-> FALSE, timeout |-> 0,
              graph |-> FALSE]

IsDone(c) == state[c] \in {"done", "handled"}

\* newCancelContext, deriveAgentToolCancelContext
Init ==
    /\ state = [c \in Contexts |-> "running"]
    /\ mode = [c \in Contexts |-> CancelImmediate]
    /\ cancelled = [c \in Contexts |-> FALSE]
    /\ immediate = [c \in Contexts |-> FALSE]
    /\ recursive = [c \in Contexts |-> FALSE]
    /\ escalated = [c \in Contexts |-> FALSE]
    /\ timeoutEscalated = FALSE /\ deadline = 0 /\ timeoutNotify = FALSE
    /\ cancelMu = "free"
    /\ callPC = [k \in Callers |-> "ready"]
    /\ opt = [k \in Callers |-> NoOptions]
    /\ seen = [k \in Callers |-> CancelImmediate]
    /\ contributed = [k \in Callers |-> FALSE]
    /\ result = [k \in Callers |-> "none"]
    /\ timer = "none" /\ armedFor = 0
    /\ spread = [c \in Children |-> "wait"]
    /\ spreadMode = [c \in Children |-> CancelImmediate]
    /\ urge = [c \in Children |-> "wait"]
    /\ exec = "next" /\ sub = 0 /\ err = NoErr /\ errMode = CancelImmediate
    /\ ctxDone = FALSE /\ now = 0

-----------------------------------------------------------------------------
\* triggerImmediate on context c, by a goroutine that has come to step l: the
\* mode, then the state and cancelChan, then sendInterrupt.
ImmediateSteps == {"escalate", "cancel", "interrupt"}

triggerImmediate(c, l) ==
    \/ /\ l = "escalate"
       /\ escalated' = [escalated EXCEPT ![c] = TRUE]
       /\ mode' = [mode EXCEPT ![c] = CancelImmediate]
       /\ UNCHANGED <<state, cancelled, immediate, recursive>>
    \/ /\ l = "cancel"
       /\ state' = [state EXCEPT ![c] = IF @ = "running" THEN "cancelling" ELSE @]
       /\ cancelled' = [cancelled EXCEPT ![c] = @ \/ state[c] = "running"]
       /\ UNCHANGED <<mode, immediate, recursive, escalated>>
    \/ /\ l = "interrupt"
       /\ immediate' = [immediate EXCEPT ![c] = TRUE]
       /\ UNCHANGED <<state, mode, cancelled, recursive, escalated>>

After(l, end) ==
    CASE l = "escalate" -> "cancel"
      [] l = "cancel" -> "interrupt"
      [] l = "interrupt" -> end

\* Mutant: a cancelled execution that ends is not marked.
markDone_RunningOnly(c) ==
    state' = [state EXCEPT ![c] = IF @ = "running" THEN "done" ELSE @]

\* markDone and markHandled are compare-and-swaps; they close doneChan.
markDone(c) ==
    state' = [state EXCEPT ![c] = IF @ \in {"running", "cancelling"} THEN "done"
                                  ELSE @]

-----------------------------------------------------------------------------
(***************************************************************************)
(* The function that buildCancelFunc returns, and InterruptFromGraph       *)
(* (opt.graph), which is refused unless the root is running and keeps      *)
(* cancelMu to its end.                                                    *)
(***************************************************************************)
\* A call that does not contribute returns a handle whose Wait gives r.
Refuse(k, o, r) ==
    /\ callPC' = [callPC EXCEPT ![k] = "returned"]
    /\ result' = [result EXCEPT ![k] = IF o.graph THEN "none" ELSE r]

EndedResult == IF state[Root] = "done" THEN "ended" ELSE "nil"

\* Where a call that contributed ends: InterruptFromGraph has no handle.
Accepted(k) == IF opt[k].graph THEN "returned" ELSE "wait"

CallCheck(k) ==
    /\ callPC[k] = "ready"
    /\ \E o \in CallOptions[k] :
         /\ opt' = [opt EXCEPT ![k] = o]
         /\ IF IsDone(Root) /\ ~o.graph
              THEN Refuse(k, o, EndedResult)
              ELSE /\ callPC' = [callPC EXCEPT ![k] = "lock"]
                   /\ UNCHANGED result
    /\ UNCHANGED <<fields, rootFields, cancelMu, seen, contributed, timerVars,
                   childVars, execVars, envVars>>

CallLock(k) ==
    /\ callPC[k] = "lock"
    /\ cancelMu = "free"
    /\ IF IsDone(Root) \/ (opt[k].graph /\ state[Root] # "running")
         THEN /\ Refuse(k, opt[k], EndedResult)
              /\ UNCHANGED cancelMu
         ELSE /\ cancelMu' = k
              /\ callPC' = [callPC EXCEPT ![k] =
                              IF state[Root] = "running" THEN "swap" ELSE "read"]
              /\ UNCHANGED result
    /\ UNCHANGED <<fields, rootFields, opt, seen, contributed, timerVars,
                   childVars, execVars, envVars>>

\* The compare-and-swap fails only if the execution ended meanwhile.
CallSwap(k) ==
    /\ callPC[k] = "swap"
    /\ IF state[Root] = "running"
         THEN /\ state' = [state EXCEPT ![Root] = "cancelling"]
              /\ callPC' = [callPC EXCEPT ![k] = "first"]
              /\ contributed' = [contributed EXCEPT ![k] = TRUE]
              /\ UNCHANGED <<cancelMu, result>>
         ELSE /\ cancelMu' = "free"
              /\ IF state[Root] = "done"
                   THEN Refuse(k, opt[k], "ended") /\ UNCHANGED contributed
                   ELSE /\ callPC' = [callPC EXCEPT ![k] = Accepted(k)]
                        /\ contributed' = [contributed EXCEPT ![k] = ~opt[k].graph]
                        /\ UNCHANGED result
              /\ UNCHANGED state
    /\ UNCHANGED <<mode, cancelled, immediate, recursive, escalated,
                   rootFields, opt, seen, timerVars, childVars, execVars,
                   envVars>>

\* The first request sets the mode, and then lets the others know.
CallFirst(k) ==
    /\ \/ /\ callPC[k] = "first"
          /\ mode' = [mode EXCEPT ![Root] = opt[k].mode]
          /\ callPC' = [callPC EXCEPT ![k] = "close"]
          /\ UNCHANGED <<cancelled, recursive>>
       \/ /\ callPC[k] = "close"
          /\ recursive' = [recursive EXCEPT ![Root] = @ \/ opt[k].recursive]
          /\ cancelled' = [cancelled EXCEPT ![Root] = TRUE]
          /\ callPC' = [callPC EXCEPT ![k] = "decide"]
          /\ UNCHANGED mode
    /\ UNCHANGED <<state, immediate, escalated, rootFields, cancelMu, opt,
                   seen, contributed, result, timerVars, childVars, execVars,
                   envVars>>

\* Mutant: the later request replaces the mode.
join_Last(m, n) == n

join(m, n) ==
    IF m = CancelImmediate \/ n = CancelImmediate THEN CancelImmediate
    ELSE m \cup n

\* A later one reads the mode and writes the joined one: two accesses.
CallJoin(k) ==
    /\ \/ /\ callPC[k] = "read"
          /\ seen' = [seen EXCEPT ![k] = mode[Root]]
          /\ callPC' = [callPC EXCEPT ![k] = "write"]
          /\ UNCHANGED <<mode, recursive, contributed>>
       \/ /\ callPC[k] = "write"
          /\ mode' = [mode EXCEPT ![Root] = join(seen[k], opt[k].mode)]
          /\ recursive' = [recursive EXCEPT ![Root] = @ \/ opt[k].recursive]
          /\ contributed' = [contributed EXCEPT ![k] = TRUE]
          /\ callPC' = [callPC EXCEPT ![k] = "decide"]
          /\ UNCHANGED seen
    /\ UNCHANGED <<state, cancelled, immediate, escalated, rootFields,
                   cancelMu, opt, result, timerVars, childVars, execVars,
                   envVars>>

\* Mutant: the timeout goroutine is not started.
SetDeadline_NoTimer(k) ==
    /\ deadline' = now + opt[k].timeout
    /\ timeoutNotify' = (timeoutNotify \/ ~opt[k].graph)
    /\ UNCHANGED timer

\* An immediate mode needs triggerImmediate; a timeout sets the deadline and
\* wakes or starts the one timeout goroutine (InterruptFromGraph does not wake
\* it).
SetDeadline(k) ==
    /\ deadline' = now + opt[k].timeout
    /\ timeoutNotify' = (timeoutNotify \/ ~opt[k].graph)
    /\ timer' = IF timer = "none" THEN "loop" ELSE timer

CallDecide(k) ==
    /\ callPC[k] = "decide"
    /\ LET imm == (IF opt[k].graph THEN opt[k].mode ELSE mode[Root]) = CancelImmediate
       IN  /\ callPC' = [callPC EXCEPT ![k] =
                              IF imm THEN "escalate" ELSE Accepted(k)]
           /\ cancelMu' = IF imm /\ opt[k].graph THEN k ELSE "free"
           /\ IF ~imm /\ opt[k].timeout > 0
                THEN SetDeadline(k)
                ELSE UNCHANGED <<deadline, timeoutNotify, timer>>
    /\ UNCHANGED <<fields, timeoutEscalated, opt, seen, contributed, result,
                   armedFor, childVars, execVars, envVars>>

CallImmediate(k) ==
    /\ callPC[k] \in ImmediateSteps
    /\ triggerImmediate(Root, callPC[k])
    /\ callPC' = [callPC EXCEPT ![k] = After(@, Accepted(k))]
    /\ cancelMu' = IF opt[k].graph /\ callPC[k] = "interrupt" THEN "free"
                   ELSE cancelMu
    /\ UNCHANGED <<rootFields, opt, seen, contributed, result, timerVars,
                   childVars, execVars, envVars>>

\* waitDone, the Wait of a handle
CallWait(k) ==
    /\ callPC[k] = "wait"
    /\ IsDone(Root)
    /\ callPC' = [callPC EXCEPT ![k] = "returned"]
    /\ result' = [result EXCEPT ![k] =
                    IF state[Root] = "done" THEN "ended"
                    ELSE IF timeoutEscalated THEN "timeout" ELSE "nil"]
    /\ UNCHANGED <<fields, rootFields, cancelMu, opt, seen, contributed,
                   timerVars, childVars, execVars, envVars>>

CallStep(k) == \/ CallLock(k) \/ CallSwap(k) \/ CallFirst(k) \/ CallJoin(k)
               \/ CallDecide(k) \/ CallImmediate(k) \/ CallWait(k)

-----------------------------------------------------------------------------
\* The goroutine of startTimeout.  It looks at doneChan and at the deadline,
\* waits for the deadline, a new one or the end, and when the time has come
\* sets its flags and triggers an immediate cancel.
Escalates ==
    /\ timeoutEscalated' = TRUE
    /\ escalated' = [escalated EXCEPT ![Root] = TRUE]
    /\ timer' = "escalate"

TimerLoop ==
    /\ timer = "loop"
    /\ \/ /\ IsDone(Root)
          /\ timer' = "gone"
          /\ UNCHANGED <<timeoutEscalated, escalated, armedFor>>
       \/ /\ ~IsDone(Root)
          /\ deadline <= now
          /\ Escalates
          /\ UNCHANGED armedFor
       \/ /\ ~IsDone(Root)
          /\ deadline > now
          /\ timer' = "armed"
          /\ armedFor' = deadline
          /\ UNCHANGED <<timeoutEscalated, escalated>>
    /\ UNCHANGED <<state, mode, cancelled, immediate, recursive, deadline,
                   timeoutNotify, cancelMu, callVars, childVars, execVars,
                   envVars>>

TimerFires ==
    /\ timer = "armed"
    /\ armedFor <= now
    /\ Escalates
    /\ UNCHANGED <<state, mode, cancelled, immediate, recursive, deadline,
                   timeoutNotify, armedFor, cancelMu, callVars, childVars,
                   execVars, envVars>>

TimerWakes ==
    /\ timer = "armed"
    /\ \/ /\ timeoutNotify
          /\ timeoutNotify' = FALSE
          /\ timer' = "loop"
       \/ /\ IsDone(Root)
          /\ timer' = "gone"
          /\ UNCHANGED timeoutNotify
    /\ UNCHANGED <<fields, timeoutEscalated, deadline, armedFor, cancelMu,
                   callVars, childVars, execVars, envVars>>

TimerImmediate ==
    /\ timer \in ImmediateSteps
    /\ triggerImmediate(Root, timer)
    /\ timer' = After(timer, "gone")
    /\ UNCHANGED <<rootFields, armedFor, cancelMu, callVars, childVars,
                   execVars, envVars>>

TimerStep == TimerLoop \/ TimerFires \/ TimerWakes \/ TimerImmediate

-----------------------------------------------------------------------------
\* The two goroutines of a derived context: each waits for its channel of the
\* parent and, unless the cancel is recursive already, for it to become so.
\* The child's end or the context's end stops both.
Waiting == {"wait", "waitRecursive"}

Stops(c) == IsDone(c) \/ ctxDone

\* Mutants: every cancel is passed on, or the goroutine does not wait for a
\* cancel to become recursive.
NextWait_Always(c, l, go) == go

NextWait_Once(c, l, go) == IF recursive[Parent[c]] THEN go ELSE "gone"

NextWait(c, l, go) ==
    IF recursive[Parent[c]] THEN go
    ELSE IF l = "wait" THEN "waitRecursive" ELSE l

\* A cancel: the child becomes recursive and takes the parent's mode.
SpreadWaits(c) ==
    /\ spread[c] \in Waiting
    /\ \/ /\ cancelled[Parent[c]]
          /\ spread[c] = "wait" \/ recursive[Parent[c]]
          /\ spread' = [spread EXCEPT ![c] = NextWait(c, @, "adopt")]
       \/ /\ Stops(c)
          /\ spread' = [spread EXCEPT ![c] = "gone"]
    /\ UNCHANGED <<fields, rootFields, cancelMu, callVars, timerVars,
                   spreadMode, urge, execVars, envVars>>

SpreadAdopts(c) ==
    /\ spread[c] = "adopt"
    /\ recursive' = [recursive EXCEPT ![c] = TRUE]
    /\ spreadMode' = [spreadMode EXCEPT ![c] = mode[Parent[c]]]
    /\ spread' = [spread EXCEPT ![c] = "trigger"]
    /\ UNCHANGED <<state, mode, cancelled, immediate, escalated, rootFields,
                   cancelMu, callVars, timerVars, urge, execVars, envVars>>

\* triggerCancel sets the mode whatever the child's state is.
triggerCancel(c, m) ==
    /\ mode' = [mode EXCEPT ![c] = m]
    /\ state' = [state EXCEPT ![c] = IF @ = "running" THEN "cancelling" ELSE @]
    /\ cancelled' = [cancelled EXCEPT ![c] = @ \/ state[c] = "running"]
    /\ UNCHANGED <<immediate, recursive, escalated>>

SpreadTriggers(c) ==
    /\ spread[c] = "trigger"
    /\ triggerCancel(c, spreadMode[c])
    /\ spread' = [spread EXCEPT ![c] = "gone"]
    /\ UNCHANGED <<rootFields, cancelMu, callVars, timerVars, spreadMode,
                   urge, execVars, envVars>>

\* An immediate cancel.
UrgeWaits(c) ==
    /\ urge[c] \in Waiting
    /\ \/ /\ immediate[Parent[c]]
          /\ urge[c] = "wait" \/ recursive[Parent[c]]
          /\ urge' = [urge EXCEPT ![c] = NextWait(c, @, "adopt")]
       \/ /\ Stops(c)
          /\ urge' = [urge EXCEPT ![c] = "gone"]
    /\ UNCHANGED <<fields, rootFields, cancelMu, callVars, timerVars, spread,
                   spreadMode, execVars, envVars>>

UrgeAdopts(c) ==
    /\ urge[c] = "adopt"
    /\ recursive' = [recursive EXCEPT ![c] = TRUE]
    /\ urge' = [urge EXCEPT ![c] = "escalate"]
    /\ UNCHANGED <<state, mode, cancelled, immediate, escalated, rootFields,
                   cancelMu, callVars, timerVars, spread, spreadMode,
                   execVars, envVars>>

UrgeTriggers(c) ==
    /\ urge[c] \in ImmediateSteps
    /\ triggerImmediate(c, urge[c])
    /\ urge' = [urge EXCEPT ![c] = After(@, "gone")]
    /\ UNCHANGED <<rootFields, cancelMu, callVars, timerVars, spread,
                   spreadMode, execVars, envVars>>

ChildStep(c) == \/ SpreadWaits(c) \/ SpreadAdopts(c) \/ SpreadTriggers(c)
                \/ UrgeWaits(c) \/ UrgeAdopts(c) \/ UrgeTriggers(c)

\* The nested agent of a child ends; its wrapper marks the child done.
ChildEnds(c) ==
    /\ ~IsDone(c)
    /\ markDone(c)
    /\ UNCHANGED <<mode, cancelled, immediate, recursive, escalated,
                   rootFields, cancelMu, callVars, timerVars, childVars,
                   execVars, envVars>>

-----------------------------------------------------------------------------
(***************************************************************************)
(* The execution with the root context: one agent, or the sub-agents of a  *)
(* sequential workflow, all of which get the root's option (runSeq).  The  *)
(* agents themselves are external.                                         *)
(***************************************************************************)
\* Between two sub-agents the workflow looks at cancelChan; if it is closed
\* it sends an interrupt, which the workflow's own wrapper turns into an error.
NextSubAgent ==
    /\ exec = "next"
    /\ IF cancelled[Root]
         THEN exec' = "report" /\ UNCHANGED sub
         ELSE exec' = "running" /\ sub' = sub + 1
    /\ UNCHANGED <<err, errMode, fields, rootFields, cancelMu, callVars,
                   timerVars, childVars, envVars>>

\* The stream of a sub-agent ends: its wrapper marks the shared root done.
SubAgentEnds ==
    /\ exec = "running"
    /\ markDone(Root)
    /\ exec' = IF sub < SubAgents THEN "next" ELSE "ended"
    /\ UNCHANGED <<mode, cancelled, immediate, recursive, escalated,
                   rootFields, cancelMu, callVars, timerVars, childVars, sub,
                   err, errMode, envVars>>

\* The agent interrupts itself: because it saw the cancel, or for its own
\* business, which ends the execution as well.
AgentInterrupts ==
    /\ exec = "running"
    /\ IF cancelled[Root]
         THEN exec' = "report" /\ UNCHANGED state
         ELSE exec' = "interrupted" /\ markDone(Root)
    /\ UNCHANGED <<mode, cancelled, immediate, recursive, escalated,
                   rootFields, cancelMu, callVars, timerVars, childVars, sub,
                   err, errMode, envVars>>

\* createAndMarkHandled under cancelMu: createError reads the mode and then the
\* flags; the error is sent only if the root was still cancelling.
ReportMode ==
    /\ exec = "report"
    /\ cancelMu = "free"
    /\ cancelMu' = "exec"
    /\ errMode' = mode[Root]
    /\ exec' = "flags"
    /\ UNCHANGED <<sub, err, fields, rootFields, callVars, timerVars,
                   childVars, envVars>>

\* Mutant: the error is sent whether or not the swap succeeds.
createAndMarkHandled_Always ==
    /\ state' = [state EXCEPT ![Root] = IF @ = "cancelling" THEN "handled" ELSE @]
    /\ err' = [mode |-> errMode, escalated |-> escalated[Root],
               timeout |-> escalated[Root] /\ timeoutEscalated, none |-> FALSE]

createAndMarkHandled ==
    /\ state' = [state EXCEPT ![Root] = IF @ = "cancelling" THEN "handled" ELSE @]
    /\ err' = IF state[Root] = "cancelling"
                THEN [mode |-> errMode, escalated |-> escalated[Root],
                      timeout |-> escalated[Root] /\ timeoutEscalated,
                      none |-> FALSE]
                ELSE err

ReportError ==
    /\ exec = "flags"
    /\ createAndMarkHandled
    /\ cancelMu' = "free"
    /\ exec' = "ended"
    /\ UNCHANGED <<mode, cancelled, immediate, recursive, escalated,
                   rootFields, callVars, timerVars, childVars, sub, errMode,
                   envVars>>

ExecStep == NextSubAgent \/ ReportMode \/ ReportError

-----------------------------------------------------------------------------
CtxEnds ==
    /\ CtxMayEnd
    /\ ~ctxDone
    /\ ctxDone' = TRUE
    /\ UNCHANGED <<now, fields, rootFields, cancelMu, callVars, timerVars,
                   childVars, execVars>>

\* Time goes on to the bound, and past it to a deadline that lies ahead.
Tick ==
    /\ now < MaxTime \/ now < deadline
    /\ now' = now + 1
    /\ UNCHANGED <<ctxDone, fields, rootFields, cancelMu, callVars, timerVars,
                   childVars, execVars>>

Next ==
    \/ \E k \in Callers : CallCheck(k) \/ CallStep(k)
    \/ TimerStep
    \/ \E c \in Children : ChildStep(c) \/ ChildEnds(c)
    \/ ExecStep \/ SubAgentEnds \/ AgentInterrupts
    \/ CtxEnds \/ Tick

Spec == Init /\ [][Next]_vars

\* Goroutines are scheduled and time passes; nobody has to call the cancel
\* function, and an agent that ignores a cancel may run forever.
GoroutinesRun ==
    /\ \A k \in Callers : WF_vars(CallStep(k))
    /\ WF_vars(TimerStep) /\ WF_vars(ExecStep) /\ WF_vars(Tick)
    /\ \A c \in Children : WF_vars(ChildStep(c))

\* A cancelled agent interrupts itself or ends.
CancelledAgentEnds ==
    WF_vars(cancelled[Root] /\ (SubAgentEnds \/ AgentInterrupts))

LiveSpec == Spec /\ GoroutinesRun

-----------------------------------------------------------------------------
CallPCs == {"ready", "lock", "swap", "first", "close", "read", "write",
            "decide", "wait", "returned"} \cup ImmediateSteps
Modes == SUBSET SafePoints

FieldsOK ==
    /\ state \in [Contexts -> {"running", "cancelling", "done", "handled"}]
    /\ mode \in [Contexts -> Modes]
    /\ cancelled \in [Contexts -> BOOLEAN] /\ immediate \in [Contexts -> BOOLEAN]
    /\ recursive \in [Contexts -> BOOLEAN] /\ escalated \in [Contexts -> BOOLEAN]
RootFieldsOK ==
    /\ timeoutEscalated \in BOOLEAN /\ deadline \in Nat /\ timeoutNotify \in BOOLEAN
    /\ cancelMu \in Callers \cup {"free", "exec"}
CallsOK ==
    /\ callPC \in [Callers -> CallPCs] /\ opt \in [Callers -> Options]
    /\ seen \in [Callers -> Modes] /\ contributed \in [Callers -> BOOLEAN]
    /\ result \in [Callers -> {"none", "nil", "ended", "timeout"}]
TimerOK ==
    /\ timer \in {"none", "loop", "armed", "gone"} \cup ImmediateSteps
    /\ armedFor \in Nat
ChildrenOK ==
    /\ spread \in [Children -> Waiting \cup {"adopt", "trigger", "gone"}]
    /\ spreadMode \in [Children -> Modes]
    /\ urge \in [Children -> Waiting \cup {"adopt", "gone"} \cup ImmediateSteps]
ExecOK ==
    /\ exec \in {"next", "running", "report", "flags", "ended", "interrupted"}
    /\ sub \in 0..SubAgents
    /\ err \in [mode : Modes, escalated : BOOLEAN, timeout : BOOLEAN,
                 none : BOOLEAN]
    /\ errMode \in Modes
EnvOK == ctxDone \in BOOLEAN /\ now \in Nat

\* The values of the context's fields and of the goroutines' variables.
TypeOK ==
    /\ FieldsOK /\ RootFieldsOK /\ CallsOK /\ TimerOK /\ ChildrenOK /\ ExecOK
    /\ EnvOK

\* Mode m stops the agent wherever mode r does.
Covers(m, r) == m = CancelImmediate \/ (r # CancelImmediate /\ r \subseteq m)

\* The error of a cancelled execution reports a mode that covers the request
\* of every caller that was told it contributed: joining under cancelMu loses
\* no request, and none gets in after the mode was read (buildCancelFunc,
\* createAndMarkHandled).
ErrorCoversRequests ==
    ~err.none => \A k \in Callers : contributed[k] => Covers(err.mode, opt[k].mode)

\* The handles and the event stream agree: the execution ends with an error
\* if and only if the context counts as handled (markDone, markHandled).
HandledMeansError ==
    exec = "ended" => (state[Root] = "handled" <=> ~err.none)

\* A shallow cancel stays with its context: a derived context is cancelled
\* only by a recursive cancel of the root that its parent passed on, and
\* immediately only by an immediate one.  An immediate cancel goes through a
\* parent that has ended uncancelled (deriveAgentToolCancelContext).
ShallowStays ==
    \A c \in Children :
        /\ cancelled[c] => /\ recursive[Parent[c]]
                           /\ cancelled[Parent[c]] \/ immediate[Parent[c]]
        /\ immediate[c] => recursive[Parent[c]] /\ immediate[Parent[c]]
        /\ cancelled[c] \/ immediate[c] => recursive[Root] /\ cancelled[Root]

\* A recursive cancel is never lost on its way to a child, in whatever order
\* the cancel, the recursion and the immediate request were made: the
\* goroutines that pass it on are gone only once it has arrived, unless the
\* child or the context has ended.
RecursiveReaches ==
    \A c \in Children :
        /\ spread[c] = "gone" => cancelled[c] \/ Stops(c)
        /\ urge[c] = "gone" => (cancelled[c] /\ immediate[c]) \/ Stops(c)

\* If cancelled agents end, every Wait of a caller that contributed returns.
WaitsReturn ==
    CancelledAgentEnds => \A k \in Callers : contributed[k] ~> callPC[k] = "returned"

\* Even if the agent does not react, an immediate request and a request with a
\* timeout lead to an immediate cancel, unless the execution ends first.
TimeoutEscalates ==
    \A k \in Callers :
        (contributed[k] /\ (opt[k].mode = CancelImmediate \/ opt[k].timeout > 0))
          ~> (immediate[Root] \/ IsDone(Root))
=============================================================================
