--------------------------- MODULE StopController ---------------------------
(***************************************************************************)
(* The controller of Stop (agentcore/agent_loop_stop.go): whether the loop *)
(* has to stop, and the cancel request for the active turn.  Every method  *)
(* holds c.mu for its whole body, so each one is one step.  The options of *)
(* the cancel request are the subject of module CancelRequest; here it is  *)
(* pending or not.  The stop cause, a text the result repeats, is left out. *)
(***************************************************************************)
EXTENDS Integers

VARIABLES
    stopPhase,             \* "open", "idleWaiting", "committed"
    hasActiveCancelTarget,
    stopPending,           \* c.pending # nil
    stopNotify,            \* the one-slot channel c.notify holds a token
    idleFor,               \* the idle time asked for, 0 for none
    skipCheckpoint,
    stopClosed             \* c.closed

stopVars == <<stopPhase, hasActiveCancelTarget, stopPending, stopNotify,
              idleFor, skipCheckpoint, stopClosed>>

\* newStopController
StopInit ==
    /\ stopPhase = "open"
    /\ hasActiveCancelTarget = FALSE
    /\ stopPending = FALSE
    /\ stopNotify = FALSE
    /\ idleFor = 0
    /\ skipCheckpoint = FALSE
    /\ stopClosed = FALSE

\* What Stop makes of its options: cfg.idleFor drops the cancel options.
\* kind is "bare", "cancel" (graceful or immediate) or "idle".
StopConfigs == [kind : {"bare", "cancel", "idle"}, idleFor : {1},
                skipCheckpoint : BOOLEAN, timeout : BOOLEAN]

\* commitLocked, and its result.
CanCommit == ~stopClosed /\ stopPhase # "committed"

commitLocked ==
    /\ stopPhase' = IF CanCommit THEN "committed" ELSE stopPhase
    /\ idleFor' = IF CanCommit THEN 0 ELSE idleFor

commit ==
    /\ commitLocked
    /\ UNCHANGED <<hasActiveCancelTarget, stopPending, stopNotify,
                   skipCheckpoint, stopClosed>>

\* requestStop on an open controller: an idle stop only arms the first idle
\* time; any other stop commits, and leaves a request to cancel the turn.
requestStop(cfg) ==
    IF stopClosed THEN UNCHANGED stopVars
    ELSE
    /\ skipCheckpoint' = (skipCheckpoint \/ cfg.skipCheckpoint)
    /\ IF cfg.kind = "idle"
         THEN /\ IF stopPhase # "committed" /\ idleFor = 0
                   THEN /\ stopPhase' = "idleWaiting"
                        /\ idleFor' = cfg.idleFor
                   ELSE UNCHANGED <<stopPhase, idleFor>>
              /\ UNCHANGED <<stopPending, stopNotify>>
         ELSE /\ commitLocked
              /\ stopPending' = (stopPending \/ cfg.kind = "cancel")
              /\ stopNotify' = (stopNotify \/ (/\ cfg.kind = "cancel"
                                               /\ hasActiveCancelTarget))
    /\ UNCHANGED <<hasActiveCancelTarget, stopClosed>>

\* Mutant: only a running turn is worth a wakeup.
DecisionWakeIdle_ActiveOnly(cfg) ==
    /\ ~stopClosed
    /\ cfg.kind = "idle"
    /\ stopPhase # "committed"
    /\ hasActiveCancelTarget

\* The stopDecision requestStop returns.
DecisionWakeIdle(cfg) ==
    /\ ~stopClosed
    /\ cfg.kind = "idle"
    /\ stopPhase # "committed"
DecisionCommit(cfg) == cfg.kind # "idle" /\ CanCommit

\* Mutant: the wrong flag.
isCommitted_Closed == stopClosed

isCommitted == stopPhase = "committed"

idleDuration == IF stopPhase = "idleWaiting" THEN idleFor ELSE 0

stopBeginActiveTurn ==
    /\ IF stopClosed
         THEN UNCHANGED <<hasActiveCancelTarget, stopNotify>>
         ELSE /\ hasActiveCancelTarget' = TRUE
              /\ stopNotify' = (stopNotify \/ stopPending)
    /\ UNCHANGED <<stopPhase, stopPending, idleFor, skipCheckpoint, stopClosed>>

\* The caller drops the request endActiveTurn returns.
stopEndActiveTurn ==
    /\ hasActiveCancelTarget' = FALSE
    /\ stopPending' = FALSE
    /\ UNCHANGED <<stopPhase, stopNotify, idleFor, skipCheckpoint, stopClosed>>

\* receiveCancel takes the request of an active turn, if any.
CanReceiveCancel == hasActiveCancelTarget /\ stopPending

receiveCancel ==
    /\ stopPending' = IF CanReceiveCancel THEN FALSE ELSE stopPending
    /\ UNCHANGED <<stopPhase, hasActiveCancelTarget, stopNotify, idleFor,
                   skipCheckpoint, stopClosed>>

stopCloseForLoopExit ==
    /\ stopClosed' = TRUE
    /\ hasActiveCancelTarget' = FALSE
    /\ stopPending' = FALSE
    /\ stopNotify' = FALSE
    /\ UNCHANGED <<stopPhase, idleFor, skipCheckpoint>>
=============================================================================
