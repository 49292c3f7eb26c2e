-------------------------- MODULE PreemptController --------------------------
(***************************************************************************)
(* The controller of turn-targeted preempt requests and of the critical    *)
(* sections of Push (agentcore/agent_loop_preempt.go).  Every method holds *)
(* c.mu for its whole body, so each one is one step.                       *)
(*                                                                         *)
(* A request is represented by the acknowledgement channels it carries,    *)
(* one per preemptive Push: pending = {} stands for a nil c.pending, since *)
(* both callers of requestPreempt pass a channel.  The cancel options that *)
(* requests merge are the subject of module CancelRequest.                 *)
(***************************************************************************)
EXTENDS Integers

CONSTANTS
    Items,      \* the items pushed, each by one call of Push
    MaxTurns    \* bound: turns of one loop

Turns == 1..MaxTurns

VARIABLES
    turnPhase,     \* "idle", "planning", "active"
    turnID,
    pushInFlight,
    pending,       \* the pushes whose channels wait in c.pending
    preNotify,     \* the one-slot channel c.notify holds a token
    preClosed,     \* c.closed
    ack            \* per push, its channel: "none", "open", "closed",
                   \* or "panic" when it was closed twice

preVars == <<turnPhase, turnID, pushInFlight, pending, preNotify, preClosed>>

\* newPreemptController
PreInit ==
    /\ turnPhase = "idle"
    /\ turnID = 0
    /\ pushInFlight = 0
    /\ pending = {}
    /\ preNotify = FALSE
    /\ preClosed = FALSE

\* preemptRequest.ack closes every channel of a request; closing a closed
\* channel panics in Go.
Acked(req) ==
    [i \in Items |-> IF i \notin req THEN ack[i]
                     ELSE IF ack[i] = "open" THEN "closed" ELSE "panic"]

\* Its panics when the phase is not idle, or when a request is pending, are
\* the invariant NoPanic of AgentLoop.
beginPlanningTurn ==
    /\ turnID' = turnID + 1
    /\ turnPhase' = "planning"
    /\ UNCHANGED <<pushInFlight, pending, preNotify, preClosed>>

\* abortPlanningTurn().ack(): the turn ends and its request is answered.
abortPlanningTurn ==
    /\ turnPhase' = "idle"
    /\ pending' = {}
    /\ ack' = Acked(pending)
    /\ UNCHANGED <<turnID, pushInFlight, preNotify, preClosed>>

\* Mutant: the phase does not change.
preBeginActiveTurn_StaysPlanning ==
    /\ preNotify' = (preNotify \/ pending # {})
    /\ UNCHANGED <<turnPhase, turnID, pushInFlight, pending, preClosed>>

preBeginActiveTurn ==
    /\ turnPhase' = "active"
    /\ preNotify' = (preNotify \/ pending # {})
    /\ UNCHANGED <<turnID, pushInFlight, pending, preClosed>>

\* Mutant: nobody answers the request that endActiveTurn clears.
preEndActiveTurn_NoAck ==
    /\ turnPhase' = "idle"
    /\ pending' = {}
    /\ UNCHANGED <<turnID, pushInFlight, preNotify, preClosed, ack>>

\* endActiveTurn().ack()
preEndActiveTurn ==
    /\ turnPhase' = "idle"
    /\ pending' = {}
    /\ ack' = Acked(pending)
    /\ UNCHANGED <<turnID, pushInFlight, preNotify, preClosed>>

\* The snapshot beginPush returns: the current turn, or 0 for no target turn.
TargetTurn == IF turnPhase = "idle" THEN 0 ELSE turnID

beginPush ==
    /\ pushInFlight' = pushInFlight + 1
    /\ UNCHANGED <<turnPhase, turnID, pending, preNotify, preClosed>>

\* Mutant: the critical section is never left.
endPush_Forgets ==
    UNCHANGED <<turnPhase, turnID, pushInFlight, pending, preNotify, preClosed>>

endPush ==
    /\ pushInFlight' = pushInFlight - 1
    /\ UNCHANGED <<turnPhase, turnID, pending, preNotify, preClosed>>

\* waitForPushes returns when no Push is in its critical section.
NoPushInFlight == pushInFlight = 0

\* Mutant: any turn will do.
Stale_AnyTurn(target) == preClosed \/ target = 0 \/ turnPhase = "idle"

\* requestPreempt answers a request that has no target or missed it at once;
\* otherwise the request joins the pending one.
Stale(target) ==
    preClosed \/ target = 0 \/ turnPhase = "idle" \/ turnID # target

requestPreempt(i, target) ==
    /\ IF Stale(target)
         THEN /\ ack' = Acked({i})
              /\ UNCHANGED <<pending, preNotify>>
         ELSE /\ pending' = pending \cup {i}
              /\ preNotify' = (preNotify \/ turnPhase = "active")
              /\ UNCHANGED ack
    /\ UNCHANGED <<turnPhase, turnID, pushInFlight, preClosed>>

\* receivePreempt takes the pending request of an active turn, if any.
CanReceivePreempt == turnPhase = "active" /\ pending # {}

\* Mutant: the request stays pending.
receivePreempt_Keeps ==
    UNCHANGED <<turnPhase, turnID, pushInFlight, pending, preNotify, preClosed>>

receivePreempt ==
    /\ pending' = IF CanReceivePreempt THEN {} ELSE pending
    /\ UNCHANGED <<turnPhase, turnID, pushInFlight, preNotify, preClosed>>

preCloseForLoopExit ==
    /\ preClosed' = TRUE
    /\ turnPhase' = "idle"
    /\ pending' = {}
    /\ ack' = Acked(pending)
    /\ preNotify' = FALSE
    /\ UNCHANGED <<turnID, pushInFlight>>
=============================================================================
