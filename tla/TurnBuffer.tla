----------------------------- MODULE TurnBuffer -----------------------------
(***************************************************************************)
(* The blocking item buffer of an AgentLoop (agentcore/agent_loop_buffer.go).*)
(* Every method holds tb.mu for its whole body, so each one is one step.   *)
(* A method that blocks on the condition variable is a step with a guard.  *)
(***************************************************************************)
EXTENDS Sequences, Integers

VARIABLES
    buf,        \* tb.buf: the queued items, oldest first
    bufClosed,  \* tb.closed
    woken       \* tb.woken

bufVars == <<buf, bufClosed, woken>>

\* newTurnBuffer
BufInit ==
    /\ buf = <<>>
    /\ bufClosed = FALSE
    /\ woken = FALSE

\* TrySend appends unless the buffer is closed; CanSend is its result.
CanSend == ~bufClosed

TrySend(v) ==
    /\ buf' = IF CanSend THEN Append(buf, v) ELSE buf
    /\ UNCHANGED <<bufClosed, woken>>

\* Receive waits until there is an item, a close or a wakeup, and clears the
\* wakeup.  An item is returned even from a closed buffer; without one the
\* caller gets ok = false.
CanReceive == buf # <<>> \/ bufClosed \/ woken

Receive ==
    /\ CanReceive
    /\ woken' = FALSE
    /\ buf' = IF buf = <<>> THEN buf ELSE Tail(buf)
    /\ UNCHANGED bufClosed

Close ==
    /\ bufClosed' = TRUE
    /\ UNCHANGED <<buf, woken>>

\* TakeAll empties the buffer; the caller keeps the old value of buf.
TakeAll ==
    /\ buf' = <<>>
    /\ UNCHANGED <<bufClosed, woken>>

\* Mutant: the values go behind what was sent meanwhile.
PushFront_AtEnd(values) ==
    /\ buf' = buf \o values
    /\ UNCHANGED <<bufClosed, woken>>

\* PushFront works on a closed buffer too.
PushFront(values) ==
    /\ buf' = values \o buf
    /\ UNCHANGED <<bufClosed, woken>>

Wakeup ==
    /\ woken' = TRUE
    /\ UNCHANGED <<buf, bufClosed>>

ClearWakeup ==
    /\ woken' = FALSE
    /\ UNCHANGED <<buf, bufClosed>>
=============================================================================
