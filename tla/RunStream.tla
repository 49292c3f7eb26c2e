----------------------------- MODULE RunStream -----------------------------
(***************************************************************************)
(* How an execution of the Pregel engine reaches its caller: the stream    *)
(* manager (graphengine/pregel/stream.go), the goroutine of Engine.Run     *)
(* that forwards its events to outputCh, the deferred clean-up of Run, and *)
(* the caller: one that reads outputCh until it is closed and then errCh,  *)
(* as Run demands, or RunSync, which selects on both (engine.go).          *)
(*                                                                         *)
(* The superstep loop is reduced to what it emits in StreamModeValues: a   *)
(* number of values events, then the final event, or an error at any time. *)
(* An event is a positive number, its superstep, and the final one is 0.   *)
(***************************************************************************)
EXTENDS Integers, Sequences

CONSTANTS
    Callers,        \* "drain", "sync"
    MaxSteps,       \* bound: values events of an execution
    EventCap,       \* capacity of the manager's channel, 100 in the code
    OutputCap,      \* capacity of outputCh, 100 in the code
    CtxMayEnd       \* the caller may cancel the context

ASSUME StreamAssumption ==
    /\ Callers \subseteq {"drain", "sync"}
    /\ MaxSteps \in Nat
    /\ EventCap \in Nat \ {0} /\ OutputCap \in Nat \ {0}
    /\ CtxMayEnd \in BOOLEAN

Final == 0
Nothing == -1
Event == Final .. MaxSteps

VARIABLES
    pc, step,       \* Engine.Run
    eventCh, eventsClosed,
    fw, held,       \* the forwarding goroutine and the event it sends
    outputCh, outputClosed,
    errCh, errClosed,
    ctxDone,
    caller,         \* who reads: a member of Callers
    reader,         \* where it has come to
    finalState,     \* RunSync has received the final event
    ret,            \* what the caller ends with
    failed,         \* history: the execution ended with an error
    accepted,       \* history: the events the manager took
    received        \* history: the events the caller got

events == <<eventCh, eventsClosed>>
output == <<outputCh, outputClosed>>
errors == <<errCh, errClosed>>
readerVars == <<reader, finalState, ret, received>>
vars == <<pc, step, events, fw, held, output, errors, ctxDone, caller,
          readerVars, failed, accepted>>

Init ==
    /\ caller \in Callers
    /\ pc = "run" /\ step = 0
    /\ eventCh = <<>> /\ eventsClosed = FALSE
    /\ fw = "range" /\ held = Nothing
    /\ outputCh = <<>> /\ outputClosed = FALSE
    /\ errCh = <<>> /\ errClosed = FALSE
    /\ ctxDone = FALSE
    /\ reader = "output" /\ finalState = FALSE /\ ret = "none"
    /\ failed = FALSE /\ accepted = <<>> /\ received = <<>>

-----------------------------------------------------------------------------
(* Engine.Run: the loop and its deferred calls, the last deferred first.   *)

\* emit drops the event when the channel is full.
emit(e) ==
    IF Len(eventCh) < EventCap
      THEN eventCh' = Append(eventCh, e) /\ accepted' = Append(accepted, e)
      ELSE UNCHANGED <<eventCh, accepted>>

\* The context is looked at between two supersteps, so that an event or two
\* may follow its end.
EmitValues ==
    /\ pc = "run" /\ step < MaxSteps
    /\ step' = step + 1
    /\ emit(step')
    /\ UNCHANGED <<pc, eventsClosed, fw, held, output, errors, ctxDone, caller,
                   readerVars, failed>>

EmitFinal ==
    /\ pc = "run"
    /\ emit(Final)
    /\ pc' = "close"
    /\ UNCHANGED <<step, eventsClosed, fw, held, output, errors, ctxDone,
                   caller, readerVars, failed>>

\* Mutant: a return without the error.
RunFails_Silent ==
    /\ pc = "run"
    /\ failed' = TRUE
    /\ pc' = "close"
    /\ UNCHANGED <<step, events, fw, held, output, errors, ctxDone, caller,
                   readerVars, accepted>>

\* The context or anything else ends the loop.
RunFails ==
    /\ pc = "run"
    /\ errCh' = Append(errCh, IF ctxDone THEN "ctx" ELSE "error")
    /\ failed' = TRUE
    /\ pc' = "close"
    /\ UNCHANGED <<step, events, fw, held, output, errClosed, ctxDone, caller,
                   readerVars, accepted>>

\* Mutant: the manager stays open.
CloseStream_Open ==
    /\ pc = "close"
    /\ pc' = "wait"
    /\ UNCHANGED <<step, events, fw, held, output, errors, ctxDone, caller,
                   readerVars, failed, accepted>>

CloseStream ==
    /\ pc = "close"
    /\ eventsClosed' = TRUE
    /\ pc' = "wait"
    /\ UNCHANGED <<step, eventCh, fw, held, output, errors, ctxDone, caller,
                   readerVars, failed, accepted>>

\* Mutant: Run does not wait for the forwarding goroutine.
CloseOutput_NoWait ==
    /\ pc = "wait"
    /\ outputClosed' = TRUE
    /\ pc' = "errors"
    /\ UNCHANGED <<step, events, fw, held, outputCh, errors, ctxDone, caller,
                   readerVars, failed, accepted>>

CloseOutput ==
    /\ pc = "wait" /\ fw = "done"
    /\ outputClosed' = TRUE
    /\ pc' = "errors"
    /\ UNCHANGED <<step, events, fw, held, outputCh, errors, ctxDone, caller,
                   readerVars, failed, accepted>>

CloseErr ==
    /\ pc = "errors"
    /\ errClosed' = TRUE
    /\ pc' = "ended"
    /\ UNCHANGED <<step, events, fw, held, output, errCh, ctxDone, caller,
                   readerVars, failed, accepted>>

Engine == EmitValues \/ EmitFinal \/ RunFails \/ CloseStream \/ CloseOutput
            \/ CloseErr

-----------------------------------------------------------------------------
(* The forwarding goroutine.                                               *)

ForwardReceive ==
    /\ fw = "range"
    /\ \/ /\ eventCh # <<>>
          /\ held' = Head(eventCh) /\ eventCh' = Tail(eventCh)
          /\ fw' = "send"
       \/ /\ eventCh = <<>> /\ eventsClosed
          /\ fw' = "done"
          /\ UNCHANGED <<held, eventCh>>
    /\ UNCHANGED <<pc, step, eventsClosed, output, errors, ctxDone, caller,
                   readerVars, failed, accepted>>

\* Mutant: an event is dropped when outputCh is full.
ForwardSend_Drops ==
    /\ fw = "send"
    /\ outputCh' = IF Len(outputCh) < OutputCap THEN Append(outputCh, held)
                                                ELSE outputCh
    /\ fw' = "range" /\ held' = Nothing
    /\ UNCHANGED <<pc, step, events, outputClosed, errors, ctxDone, caller,
                   readerVars, failed, accepted>>

\* The select: with both ready, either.
ForwardSend ==
    /\ fw = "send"
    /\ \/ /\ Len(outputCh) < OutputCap
          /\ outputCh' = Append(outputCh, held)
          /\ fw' = "range"
       \/ /\ ctxDone
          /\ fw' = "done"
          /\ UNCHANGED outputCh
    /\ held' = Nothing
    /\ UNCHANGED <<pc, step, events, outputClosed, errors, ctxDone, caller,
                   readerVars, failed, accepted>>

Forward == ForwardReceive \/ ForwardSend

-----------------------------------------------------------------------------
(* The caller.                                                             *)

Returns(r) == reader' = "returned" /\ ret' = r

\* What RunSync returns without an error: the final state, or nil.
State(f) == IF f THEN "state" ELSE "nil"

\* An event arrives.
Receive ==
    /\ reader = "output" /\ outputCh # <<>>
    /\ outputCh' = Tail(outputCh)
    /\ received' = Append(received, Head(outputCh))
    /\ finalState' = (finalState \/ Head(outputCh) = Final)
    /\ UNCHANGED <<pc, step, events, fw, held, outputClosed, errors, ctxDone,
                   caller, reader, ret, failed, accepted>>

OutputEnds ==
    /\ reader = "output" /\ outputCh = <<>> /\ outputClosed
    /\ \/ /\ caller = "drain"
          /\ reader' = "errors"
          /\ UNCHANGED ret
       \/ caller = "sync" /\ Returns(State(finalState))
    /\ UNCHANGED <<pc, step, events, fw, held, output, errors, ctxDone, caller,
                   finalState, received, failed, accepted>>

\* errCh has an error or is closed; RunSync looks at it at any time.
ReceiveErr ==
    /\ \/ reader = "errors"
       \/ reader = "output" /\ caller = "sync"
    /\ \/ /\ errCh # <<>>
          /\ errCh' = Tail(errCh)
          /\ Returns("error")
       \/ /\ errCh = <<>> /\ errClosed
          /\ Returns(State(finalState))
          /\ UNCHANGED errCh
    /\ UNCHANGED <<pc, step, events, fw, held, output, errClosed, ctxDone,
                   caller, finalState, received, failed, accepted>>

SyncCancelled ==
    /\ reader = "output" /\ caller = "sync" /\ ctxDone
    /\ Returns("error")
    /\ UNCHANGED <<pc, step, events, fw, held, output, errors, ctxDone, caller,
                   finalState, received, failed, accepted>>

Reader == Receive \/ OutputEnds \/ ReceiveErr \/ SyncCancelled

CancelCtx ==
    /\ CtxMayEnd /\ ~ctxDone /\ pc # "ended"
    /\ ctxDone' = TRUE
    /\ UNCHANGED <<pc, step, events, fw, held, output, errors, caller,
                   readerVars, failed, accepted>>

-----------------------------------------------------------------------------
Next == Engine \/ Forward \/ Reader \/ CancelCtx

\* The goroutines run and the caller goes on reading.
Fairness == WF_vars(Engine) /\ WF_vars(Forward) /\ WF_vars(Reader)

Spec == Init /\ [][Next]_vars /\ Fairness

-----------------------------------------------------------------------------
(* Properties.                                                             *)

\* The values the variables of the goroutines and channels range over.
TypeOK ==
    /\ pc \in {"run", "close", "wait", "errors", "ended"}
    /\ step \in 0 .. MaxSteps
    /\ eventCh \in Seq(Event) /\ Len(eventCh) <= EventCap
    /\ outputCh \in Seq(Event) /\ Len(outputCh) <= OutputCap
    /\ errCh \in Seq({"error", "ctx"}) /\ Len(errCh) <= 1
    /\ eventsClosed \in BOOLEAN /\ outputClosed \in BOOLEAN
    /\ errClosed \in BOOLEAN /\ ctxDone \in BOOLEAN /\ finalState \in BOOLEAN
    /\ fw \in {"range", "send", "done"}
    /\ held \in Event \cup {Nothing}
    /\ caller \in Callers
    /\ reader \in {"output", "errors", "returned"}
    /\ ret \in {"none", "state", "nil", "error"} /\ failed \in BOOLEAN
    /\ accepted \in Seq(Event) /\ received \in Seq(Event)

\* The forwarding goroutine never has an event to send when outputCh is
\* closed, which would panic: Run waits for it (fwWg).
NoSendOnClosed == outputClosed => fw # "send"

Held == IF held = Nothing THEN <<>> ELSE <<held>>

\* Unless the context is cancelled, the caller receives what the manager
\* took, in that order, nothing twice: what it has not received yet is still
\* on the way.  A caller that reads outputCh to its end has all of it.
StreamInOrder ==
    /\ ~ctxDone => received \o outputCh \o Held \o eventCh = accepted
    /\ outputClosed /\ outputCh = <<>> /\ ~ctxDone => received = accepted

\* A caller that reads outputCh to its end and then errCh learns whether the
\* execution failed, and RunSync returns a state only from one that did not.
OutcomeIsTrue ==
    /\ caller = "drain" /\ reader = "returned" => (ret = "error" <=> failed)
    /\ ret = "state" => ~failed

\* The caller is answered, and if it reads outputCh to its end all goroutines
\* of the execution end, a full outputCh or a cancelled context included: no
\* goroutine leaks, as Run says.
StreamEnds ==
    /\ <>(reader = "returned")
    /\ <>(caller = "drain" => pc = "ended" /\ fw = "done")

\* RunSync "returns the final state": without an error there is one.
RunSyncReturnsState ==
    caller = "sync" /\ reader = "returned" => ret # "nil"
=============================================================================
