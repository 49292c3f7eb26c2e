----------------------------- MODULE GraphStream -----------------------------
(***************************************************************************)
(* CompiledGraph.Stream (graphengine/graph/graph.go) and the server's      *)
(* handlers of streamed runs, which turn what it sends into events for the *)
(* client (handleStreamRun and handleStreamThreadRun, server/server.go).   *)
(* Both channels have room for one.  What the execution returns is         *)
(* external; the client may end the request's context at any time.         *)
(***************************************************************************)
EXTENDS Integers, Sequences

VARIABLES
    run,            \* the goroutine of Stream
    outcome,        \* what the execution returned
    outputs, outputsClosed,
    failures, failuresClosed,
    ctxEnded,
    written          \* the events written; "done" or a context's error is last

streamVars == <<run, outcome, outputs, outputsClosed, failures, failuresClosed,
                ctxEnded, written>>

StreamInit ==
    /\ run = "run" /\ outcome = "none"
    /\ outputs = <<>> /\ outputsClosed = FALSE
    /\ failures = <<>> /\ failuresClosed = FALSE
    /\ ctxEnded = FALSE
    /\ written = <<>>

-----------------------------------------------------------------------------
(* Stream.                                                                 *)

Invoke ==
    /\ run = "run"
    /\ outcome' \in {"result", "error"}
    /\ run' = "send"
    /\ UNCHANGED <<outputs, outputsClosed, failures, failuresClosed, ctxEnded,
                   written>>

\* Mutant: an error is sent if somebody waits for it.
Send_Drops ==
    /\ run = "send"
    /\ IF outcome = "result" THEN outputs' = <<"result">> ELSE UNCHANGED outputs
    /\ run' = "closeErr"
    /\ UNCHANGED <<outcome, failures, outputsClosed, failuresClosed, ctxEnded, written>>

\* The channel has room, so that the select has one ready case or, when the
\* context has ended, two.
Send ==
    /\ run = "send"
    /\ \/ /\ outcome = "result" /\ outputs' = <<"result">>
          /\ UNCHANGED failures
       \/ /\ outcome = "error" /\ failures' = <<"error">>
          /\ UNCHANGED outputs
       \/ ctxEnded /\ UNCHANGED <<outputs, failures>>
    /\ run' = "closeErr"
    /\ UNCHANGED <<outcome, outputsClosed, failuresClosed, ctxEnded, written>>

\* The deferred calls, the last one first.
CloseErrCh ==
    /\ run = "closeErr"
    /\ failuresClosed' = TRUE /\ run' = "closeOut"
    /\ UNCHANGED <<outcome, outputs, outputsClosed, failures, ctxEnded, written>>

CloseOutputCh ==
    /\ run = "closeOut"
    /\ outputsClosed' = TRUE /\ run' = "ended"
    /\ UNCHANGED <<outcome, outputs, failures, failuresClosed, ctxEnded, written>>

EndContext ==
    /\ ~ctxEnded /\ ctxEnded' = TRUE
    /\ UNCHANGED <<run, outcome, outputs, outputsClosed, failures,
                   failuresClosed, written>>

-----------------------------------------------------------------------------
(* The handler's select: any case that is ready.                           *)

Returned == written # <<>> /\ written[Len(written)] \in {"done", "ctx"}
Reads == ~Returned /\ UNCHANGED <<run, outcome, outputsClosed, failuresClosed,
                                  ctxEnded>>

ReceiveOutput ==
    /\ Reads /\ outputs # <<>>
    /\ outputs' = <<>>
    /\ written' = Append(written, "data")
    /\ UNCHANGED failures

\* outputCh is closed: an error that is there already comes before "done".
OutputClosed ==
    /\ Reads /\ outputs = <<>> /\ outputsClosed
    /\ failures' = <<>>
    /\ written' = written \o failures \o <<"done">>
    /\ UNCHANGED outputs

\* An error, or nil once errCh is closed.
ReceiveError ==
    /\ Reads /\ (failures # <<>> \/ failuresClosed)
    /\ failures' = <<>>
    /\ written' = written \o failures \o <<"done">>
    /\ UNCHANGED outputs

ContextEnded ==
    /\ Reads /\ ctxEnded
    /\ written' = Append(written, "ctx")
    /\ UNCHANGED <<outputs, failures>>

StreamNext ==
    \/ Invoke \/ Send \/ CloseErrCh \/ CloseOutputCh \/ EndContext
    \/ ReceiveOutput \/ OutputClosed \/ ReceiveError \/ ContextEnded

-----------------------------------------------------------------------------
(* Properties.                                                             *)

\* Whichever ready case the selects take: a client whose request has not ended
\* is told of a failure before "done", "done" comes when the execution is over
\* and is the last event, and the result is not announced after an error.
FailureBeforeDone ==
    Returned =>
        /\ outcome = "error" /\ ~ctxEnded => written = <<"error", "done">>
        /\ written[Len(written)] = "done" => outcome # "none"
        /\ \A i \in 1 .. Len(written) - 1 : written[i] \notin {"done", "ctx"}
        /\ \A i \in 1 .. Len(written) : written[i] = "data" => written[1] = "data"
==============================================================================
