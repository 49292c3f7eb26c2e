---------------------------- MODULE AgentsProofs ----------------------------
(***************************************************************************)
(* Proofs about what MCAgents puts together, for all values of the         *)
(* constants.  RunStream: no send on a closed channel, a stream without    *)
(* losses or changes of order, and an outcome that is never turned round.  *)
(* The composition with the model's calls.  CancelRequest: merging the     *)
(* requests of callers weakens none of them and invents nothing.           *)
(***************************************************************************)
EXTENDS MCAgents, SequenceTheorems, TLAPS

\* Appending to a sequence and taking its head, as the channels of Run do.
LEMMA SeqOps ==
    ASSUME NEW S, NEW s \in Seq(S), NEW e \in S
    PROVE  /\ Append(s, e) \in Seq(S) /\ Len(Append(s, e)) = Len(s) + 1
           /\ Append(s, e) = s \o <<e>>
           /\ s # <<>> => /\ Head(s) \in S /\ Tail(s) \in Seq(S)
                          /\ Len(Tail(s)) = Len(s) - 1 /\ Len(s) > 0
                          /\ s = <<Head(s)>> \o Tail(s)
  OBVIOUS

-----------------------------------------------------------------------------
(* Types.  errCh has room for the one error because the loop that sends it *)
(* has sent none before, and an event is held while it is being sent.      *)

TypeInv ==
    /\ TypeOK
    /\ pc = "run" => errCh = <<>>
    /\ held # Nothing <=> fw = "send"

\* The numbers of events.
LEMMA Events ==
    /\ Final \in Event /\ Nothing \notin Event
    /\ \A k \in 0 .. MaxSteps : k \in Event
  BY StreamAssumption DEF Event, Final, Nothing, StreamAssumption

\* emit keeps the manager's channel within its capacity.
LEMMA EmitType ==
    ASSUME TypeOK, NEW e \in Event, emit(e)
    PROVE  /\ eventCh' \in Seq(Event) /\ Len(eventCh') <= EventCap
           /\ accepted' \in Seq(Event)
<1>1. eventCh \in Seq(Event) /\ accepted \in Seq(Event) /\ EventCap \in Nat
  BY StreamAssumption DEF TypeOK, StreamAssumption
<1>2. CASE Len(eventCh) < EventCap
  <2>1. eventCh' = Append(eventCh, e) /\ accepted' = Append(accepted, e)
    BY <1>2 DEF emit
  <2>2. Len(eventCh) + 1 <= EventCap
    BY <1>1, <1>2, LenProperties
  <2> QED BY <1>1, <2>1, <2>2, SeqOps
<1>3. CASE ~(Len(eventCh) < EventCap)
  BY <1>3 DEF emit, TypeOK
<1> QED BY <1>2, <1>3

\* Every step of the engine, of the forwarding goroutine and of the caller
\* preserves the types.
LEMMA TypeNext ==
    ASSUME TypeInv, [Next]_vars
    PROVE  TypeInv'
<1> USE DEF TypeInv, TypeOK
<1>0. TypeOK
  OBVIOUS
<1>1. CASE EmitValues
  <2>1. step' \in 0 .. MaxSteps
    BY <1>1, StreamAssumption DEF EmitValues, StreamAssumption
  <2>2. /\ eventCh' \in Seq(Event) /\ Len(eventCh') <= EventCap
        /\ accepted' \in Seq(Event)
    <3>1. step' \in Event /\ emit(step')
      BY <1>1, <2>1, Events DEF EmitValues
    <3> QED BY <1>0, <3>1, EmitType
  <2> QED BY <1>1, <2>1, <2>2 DEF EmitValues, output, errors, readerVars
<1>2. CASE EmitFinal
  <2>1. /\ eventCh' \in Seq(Event) /\ Len(eventCh') <= EventCap
        /\ accepted' \in Seq(Event)
    <3>1. emit(Final)
      BY <1>2 DEF EmitFinal
    <3> QED BY <1>0, <3>1, Events, EmitType
  <2> QED BY <1>2, <2>1 DEF EmitFinal, output, errors, readerVars
<1>3. CASE RunFails
  <2>1. PICK x \in {"error", "ctx"} : errCh' = Append(errCh, x)
    BY <1>3 DEF RunFails
  <2>2. errCh = <<>> /\ Append(<<>>, x) = <<x>>
    BY <1>3 DEF RunFails
  <2>3. errCh' \in Seq({"error", "ctx"}) /\ Len(errCh') <= 1
    BY <2>1, <2>2
  <2> QED BY <1>3, <2>3 DEF RunFails, events, output, readerVars
<1>4. CASE CloseStream \/ CloseOutput \/ CloseErr
  <2>1. CASE CloseStream
    BY <2>1 DEF CloseStream, output, errors, readerVars
  <2>2. CASE CloseOutput
    BY <2>2 DEF CloseOutput, events, errors, readerVars
  <2>3. CASE CloseErr
    BY <2>3 DEF CloseErr, events, output, readerVars
  <2> QED BY <1>4, <2>1, <2>2, <2>3
<1>5. CASE ForwardReceive
  <2>1. CASE eventCh # <<>> /\ held' = Head(eventCh) /\ eventCh' = Tail(eventCh)
              /\ fw' = "send"
    <3>1. /\ Head(eventCh) \in Event /\ Tail(eventCh) \in Seq(Event)
          /\ Len(Tail(eventCh)) = Len(eventCh) - 1
      BY <2>1, Events, SeqOps
    <3>2. Len(eventCh') <= EventCap
      BY <2>1, <3>1, LenProperties, StreamAssumption DEF StreamAssumption
    <3> QED
      BY <1>5, <2>1, <3>1, <3>2, Events
        DEF ForwardReceive, output, errors, readerVars
  <2>2. CASE UNCHANGED <<held, eventCh>> /\ fw' = "done"
    BY <1>5, <2>2 DEF ForwardReceive, output, errors, readerVars
  <2> QED BY <1>5, <2>1, <2>2 DEF ForwardReceive
<1>6. CASE ForwardSend
  <2>1. CASE Len(outputCh) < OutputCap /\ outputCh' = Append(outputCh, held)
              /\ fw' = "range"
    <3>1. outputCh' \in Seq(Event) /\ Len(outputCh') = Len(outputCh) + 1
      BY <1>6, <2>1, SeqOps DEF ForwardSend
    <3>2. Len(outputCh') <= OutputCap
      BY <2>1, <3>1, LenProperties, StreamAssumption DEF StreamAssumption
    <3> QED
      BY <1>6, <2>1, <3>1, <3>2 DEF ForwardSend, events, errors, readerVars
  <2>2. CASE UNCHANGED outputCh /\ fw' = "done"
    BY <1>6, <2>2 DEF ForwardSend, events, errors, readerVars
  <2> QED BY <1>6, <2>1, <2>2 DEF ForwardSend
<1>7. CASE Receive
  <2>1. /\ Head(outputCh) \in Event /\ Tail(outputCh) \in Seq(Event)
        /\ Len(Tail(outputCh)) = Len(outputCh) - 1
    BY <1>7, Events, SeqOps DEF Receive
  <2>2. received' \in Seq(Event)
    BY <1>7, <2>1, SeqOps DEF Receive
  <2>3. Len(outputCh') <= OutputCap
    BY <1>7, <2>1, LenProperties, StreamAssumption DEF Receive, StreamAssumption
  <2> QED BY <1>7, <2>1, <2>2, <2>3 DEF Receive, events, errors
<1>8. CASE OutputEnds \/ SyncCancelled
  BY <1>8 DEF OutputEnds, SyncCancelled, Returns, State, events, output, errors
<1>9. CASE ReceiveErr
  <2>1. errCh' \in Seq({"error", "ctx"}) /\ Len(errCh') <= 1
           /\ (pc = "run" => errCh' = <<>>)
    BY <1>9 DEF ReceiveErr
  <2> QED BY <1>9, <2>1 DEF ReceiveErr, Returns, State, events, output
<1>10. CASE CancelCtx
  BY <1>10 DEF CancelCtx, events, output, errors, readerVars
<1>11. CASE UNCHANGED vars
  BY <1>11 DEF vars, events, output, errors, readerVars
<1> QED BY <1>1, <1>2, <1>3, <1>4, <1>5, <1>6, <1>7, <1>8, <1>9, <1>10, <1>11
        DEF Next, Engine, Forward, Reader

\* The initial types.
LEMMA TypeInit == Init => TypeInv
<1> SUFFICES ASSUME Init
             PROVE  TypeInv
  OBVIOUS
<1>1. /\ eventCh \in Seq(Event) /\ Len(eventCh) = 0
      /\ outputCh \in Seq(Event) /\ Len(outputCh) = 0
      /\ errCh \in Seq({"error", "ctx"}) /\ Len(errCh) = 0
      /\ accepted \in Seq(Event) /\ received \in Seq(Event)
  BY DEF Init
<1>2. step \in 0 .. MaxSteps /\ 0 <= EventCap /\ 0 <= OutputCap
  BY StreamAssumption DEF Init, StreamAssumption
<1>3. /\ pc = "run" /\ fw = "range" /\ held = Nothing /\ errCh = <<>>
      /\ eventsClosed = FALSE /\ outputClosed = FALSE /\ errClosed = FALSE
      /\ ctxDone = FALSE /\ finalState = FALSE /\ failed = FALSE
      /\ caller \in Callers /\ reader = "output" /\ ret = "none"
  BY DEF Init
<1>4. Len(eventCh) <= EventCap /\ Len(outputCh) <= OutputCap /\ Len(errCh) <= 1
  BY <1>1, <1>2
<1>5. TypeOK
  BY <1>1, <1>2, <1>3, <1>4, Zenon DEF TypeOK
<1> QED BY <1>3, <1>5 DEF TypeInv

\* The state of an execution's goroutines and channels is well typed; no
\* channel holds more than its capacity, and errCh has at most one error.
THEOREM TypeCorrect == Spec => []TypeOK
<1>1. Init => TypeInv
  BY TypeInit
<1>2. TypeInv /\ [Next]_vars => TypeInv'
  BY TypeNext
<1>3. TypeInv => TypeOK
  BY DEF TypeInv
<1> QED BY <1>1, <1>2, <1>3, PTL DEF Spec

-----------------------------------------------------------------------------
(* The order of the clean-up: the manager is closed, the forwarding        *)
(* goroutine ends, outputCh is closed.  Only a cancelled context lets the  *)
(* goroutine end before it has seen the end of the events.                 *)

CloseInv ==
    /\ outputClosed => fw = "done" /\ pc \in {"errors", "ended"}
    /\ eventsClosed <=> pc \in {"wait", "errors", "ended"}
    /\ fw = "done" /\ ~ctxDone => eventCh = <<>> /\ eventsClosed

\* Every step keeps the order of the clean-up.
LEMMA CloseNext ==
    ASSUME TypeInv, CloseInv, [Next]_vars
    PROVE  CloseInv'
<1> USE DEF CloseInv
<1>1. CASE EmitValues
  BY <1>1 DEF EmitValues, output
<1>2. CASE EmitFinal
  BY <1>2 DEF EmitFinal, output
<1>3. CASE RunFails
  BY <1>3 DEF RunFails, output, events
<1>4. CASE CloseStream
  BY <1>4 DEF CloseStream, output
<1>5. CASE CloseOutput
  BY <1>5 DEF CloseOutput, events
<1>6. CASE CloseErr
  BY <1>6 DEF CloseErr, events, output
<1>7. CASE ForwardReceive
  BY <1>7 DEF ForwardReceive, output
<1>8. CASE ForwardSend
  BY <1>8 DEF ForwardSend, events
<1>9. CASE Reader
  BY <1>9 DEF Reader, Receive, OutputEnds, ReceiveErr, SyncCancelled, events,
              output
<1>10. CASE CancelCtx
  BY <1>10 DEF CancelCtx, events, output
<1>11. CASE UNCHANGED vars
  BY <1>11 DEF vars, events, output
<1> QED BY <1>1, <1>2, <1>3, <1>4, <1>5, <1>6, <1>7, <1>8, <1>9, <1>10, <1>11
        DEF Next, Engine, Forward

\* Run closes outputCh only after the goroutine that sends on it has ended,
\* so that no send panics.
THEOREM ForwardNeverPanics == Spec => []NoSendOnClosed
<1>1. Init => TypeInv /\ CloseInv
  BY TypeInit DEF Init, CloseInv
<1>2. TypeInv /\ CloseInv /\ [Next]_vars => (TypeInv /\ CloseInv)'
  BY TypeNext, CloseNext
<1>3. CloseInv => NoSendOnClosed
  BY DEF CloseInv, NoSendOnClosed
<1> QED BY <1>1, <1>2, <1>3, PTL DEF Spec

-----------------------------------------------------------------------------
(* The outcome.  An execution that runs or has failed has not emitted the  *)
(* final event, and a failure is in errCh until somebody returns it.       *)

Earlier == Event \ {Final}

NoFinal ==
    /\ ~finalState /\ held # Final
    /\ eventCh \in Seq(Earlier) /\ outputCh \in Seq(Earlier)

OutcomeInv ==
    /\ pc = "run" => ~failed
    /\ pc = "run" \/ failed => NoFinal
    /\ errCh # <<>> => failed
    /\ failed /\ reader # "returned" => errCh # <<>>
    /\ ret = "state" => finalState
    /\ caller = "drain" /\ reader # "output" => outputClosed
    /\ caller = "drain" /\ reader = "returned" => (ret = "error" <=> failed)

\* Every step keeps the outcome true.
LEMMA OutcomeNext ==
    ASSUME TypeInv, CloseInv, OutcomeInv, [Next]_vars
    PROVE  OutcomeInv'
<1> USE DEF OutcomeInv
<1>1. CASE EmitValues
  <2>1. pc = "run" /\ ~failed /\ NoFinal /\ emit(step')
    BY <1>1 DEF EmitValues
  <2>2. step' \in Earlier
    BY <1>1, StreamAssumption
    DEF EmitValues, TypeInv, TypeOK, StreamAssumption, Earlier, Event, Final
  <2>3. eventCh' \in Seq(Earlier)
    BY <2>1, <2>2, SeqOps DEF emit, NoFinal
  <2>4. NoFinal'
    BY <1>1, <2>1, <2>3 DEF EmitValues, NoFinal, output, readerVars
  <2> QED BY <1>1, <2>4 DEF EmitValues, output, errors, readerVars
<1>2. CASE EmitFinal
  BY <1>2 DEF EmitFinal, output, errors, readerVars
<1>3. CASE RunFails
  <2>1. errCh' # <<>>
    BY <1>3 DEF RunFails, TypeInv, TypeOK
  <2>2. NoFinal'
    BY <1>3 DEF RunFails, NoFinal, events, output, readerVars
  <2>3. ~outputClosed
    BY <1>3 DEF RunFails, CloseInv
  <2> QED BY <1>3, <2>1, <2>2, <2>3 DEF RunFails, output, readerVars
<1>4. CASE CloseStream
  BY <1>4 DEF CloseStream, NoFinal, output, errors, readerVars
<1>5. CASE CloseOutput
  BY <1>5 DEF CloseOutput, NoFinal, events, errors, readerVars
<1>6. CASE CloseErr
  BY <1>6 DEF CloseErr, NoFinal, events, output, readerVars
<1>7. CASE ForwardReceive
  <2>1. NoFinal => NoFinal'
    <3> SUFFICES ASSUME NoFinal
                 PROVE  NoFinal'
      OBVIOUS
    <3>1. CASE eventCh # <<>> /\ held' = Head(eventCh)
                /\ eventCh' = Tail(eventCh)
      <4>1. Head(eventCh) \in Earlier /\ Tail(eventCh) \in Seq(Earlier)
        BY <3>1 DEF NoFinal
      <4> QED BY <1>7, <3>1, <4>1
              DEF ForwardReceive, NoFinal, Earlier, output, readerVars
    <3>2. CASE UNCHANGED <<held, eventCh>>
      BY <1>7, <3>2 DEF ForwardReceive, NoFinal, output, readerVars
    <3> QED BY <1>7, <3>1, <3>2 DEF ForwardReceive
  <2> QED BY <1>7, <2>1 DEF ForwardReceive, output, errors, readerVars
<1>8. CASE ForwardSend
  <2>1. NoFinal => NoFinal'
    <3> SUFFICES ASSUME NoFinal
                 PROVE  NoFinal'
      OBVIOUS
    <3>1. held \in Earlier /\ held' # Final
      BY <1>8, Events
      DEF ForwardSend, NoFinal, TypeInv, TypeOK, Earlier, Nothing, Final
    <3>2. outputCh' \in Seq(Earlier)
      BY <1>8, <3>1, SeqOps DEF ForwardSend, NoFinal
    <3> QED BY <1>8, <3>1, <3>2 DEF ForwardSend, NoFinal, events, readerVars
  <2> QED BY <1>8, <2>1 DEF ForwardSend, errors, readerVars
<1>9. CASE Receive
  <2>1. NoFinal => NoFinal'
    <3> SUFFICES ASSUME NoFinal
                 PROVE  NoFinal'
      OBVIOUS
    <3>1. Head(outputCh) \in Earlier /\ Tail(outputCh) \in Seq(Earlier)
      BY <1>9 DEF Receive, NoFinal
    <3> QED BY <1>9, <3>1 DEF Receive, NoFinal, Earlier, events
  <2> QED BY <1>9, <2>1 DEF Receive, errors
<1>10. CASE OutputEnds
  BY <1>10 DEF OutputEnds, Returns, State, NoFinal, events, output, errors
<1>11. CASE ReceiveErr
  <2>1. NoFinal => NoFinal'
    BY <1>11 DEF ReceiveErr, NoFinal, events, output
  <2>2. CASE errCh # <<>> /\ errCh' = Tail(errCh) /\ Returns("error")
    <3>1. errCh' = <<>>
      BY <2>2 DEF TypeInv, TypeOK
    <3> QED BY <1>11, <2>1, <2>2, <3>1 DEF ReceiveErr, Returns, output
  <2>3. CASE errCh = <<>> /\ Returns(State(finalState)) /\ UNCHANGED errCh
    BY <1>11, <2>1, <2>3 DEF ReceiveErr, Returns, State, output
  <2> QED BY <1>11, <2>2, <2>3 DEF ReceiveErr
<1>12. CASE SyncCancelled
  BY <1>12 DEF SyncCancelled, Returns, NoFinal, events, output, errors
<1>13. CASE CancelCtx
  BY <1>13 DEF CancelCtx, NoFinal, events, output, errors, readerVars
<1>14. CASE UNCHANGED vars
  BY <1>14 DEF vars, NoFinal, events, output, errors, readerVars
<1> QED BY <1>1, <1>2, <1>3, <1>4, <1>5, <1>6, <1>7, <1>8, <1>9, <1>10, <1>11,
           <1>12, <1>13, <1>14
        DEF Next, Engine, Forward, Reader

\* Whoever reads outputCh to its end and then errCh gets an error exactly if
\* the execution failed, and RunSync never returns a state from one that did.
THEOREM OutcomeIsNeverTurned == Spec => []OutcomeIsTrue
<1>1. Init => TypeInv /\ CloseInv /\ OutcomeInv
  BY TypeInit DEF Init, CloseInv, OutcomeInv, NoFinal, Final, Nothing
<1>2. TypeInv /\ CloseInv /\ OutcomeInv /\ [Next]_vars
        => (TypeInv /\ CloseInv /\ OutcomeInv)'
  BY TypeNext, CloseNext, OutcomeNext
<1>3. OutcomeInv => OutcomeIsTrue
  BY DEF OutcomeInv, OutcomeIsTrue, NoFinal
<1> QED BY <1>1, <1>2, <1>3, PTL DEF Spec

-----------------------------------------------------------------------------
(* The stream.                                                             *)

InTransit == received \o outputCh \o Held \o eventCh

TransitInv == ~ctxDone => InTransit = accepted

\* How sequences of events are put together.
LEMMA Concat ==
    ASSUME NEW s \in Seq(Event), NEW t \in Seq(Event), NEW u \in Seq(Event)
    PROVE  /\ s \o t \in Seq(Event)
           /\ (s \o t) \o u = s \o (t \o u)
           /\ s \o <<>> = s /\ <<>> \o s = s
<1>1. (s \o t) \o u = s \o (t \o u)
  BY ConcatAssociative
<1>2. s \o <<>> = s /\ <<>> \o s = s
  BY ConcatEmptySeq
<1>3. s \o t \in Seq(Event)
  OBVIOUS
<1> QED BY <1>1, <1>2, <1>3

\* The four parts of the stream are sequences of events.
LEMMA Parts ==
    ASSUME TypeOK
    PROVE  /\ received \in Seq(Event) /\ outputCh \in Seq(Event)
           /\ Held \in Seq(Event) /\ eventCh \in Seq(Event)
           /\ accepted \in Seq(Event)
<1>1. held \in Event => <<held>> \in Seq(Event)
  OBVIOUS
<1>2. <<>> \in Seq(Event)
  OBVIOUS
<1> QED BY <1>1, <1>2 DEF TypeOK, Held

\* An event that the manager takes is behind all others.
LEMMA EmitInTransit ==
    ASSUME TypeInv, TransitInv, NEW e \in Event, emit(e),
           UNCHANGED <<received, outputCh, held, ctxDone>>
    PROVE  TransitInv'
<1>1. TypeOK
  BY DEF TypeInv
<1>2. Held' = Held
  BY DEF Held
<1>3. CASE Len(eventCh) < EventCap
  <2> DEFINE p == received \o outputCh \o Held
  <2>1. eventCh \in Seq(Event) /\ accepted \in Seq(Event) /\ p \in Seq(Event)
    <3>1. /\ received \in Seq(Event) /\ outputCh \in Seq(Event)
          /\ Held \in Seq(Event) /\ eventCh \in Seq(Event)
          /\ accepted \in Seq(Event)
      BY <1>1, Parts
    <3>2. received \o outputCh \in Seq(Event)
      BY <3>1, Concat
    <3> QED BY <3>1, <3>2, Concat
  <2>2. <<e>> \in Seq(Event)
    OBVIOUS
  <2>3. eventCh' = eventCh \o <<e>> /\ accepted' = accepted \o <<e>>
    <3>1. eventCh' = Append(eventCh, e) /\ accepted' = Append(accepted, e)
      BY <1>3 DEF emit
    <3> QED BY <2>1, <3>1, SeqOps
  <2>4. InTransit' = p \o (eventCh \o <<e>>)
    BY <1>2, <2>3 DEF InTransit
  <2>5. ~ctxDone => p \o eventCh = accepted
    BY DEF TransitInv, InTransit
  <2> HIDE DEF p
  <2>6. p \o (eventCh \o <<e>>) = (p \o eventCh) \o <<e>>
    BY <2>1, <2>2, Concat
  <2> QED BY <2>3, <2>4, <2>5, <2>6 DEF TransitInv
<1>4. CASE ~(Len(eventCh) < EventCap)
  BY <1>2, <1>4 DEF emit, TransitInv, InTransit
<1> QED BY <1>3, <1>4

\* The engine's, the forwarding goroutine's and the caller's steps pass the
\* events on in their order.
LEMMA TransitNext ==
    ASSUME TypeInv, TransitInv, [Next]_vars
    PROVE  TransitInv'
<1>0. TypeOK
  BY DEF TypeInv
<1>1. CASE EmitValues
  <2>1. step' \in Event
    BY <1>1, StreamAssumption
    DEF EmitValues, TypeInv, TypeOK, StreamAssumption, Event, Final
  <2> QED BY <1>1, <2>1, EmitInTransit DEF EmitValues, output, readerVars
<1>2. CASE EmitFinal
  BY <1>2, Events, EmitInTransit DEF EmitFinal, output, readerVars
<1>3. CASE UNCHANGED <<received, outputCh, held, eventCh, accepted>>
            /\ (ctxDone => ctxDone')
  BY <1>3 DEF TransitInv, InTransit, Held
<1>4. CASE RunFails \/ CloseStream \/ CloseOutput \/ CloseErr
  <2>1. UNCHANGED <<received, outputCh, held, eventCh, accepted, ctxDone>>
    BY <1>4 DEF RunFails, CloseStream, CloseOutput, CloseErr, events, output,
                readerVars
  <2> QED BY <1>3, <2>1
<1>5. CASE ForwardReceive
  <2>1. CASE eventCh # <<>> /\ held' = Head(eventCh) /\ eventCh' = Tail(eventCh)
              /\ fw' = "send"
    <3> DEFINE p == received \o outputCh
    <3>1. /\ Head(eventCh) \in Event /\ Tail(eventCh) \in Seq(Event)
          /\ eventCh = <<Head(eventCh)>> \o Tail(eventCh)
      BY <1>0, <2>1, Parts, Events, SeqOps
    <3>2. <<Head(eventCh)>> \in Seq(Event)
      BY <3>1
    <3>3. Held = <<>>
      BY <1>5 DEF ForwardReceive, TypeInv, Held
    <3>4. Held' = <<Head(eventCh)>>
      BY <2>1, <3>1, Events DEF Held
    <3>5. p \in Seq(Event)
      BY <1>0, Parts, Concat
    <3>6. InTransit' = (p \o <<Head(eventCh)>>) \o Tail(eventCh)
      BY <1>5, <2>1, <3>4 DEF InTransit, ForwardReceive, output, readerVars
    <3>7. (p \o <<Head(eventCh)>>) \o Tail(eventCh) = p \o eventCh
      BY <3>1, <3>2, <3>5, Concat, SMTT(20)
    <3>8. InTransit = p \o eventCh
      BY <3>3, <3>5, Concat DEF InTransit
    <3> QED BY <1>5, <3>6, <3>7, <3>8 DEF TransitInv, ForwardReceive
  <2>2. CASE UNCHANGED <<held, eventCh>>
    BY <1>3, <1>5, <2>2 DEF ForwardReceive, output, readerVars
  <2> QED BY <1>5, <2>1, <2>2 DEF ForwardReceive
<1>6. CASE ForwardSend
  <2>1. CASE outputCh' = Append(outputCh, held)
    <3>1. held \in Event /\ Held = <<held>>
      BY <1>6 DEF ForwardSend, TypeInv, TypeOK, Held
    <3>2. <<held>> \in Seq(Event)
      BY <3>1
    <3>3. outputCh' = outputCh \o <<held>>
      BY <1>0, <2>1, <3>1, Parts, SeqOps
    <3>4. Held' = <<>>
      BY <1>6 DEF ForwardSend, Held
    <3>5. InTransit' = ((received \o (outputCh \o <<held>>)) \o <<>>) \o eventCh
      BY <1>6, <3>3, <3>4 DEF InTransit, ForwardSend, events, readerVars
    <3>6. /\ received \o (outputCh \o <<held>>) \in Seq(Event)
          /\ received \o (outputCh \o <<held>>)
                = (received \o outputCh) \o <<held>>
      BY <1>0, <3>2, Parts, Concat
    <3>7. InTransit' = ((received \o outputCh) \o <<held>>) \o eventCh
      BY <3>5, <3>6, Concat
    <3> QED BY <1>6, <3>1, <3>7 DEF TransitInv, InTransit, ForwardSend
  <2>2. CASE ctxDone
    BY <1>6, <2>2 DEF ForwardSend, TransitInv
  <2> QED BY <1>6, <2>1, <2>2 DEF ForwardSend
<1>7. CASE Receive
  <2>1. /\ Head(outputCh) \in Event /\ Tail(outputCh) \in Seq(Event)
        /\ outputCh = <<Head(outputCh)>> \o Tail(outputCh)
    BY <1>0, <1>7, Parts, Events, SeqOps DEF Receive
  <2>2. received' = received \o <<Head(outputCh)>>
    BY <1>0, <1>7, <2>1, Parts, SeqOps DEF Receive
  <2>3. <<Head(outputCh)>> \in Seq(Event) /\ received \in Seq(Event)
    BY <1>0, <2>1, Parts
  <2>4. received' \o outputCh' = received \o outputCh
    <3>1. outputCh' = Tail(outputCh)
      BY <1>7 DEF Receive
    <3>2. (received \o <<Head(outputCh)>>) \o Tail(outputCh)
             = received \o (<<Head(outputCh)>> \o Tail(outputCh))
      BY <2>1, <2>3, Concat
    <3> QED BY <2>1, <2>2, <3>1, <3>2
  <2> QED BY <1>7, <2>4 DEF TransitInv, InTransit, Held, Receive, events
<1>8. CASE OutputEnds \/ ReceiveErr \/ SyncCancelled
  <2>1. UNCHANGED <<received, outputCh, held, eventCh, accepted, ctxDone>>
    BY <1>8 DEF OutputEnds, ReceiveErr, SyncCancelled, events, output
  <2> QED BY <1>3, <2>1
<1>9. CASE CancelCtx
  BY <1>3, <1>9 DEF CancelCtx, events, output, readerVars
<1>10. CASE UNCHANGED vars
  BY <1>3, <1>10 DEF vars, events, output, readerVars
<1> QED BY <1>1, <1>2, <1>4, <1>5, <1>6, <1>7, <1>8, <1>9, <1>10
        DEF Next, Engine, Forward, Reader

\* Without a cancelled context the caller receives exactly the events the
\* manager took, in that order, and all of them when outputCh has ended.
THEOREM StreamKeepsOrder == Spec => []StreamInOrder
<1> DEFINE IInv == TypeInv /\ CloseInv /\ TransitInv
<1>1. Init => IInv
  <2>1. Init => CloseInv
    BY DEF Init, CloseInv
  <2>2. Init => TransitInv
    <3>1. <<>> \in Seq(Event)
      OBVIOUS
    <3> QED BY <3>1, Concat DEF Init, TransitInv, InTransit, Held
  <2> QED BY <2>1, <2>2, TypeInit
<1>2. IInv /\ [Next]_vars => IInv'
  BY TypeNext, CloseNext, TransitNext
<1>3. IInv => StreamInOrder
  <2> SUFFICES ASSUME IInv
               PROVE  StreamInOrder
    OBVIOUS
  <2>1. ASSUME outputClosed, outputCh = <<>>, ~ctxDone
        PROVE  received = accepted
    <3>1. eventCh = <<>> /\ Held = <<>>
      BY <2>1 DEF CloseInv, TypeInv, Held
    <3>2. received \in Seq(Event)
      BY Parts DEF TypeInv
    <3> QED BY <2>1, <3>1, <3>2, Concat DEF TransitInv, InTransit
  <2> QED BY <2>1 DEF StreamInOrder, TransitInv, InTransit
<1> QED BY <1>1, <1>2, <1>3, PTL DEF Spec

-----------------------------------------------------------------------------
(* The model's calls.  A behaviour of MCSpec is one of one component: the  *)
(* proofs of ModelCalls are those of its two parts.                        *)

\* A call of the model, and a stream with its copy, each by itself.
ModelCallsInv ==
    /\ part = "model" => Mc!ChainInv
    /\ part = "pipe" => Mc!PipeInv

LEMMA ModelCallsInit == MCInit => ModelCallsInv
<1>1. Mc!ChainInit => Mc!ChainInv
  BY ModelCallsAssumption, Mc!ChainInvInit
<1>2. Mc!PipeInit => Mc!PipeInv
  BY ModelCallsAssumption, Mc!PipeInvInit
<1> QED BY <1>1, <1>2 DEF MCInit, ModelCallsInv

\* The steps of the other components leave both alone.
LEMMA ModelCallsNext ==
    ASSUME ModelCallsInv, MCNext \/ UNCHANGED allVars
    PROVE  ModelCallsInv'
<1>1. part' = part
  BY DEF MCNext, Stream, Request, ReAct, WorkflowAgent, Flow, ModelCall, Pipe,
         Summary, allVars
<1>2. part = "model" => Mc!ChainNext \/ UNCHANGED Mc!chainVars
  BY DEF MCNext, Stream, Request, ReAct, WorkflowAgent, Flow, ModelCall, Pipe,
         Summary, allVars, agentVars, Mc!chainVars
<1>3. part = "pipe" => Mc!PipeNext \/ UNCHANGED Mc!pipeVars
  BY DEF MCNext, Stream, Request, ReAct, WorkflowAgent, Flow, ModelCall, Pipe,
         Summary, allVars, agentVars, Mc!pipeVars
<1>4. part = "model" => Mc!ChainInv'
  BY <1>2, ModelCallsAssumption, Mc!ChainInvNext DEF ModelCallsInv
<1>5. part = "pipe" => Mc!PipeInv'
  BY <1>3, ModelCallsAssumption, Mc!PipeInvNext DEF ModelCallsInv
<1> QED BY <1>1, <1>4, <1>5 DEF ModelCallsInv

\* Whatever the retries, the models, the chunks and the capacity of a stream:
\* a call returns what the last call of a model brought, no other answer is
\* sent, an agent sends the returned one once, and the copies of a stream are
\* whole.
THEOREM ModelCallsAreSound == MCSpec => []ModelCallsSound
<1>1. ModelCallsInv => ModelCallsSound
  BY ModelCallsAssumption, Mc!ChainInvSound, Mc!PipeInvSound
     DEF ModelCallsInv, ModelCallsSound
<1> QED BY <1>1, ModelCallsInit, ModelCallsNext, PTL DEF MCSpec

ToolCallsInv == part = "react" => Ra!ReactInv

\* Whatever the tools of a ReAct agent, what its model calls and its limits:
\* every call is answered in its place before the model is asked again, tools
\* that write run alone, and no limit is exceeded.
THEOREM ToolCallsAreSound == MCSpec => []ToolCallsSound
<1>1. MCInit => ToolCallsInv
  <2>1. Ra!ReactInit => Ra!ReactInv BY ReactAssumption, Ra!ReactInvInit
  <2> QED BY <2>1 DEF MCInit, ToolCallsInv
<1>2. ToolCallsInv /\ [MCNext]_allVars => ToolCallsInv'
  <2> SUFFICES ASSUME ToolCallsInv, MCNext \/ UNCHANGED allVars PROVE ToolCallsInv'
    OBVIOUS
  <2>1. part' = part
    BY DEF MCNext, Stream, Request, ReAct, WorkflowAgent, Flow, ModelCall, Pipe,
           Summary, allVars
  <2>2. part = "react" => Ra!ReactNext \/ UNCHANGED Ra!reactVars
    BY DEF MCNext, Stream, Request, ReAct, WorkflowAgent, Flow, ModelCall, Pipe,
           Summary, allVars, agentVars, Ra!reactVars
  <2>3. part = "react" => Ra!ReactInv'
    BY <2>2, ReactAssumption, Ra!ReactInvNext DEF ToolCallsInv
  <2> QED BY <2>1, <2>3 DEF ToolCallsInv
<1>3. ToolCallsInv => ToolCallsSound
  BY ReactAssumption, Ra!ReactInvSound DEF ToolCallsInv, ToolCallsSound
<1> QED BY <1>1, <1>2, <1>3, PTL DEF MCSpec

-----------------------------------------------------------------------------
(***************************************************************************)
(* That merging cancel requests weakens none of them and invents nothing,  *)
(* for every set of options and every timing.                              *)
(***************************************************************************)

RequestStates == [mode : SUBSET SafePoints, recursive : BOOLEAN, deadline : Nat]
SentRequests == [opts : Requests, at : Nat]

\* The values the variables take; a pending request has a real deadline or 0.
RequestTypeOK ==
    /\ request \in RequestStates \cup {NoRequest}
    /\ now \in Nat /\ takenAt \in Nat
    /\ sent \in SUBSET SentRequests /\ answered \in SUBSET SentRequests
    /\ taken \in CancelOptions

\* The state s asks for at least what the options of r do.
Covers(s, r) ==
    /\ r.opts.recursive => s.recursive
    /\ r.opts.mode = {} => s.mode = {}
    /\ s.mode # {} => r.opts.mode \subseteq s.mode
    /\ s.mode # {} /\ Deadline(r) # 0 => s.deadline # 0 /\ s.deadline <= Deadline(r)

\* The inductive invariant: the pending request covers all it was merged from.
RequestInv ==
    /\ RequestTypeOK
    /\ request = NoRequest => sent = {}
    /\ \A r \in sent : Covers(request, r)
    /\ TakenHonoursAll

-----------------------------------------------------------------------------
\* A new request is well-formed, and its deadline is after its time.
LEMMA NewState ==
    ASSUME NEW opts \in Requests, NEW t \in Nat
    PROVE  /\ newCancelRequestState(opts, t) \in RequestStates
           /\ newCancelRequestState(opts, t) # NoRequest
  BY RequestsAssumption
     DEF newCancelRequestState, RequestStates, CancelOptions, CancelImmediate, NoRequest

\* Merging keeps requests well-formed.
LEMMA MergeState ==
    ASSUME NEW s \in RequestStates, NEW opts \in Requests, NEW t \in Nat
    PROVE  merge(s, opts, t) \in RequestStates /\ merge(s, opts, t) # NoRequest
<1>1. newCancelRequestState(opts, t) \in RequestStates
  BY NewState
<1> QED BY <1>1 DEF merge, RequestStates, Earliest, CancelImmediate, NoRequest

\* A new request covers its own options.
LEMMA NewCovers ==
    ASSUME NEW opts \in Requests, NEW t \in Nat
    PROVE  Covers(newCancelRequestState(opts, t), [opts |-> opts, at |-> t])
<1>1. newCancelRequestState(opts, t).deadline \in Nat
  BY NewState DEF RequestStates
<1> QED BY <1>1, RequestsAssumption
     DEF Covers, Deadline, newCancelRequestState, CancelOptions

\* A merged request covers what the old one covered and the new options.
LEMMA MergeCovers ==
    ASSUME NEW s \in RequestStates, NEW opts \in Requests, NEW t \in Nat,
           NEW r \in SentRequests,
           Covers(s, r) \/ r = [opts |-> opts, at |-> t]
    PROVE  Covers(merge(s, opts, t), r)
<1> DEFINE next == newCancelRequestState(opts, t)
<1>1. next \in RequestStates
  BY NewState
<1>2. r.opts \in Requests /\ r.at \in Nat
  BY DEF SentRequests
<1>3. Deadline(r) \in Nat
  BY <1>2, NewState DEF Deadline, RequestStates
<1>4. next.mode = opts.mode /\ next.recursive = opts.recursive
  BY DEF newCancelRequestState
<1>5. r = [opts |-> opts, at |-> t] => r.opts = opts /\ Deadline(r) = next.deadline
  BY DEF Deadline
<1> HIDE DEF next
<1>6. /\ merge(s, opts, t).recursive = (s.recursive \/ next.recursive)
      /\ s.mode = {} \/ next.mode = {} => merge(s, opts, t).mode = {}
      /\ s.mode # {} /\ next.mode # {} =>
           /\ merge(s, opts, t).mode = s.mode \cup next.mode
           /\ merge(s, opts, t).deadline = Earliest(s.deadline, next.deadline)
  BY DEF merge, CancelImmediate, next
<1>7. s.deadline \in Nat /\ next.deadline \in Nat
  BY <1>1 DEF RequestStates
<1>8. /\ next.deadline # 0 => /\ Earliest(s.deadline, next.deadline) # 0
                              /\ Earliest(s.deadline, next.deadline) <= next.deadline
      /\ s.deadline # 0 => /\ Earliest(s.deadline, next.deadline) # 0
                           /\ Earliest(s.deadline, next.deadline) <= s.deadline
      /\ Earliest(s.deadline, next.deadline) \in Nat
  BY <1>7 DEF Earliest
<1>9. CASE Covers(s, r)
  <2>1. r.opts.recursive => merge(s, opts, t).recursive
    BY <1>6, <1>9 DEF Covers
  <2>2. /\ r.opts.mode = {} => merge(s, opts, t).mode = {}
        /\ merge(s, opts, t).mode # {} => r.opts.mode \subseteq merge(s, opts, t).mode
    BY <1>6, <1>9 DEF Covers
  <2>3. ASSUME merge(s, opts, t).mode # {}, Deadline(r) # 0
        PROVE  /\ merge(s, opts, t).deadline # 0
               /\ merge(s, opts, t).deadline <= Deadline(r)
    <3>1. s.mode # {} /\ next.mode # {}
      BY <1>6, <2>3
    <3>2. s.deadline # 0 /\ s.deadline <= Deadline(r)
      BY <1>9, <2>3, <3>1 DEF Covers
    <3>3. merge(s, opts, t).deadline = Earliest(s.deadline, next.deadline)
      BY <1>6, <3>1
    <3> QED BY <1>3, <1>7, <1>8, <3>2, <3>3
  <2> QED BY <2>1, <2>2, <2>3 DEF Covers
<1>10. CASE r = [opts |-> opts, at |-> t]
  BY <1>3, <1>4, <1>5, <1>6, <1>7, <1>8, <1>10 DEF Covers
<1> QED BY <1>9, <1>10

\* The options made of a request that covers r honour r.
LEMMA TakeHonours ==
    ASSUME NEW s \in RequestStates, NEW t \in Nat, NEW r \in SentRequests, Covers(s, r)
    PROVE  /\ r.opts.recursive => cancelOptions(s, t).recursive
           /\ \/ cancelOptions(s, t).mode = {}
              \/ /\ r.opts.mode # {}
                 /\ r.opts.mode \subseteq cancelOptions(s, t).mode
                 /\ Deadline(r) # 0 =>
                      /\ cancelOptions(s, t).timeout > 0
                      /\ t + cancelOptions(s, t).timeout <= Deadline(r)
<1>1. s.deadline \in Nat /\ s.mode \in SUBSET SafePoints /\ s.recursive \in BOOLEAN
  BY DEF RequestStates
<1>2. Deadline(r) \in Nat
  BY NewState DEF Deadline, RequestStates, SentRequests
<1> QED BY <1>1, <1>2
           DEF cancelOptions, Covers, Expired, CancelImmediate

\* What a watcher makes of a request are cancel options.
LEMMA TakeType ==
    ASSUME NEW s \in RequestStates, NEW t \in Nat
    PROVE  cancelOptions(s, t) \in CancelOptions
  BY DEF cancelOptions, CancelOptions, Expired, CancelImmediate, RequestStates

\* Every step keeps the types.
LEMMA TypeStep ==
    ASSUME RequestTypeOK, [RequestNext]_requestVars
    PROVE  RequestTypeOK'
<1>1. ASSUME NEW opts \in Requests, Ask(opts)
      PROVE  RequestTypeOK'
  <2>1. request' \in RequestStates
    <3>1. CASE request = NoRequest
      BY <1>1, <3>1, NewState DEF Ask, RequestTypeOK
    <3>2. CASE request # NoRequest
      BY <1>1, <3>2, MergeState DEF Ask, RequestTypeOK
    <3> QED BY <3>1, <3>2
  <2>2. [opts |-> opts, at |-> now] \in SentRequests
    BY DEF SentRequests, RequestTypeOK
  <2> QED BY <1>1, <2>1, <2>2 DEF Ask, RequestTypeOK
<1>2. CASE Take
  <2>1. request \in RequestStates /\ now \in Nat
    BY <1>2 DEF Take, RequestTypeOK
  <2>2. taken' \in CancelOptions
    BY <1>2, <2>1, TakeType DEF Take
  <2> QED BY <1>2, <2>2 DEF Take, RequestTypeOK
<1>3. CASE Tick \/ UNCHANGED requestVars
  BY <1>3 DEF Tick, requestVars, RequestTypeOK
<1> QED BY <1>1, <1>2, <1>3 DEF RequestNext

-----------------------------------------------------------------------------
\* The watcher's options honour every request that was merged: the callers of
\* Push and Stop whose requests meet in one controller (requestPreempt,
\* requestStop, merge, cancelOptions) are each served at least as they asked.
THEOREM MergingWeakensNoRequest == RequestSpec => []TakenHonoursAll
<1>1. RequestInit => RequestInv
  BY DEF RequestInit, RequestInv, RequestTypeOK, TakenHonoursAll, CancelOptions
<1>2. RequestInv /\ [RequestNext]_requestVars => RequestInv'
  <2> SUFFICES ASSUME RequestInv, [RequestNext]_requestVars PROVE RequestInv'
    OBVIOUS
  <2>1. ASSUME NEW opts \in Requests, Ask(opts)
        PROVE  RequestInv'
    <3>1. request' \in RequestStates /\ request' # NoRequest
      <4>1. CASE request = NoRequest
        BY <2>1, <4>1, NewState DEF Ask, RequestInv, RequestTypeOK
      <4>2. CASE request # NoRequest
        BY <2>1, <4>2, MergeState DEF Ask, RequestInv, RequestTypeOK
      <4> QED BY <4>1, <4>2
    <3>2. [opts |-> opts, at |-> now] \in SentRequests
      BY DEF SentRequests, RequestInv, RequestTypeOK
    <3>3. ASSUME NEW r \in sent'
          PROVE  Covers(request', r)
      <4>1. r \in sent \/ r = [opts |-> opts, at |-> now]
        BY <2>1, <3>3 DEF Ask
      <4>2. r \in SentRequests
        BY <3>2, <4>1 DEF RequestInv, RequestTypeOK
      <4>3. CASE request = NoRequest
        BY <2>1, <4>1, <4>3, NewCovers DEF Ask, RequestInv, RequestTypeOK
      <4>4. CASE request # NoRequest
        BY <2>1, <4>1, <4>2, <4>4, MergeCovers
          DEF Ask, RequestInv, RequestTypeOK
      <4> QED BY <4>3, <4>4
    <3>4. TakenHonoursAll'
      BY <2>1 DEF Ask, RequestInv, TakenHonoursAll, Deadline
    <3> QED BY <2>1, <3>1, <3>2, <3>3, <3>4 DEF Ask, RequestInv, RequestTypeOK
  <2>2. CASE Take
    <3>1. request \in RequestStates /\ now \in Nat /\ sent \in SUBSET SentRequests
      BY <2>2 DEF Take, RequestInv, RequestTypeOK
    <3>2. taken' \in CancelOptions
      BY <2>2, <3>1, TakeType DEF Take
    <3>3. TakenHonoursAll'
      <4> SUFFICES ASSUME NEW r \in sent
                   PROVE  /\ r.opts.recursive => taken'.recursive
                          /\ \/ taken'.mode = CancelImmediate
                             \/ /\ r.opts.mode # CancelImmediate
                                /\ r.opts.mode \subseteq taken'.mode
                                /\ Deadline(r) # 0 =>
                                     /\ taken'.timeout > 0
                                     /\ takenAt' + taken'.timeout <= Deadline(r)
        BY <2>2 DEF Take, TakenHonoursAll, Deadline
      <4>1. Covers(request, r) /\ r \in SentRequests
        BY <3>1 DEF RequestInv
      <4> QED BY <2>2, <3>1, <4>1, TakeHonours DEF Take, CancelImmediate
    <3> QED BY <2>2, <3>1, <3>2, <3>3 DEF Take, RequestInv, RequestTypeOK
  <2>3. CASE Tick
    BY <2>3 DEF Tick, RequestInv, RequestTypeOK, TakenHonoursAll, Deadline
  <2>4. CASE UNCHANGED requestVars
    BY <2>4
      DEF requestVars, RequestInv, RequestTypeOK, TakenHonoursAll, Deadline
  <2> QED BY <2>1, <2>2, <2>3, <2>4 DEF RequestNext
<1>3. RequestInv => TakenHonoursAll
  BY DEF RequestInv
<1> QED BY <1>1, <1>2, <1>3, PTL DEF RequestSpec

-----------------------------------------------------------------------------
\* The converse: merging invents nothing.

\* The options the request at hand was merged from account for all of it.
Due(s, R) ==
    /\ s.mode = {} => \E r \in R : r.opts.mode = {}
    /\ \A p \in s.mode : \E r \in R : p \in r.opts.mode
    /\ s.recursive => \E r \in R : r.opts.recursive
    /\ s.deadline # 0 => \E r \in R : Deadline(r) = s.deadline

DueInv ==
    /\ RequestTypeOK
    /\ request # NoRequest => Due(request, sent)
    /\ TakenInventsNothing

\* A new request is due to its own options.
LEMMA NewDue ==
    ASSUME NEW opts \in Requests, NEW t \in Nat, NEW R, [opts |-> opts, at |-> t] \in R
    PROVE  Due(newCancelRequestState(opts, t), R)
<1> DEFINE r == [opts |-> opts, at |-> t]
           s == newCancelRequestState(opts, t)
<1>1. r \in R /\ r.opts = opts /\ Deadline(r) = s.deadline
  BY DEF Deadline
<1>2. s.mode = opts.mode /\ s.recursive = opts.recursive
  BY DEF newCancelRequestState
<1> HIDE DEF r, s
<1>3. Due(s, R)
  BY <1>1, <1>2 DEF Due
<1> QED BY <1>3 DEF s

\* A merged request is due to the old options or to the new ones.
LEMMA MergeDue ==
    ASSUME NEW s \in RequestStates, NEW opts \in Requests, NEW t \in Nat, NEW R, Due(s, R)
    PROVE  Due(merge(s, opts, t), R \cup {[opts |-> opts, at |-> t]})
<1> DEFINE r == [opts |-> opts, at |-> t]
           next == newCancelRequestState(opts, t)
           m == merge(s, opts, t)
<1>1. r.opts = opts /\ Deadline(r) = next.deadline
  BY DEF Deadline
<1>2. next.mode = opts.mode /\ next.recursive = opts.recursive
  BY DEF newCancelRequestState
<1>3. /\ m.recursive = (s.recursive \/ next.recursive)
      /\ s.mode = {} \/ next.mode = {} => m.mode = {} /\ m.deadline = 0
      /\ s.mode # {} /\ next.mode # {} =>
           /\ m.mode = s.mode \cup next.mode
           /\ m.deadline = Earliest(s.deadline, next.deadline)
  BY DEF merge, CancelImmediate
<1>4. Earliest(s.deadline, next.deadline) \in {s.deadline, next.deadline}
  BY DEF Earliest
<1> HIDE DEF r, next, m
<1>5. m.mode = {} => \E x \in R \cup {r} : x.opts.mode = {}
  BY <1>1, <1>2, <1>3 DEF Due
<1>6. \A p \in m.mode : \E x \in R \cup {r} : p \in x.opts.mode
  BY <1>1, <1>2, <1>3 DEF Due
<1>7. m.recursive => \E x \in R \cup {r} : x.opts.recursive
  BY <1>1, <1>2, <1>3 DEF Due
<1>8. m.deadline # 0 => \E x \in R \cup {r} : Deadline(x) = m.deadline
  BY <1>1, <1>3, <1>4 DEF Due
<1>9. Due(m, R \cup {r})
  BY <1>5, <1>6, <1>7, <1>8 DEF Due
<1> QED BY <1>9 DEF m, r

\* What a watcher makes of a request is due to what the request is due to.
LEMMA TakeDue ==
    ASSUME NEW s \in RequestStates, NEW t \in Nat, NEW R, Due(s, R)
    PROVE  LET o == cancelOptions(s, t)
           IN  /\ o.mode = {} => \E r \in R : \/ r.opts.mode = {}
                                              \/ Deadline(r) # 0 /\ Deadline(r) <= t
               /\ \A p \in o.mode : \E r \in R : p \in r.opts.mode
               /\ o.recursive => \E r \in R : r.opts.recursive
               /\ o.timeout > 0 => \E r \in R : t + o.timeout = Deadline(r)
<1>1. s.deadline \in Nat
  BY DEF RequestStates
<1>2. CASE s.mode # {} /\ s.deadline # 0 /\ s.deadline <= t
  <2>1. /\ cancelOptions(s, t).mode = {} /\ cancelOptions(s, t).timeout = 0
        /\ cancelOptions(s, t).recursive = s.recursive
    BY <1>2 DEF cancelOptions, Expired, CancelImmediate
  <2> QED BY <1>2, <2>1 DEF Due
<1>3. CASE ~(s.mode # {} /\ s.deadline # 0 /\ s.deadline <= t)
  <2>1. /\ cancelOptions(s, t).mode = s.mode
        /\ cancelOptions(s, t).recursive = s.recursive
        /\ \/ cancelOptions(s, t).timeout = 0
           \/ s.deadline # 0 /\ cancelOptions(s, t).timeout = s.deadline - t
    BY <1>3 DEF cancelOptions, Expired, CancelImmediate
  <2>2. cancelOptions(s, t).timeout > 0 =>
          s.deadline # 0 /\ t + cancelOptions(s, t).timeout = s.deadline
    BY <1>1, <2>1
  <2> QED BY <2>1, <2>2 DEF Due
<1> QED BY <1>2, <1>3

\* Whatever a watcher tells the agent, some caller of Push or Stop asked for:
\* an immediate cancel, a safe point, the recursion and the time that is left
\* (merge, cancelOptions).
THEOREM MergingInventsNothing == RequestSpec => []TakenInventsNothing
<1>1. RequestInit => DueInv
  BY DEF RequestInit, DueInv, RequestTypeOK, TakenInventsNothing, CancelOptions
<1>2. DueInv /\ [RequestNext]_requestVars => DueInv'
  <2> SUFFICES ASSUME DueInv, [RequestNext]_requestVars PROVE DueInv'
    OBVIOUS
  <2>1. RequestTypeOK'
    BY TypeStep DEF DueInv
  <2>2. ASSUME NEW opts \in Requests, Ask(opts)
        PROVE  DueInv'
    <3>1. now \in Nat /\ request \in RequestStates \cup {NoRequest}
      BY DEF DueInv, RequestTypeOK
    <3>2. Due(request', sent')
      <4>1. CASE request = NoRequest
        BY <2>2, <3>1, <4>1, NewDue DEF Ask
      <4>2. CASE request # NoRequest
        BY <2>2, <3>1, <4>2, MergeDue DEF Ask, DueInv
      <4> QED BY <4>1, <4>2
    <3>3. (request # NoRequest => Due(request, sent))'
      BY <3>2 DEF Due, Deadline
    <3> QED BY <2>1, <2>2, <3>3 DEF Ask, DueInv, TakenInventsNothing, Deadline
  <2>3. CASE Take
    <3>1. request \in RequestStates /\ now \in Nat /\ Due(request, sent)
      BY <2>3 DEF Take, DueInv, RequestTypeOK
    <3>2. /\ taken' = cancelOptions(request, now) /\ takenAt' = now
          /\ answered' = sent /\ request' = NoRequest
      BY <2>3 DEF Take
    <3>3. TakenInventsNothing'
      BY <3>1, <3>2, TakeDue DEF TakenInventsNothing, Deadline, CancelImmediate
    <3> QED BY <2>1, <3>2, <3>3 DEF DueInv
  <2>4. CASE Tick \/ UNCHANGED requestVars
    BY <2>1, <2>4
      DEF Tick, requestVars, DueInv, Due, TakenInventsNothing, Deadline
  <2> QED BY <2>2, <2>3, <2>4 DEF RequestNext
<1>3. DueInv => TakenInventsNothing
  BY DEF DueInv
<1> QED BY <1>1, <1>2, <1>3, PTL DEF RequestSpec
=============================================================================
