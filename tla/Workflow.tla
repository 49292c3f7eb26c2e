------------------------------ MODULE Workflow ------------------------------
(***************************************************************************)
(* A workflow agent (agentcore/workflow.go): its sub-agents one after the  *)
(* other, again and again, or in parallel, with interrupts and cancels,    *)
(* and the history of the session they write (session.go).  A workflow and *)
(* every sub-agent is the agent of a flow agent (flow.go), whose goroutine *)
(* adds an event to the history if it has the run path the context has at  *)
(* that moment.  In a sequence and a loop all of them share one context    *)
(* and with it one run path; a parallel sub-agent has a lane of its own.   *)
(*                                                                         *)
(* What a sub-agent emits is external: a sequence of SubRuns.  In these    *)
(* "output" has no action, "interrupt" is an interrupt with a signal and   *)
(* "plain" one without.  Hand-overs are in FlowAgent.                      *)
(***************************************************************************)
EXTENDS Integers, Sequences, FiniteSets, SequencesExt

CONSTANTS
    Modes,          \* a subset of {"sequential", "loop", "parallel"}
    N,              \* the number of sub-agents
    maxIter,        \* of a loop; NewLoop makes it positive
    SubRuns,        \* what a sub-agent may emit
    MaxResumes      \* bound: resumes

Sub == 1 .. N
NoPlace == [iter |-> 0, idx |-> 0, inside |-> FALSE, lanes |-> {}]

VARIABLES
    mode, pc,
    iter, idx,      \* the loop's counters; iter stays 0 in a sequence
    cancelled,      \* shouldCancel of the context
    place,          \* the state of the interrupt that was sent
    path,           \* the run path of the context
    history,        \* the session's events
    subs,           \* the flow agent of each sub-agent, see NewSub
    last,           \* drainEvents: the last event with an action
    out,            \* the workflow's events its flow agent has still to read
    sent,           \* what the client received
    emitted,        \* history: what the sub-agents emitted
    resumes

workflowVars == <<mode, pc, iter, idx, cancelled, place, path, history, subs, last,
                  out, sent, emitted, resumes>>
counters == <<mode, iter, idx, cancelled, place, resumes>>

\* What its agent has still to emit, what it sent that was not read yet, the
\* events of its lane; parallel: whether its goroutine has not ended and
\* whether it was interrupted; history: how often it was run.
NewSub ==
    [left |-> <<>>, inner |-> <<>>, lane |-> <<>>, going |-> FALSE, signal |-> FALSE,
     ran |-> 0]

\* The n-th event that was emitted; 0 and no agent for one of the workflow.
Event(n, s, e, p) == [no |-> n, agent |-> s, event |-> e, path |-> p]
NoEvent == Event(0, 0, "none", <<>>)
Workflows(e) == Event(0, 0, e, <<>>)
IsOutput(e) == e.event = "output"
Outputs(es) == SelectSeq(es, IsOutput)
Remembered(e) == e.event \notin {"interrupt", "plain"}

WorkflowInit ==
    /\ mode \in Modes
    /\ pc = IF mode = "parallel" THEN "fork" ELSE "step"
    /\ iter = 0 /\ idx = 1 /\ cancelled = FALSE
    /\ place = NoPlace
    /\ path = <<0>>
    /\ history = <<>> /\ out = <<>> /\ sent = <<>> /\ emitted = <<>>
    /\ subs = [s \in Sub |-> NewSub]
    /\ last = NoEvent
    /\ resumes = 0

Cancel ==
    /\ ~cancelled /\ pc # "ended"
    /\ cancelled' = TRUE
    /\ UNCHANGED <<mode, pc, iter, idx, place, path, history, subs, last, out, sent,
                   emitted, resumes>>

-----------------------------------------------------------------------------
(* The flow agents' goroutines.                                            *)

\* Mutant: a forked context keeps the path it was forked from.
PathOf_Parent(s) == IF mode = "parallel" THEN <<0>> ELSE path

\* The path of the context a sub-agent runs with: a parallel one was forked
\* from the workflow's.
PathOf(s) == IF mode = "parallel" THEN <<0, s>> ELSE path

\* runLoop of a sub-agent's flow agent: its next event is given the path of
\* the moment, which it has then; to the history or the lane, and on.
Emit(s) ==
    /\ subs[s].left # <<>>
    /\ LET e == Event(Len(emitted) + 1, s, Head(subs[s].left), PathOf(s)) IN
         /\ emitted' = Append(emitted, e)
         /\ history' = IF Remembered(e) /\ mode # "parallel" THEN Append(history, e)
                       ELSE history
         /\ subs' = [subs EXCEPT ![s].left = Tail(@), ![s].inner = Append(@, e),
                       ![s].lane = IF Remembered(e) /\ mode = "parallel"
                                   THEN Append(@, e) ELSE @]
    /\ UNCHANGED <<counters, pc, path, last, out, sent>>

\* runLoop of the workflow's flow agent: an event with the path of the moment
\* is added to the history, here a second time.
Outer ==
    /\ out # <<>>
    /\ LET e == IF Head(out).path = <<>> THEN [Head(out) EXCEPT !.path = path]
                ELSE Head(out)
       IN /\ history' = IF Remembered(e) /\ e.path = path THEN Append(history, e)
                        ELSE history
          /\ sent' = Append(sent, e)
    /\ out' = Tail(out)
    /\ UNCHANGED <<counters, pc, path, subs, last, emitted>>

-----------------------------------------------------------------------------
(* Sequence and loop.                                                      *)

CancelStep ==
    /\ pc = "step" /\ cancelled
    /\ out' = Append(out, Workflows("interrupt"))
    /\ pc' = "ended" /\ place' = [NoPlace EXCEPT !.iter = iter, !.idx = idx]
    /\ UNCHANGED <<mode, iter, idx, cancelled, path, history, subs, last, sent,
                   emitted, resumes>>

\* sa.Run: the sub-agent's name is appended to the path.
SubAgent(r) ==
    /\ pc = "step" /\ ~cancelled
    /\ subs' = [subs EXCEPT ![idx].left = r, ![idx].ran = @ + 1]
    /\ path' = Append(path, idx)
    /\ pc' = "update" /\ last' = NoEvent
    /\ UNCHANGED <<counters, history, out, sent, emitted>>

\* Then the path becomes the sub-agent alone, while its events may be on
\* their way.
updateRunPathOnly ==
    /\ pc = "update"
    /\ path' = <<idx>>
    /\ pc' = "drain"
    /\ UNCHANGED <<counters, history, subs, last, out, sent, emitted>>

\* drainEvents: outputs are sent on, of the events with an action the last one
\* is kept, and an error returns at once.
Drain ==
    /\ pc = "drain" /\ subs[idx].inner # <<>> /\ last.event # "error"
    /\ LET e == Head(subs[idx].inner) IN
         /\ out' = IF IsOutput(e) THEN Append(out, e) ELSE out
         /\ last' = IF IsOutput(e) THEN last ELSE e
    /\ subs' = [subs EXCEPT ![idx].inner = Tail(@)]
    /\ UNCHANGED <<counters, pc, path, history, sent, emitted>>

\* Mutant: the place that is sent is the next one.
At_Next == [NoPlace EXCEPT !.iter = iter, !.idx = idx + 1, !.inside = TRUE]

At == [NoPlace EXCEPT !.iter = iter, !.idx = idx, !.inside = TRUE]

\* The next sub-agent, in this round or the next one; or the end.
Advance ==
    IF idx < N THEN idx' = idx + 1 /\ pc' = "step" /\ UNCHANGED iter
    ELSE IF mode = "loop" /\ iter + 1 < maxIter
      THEN iter' = iter + 1 /\ idx' = 1 /\ pc' = "step"
      ELSE pc' = "ended" /\ UNCHANGED <<iter, idx>>

Breaks == mode = "loop" /\ last.event = "break"

\* The sub-agent's events are over, or one was an error.  The last event with
\* an action is sent, a break of a loop excepted, and decides what follows.
Drained ==
    /\ pc = "drain"
    /\ last.event = "error" \/ (subs[idx].left = <<>> /\ subs[idx].inner = <<>>)
    /\ out' = IF last = NoEvent \/ Breaks THEN out ELSE Append(out, last)
    /\ place' = IF last.event = "interrupt" THEN At ELSE place
    /\ IF last.event \in {"error", "interrupt", "exit"} \/ Breaks
         THEN pc' = "ended" /\ UNCHANGED <<iter, idx>>
         ELSE Advance
    /\ UNCHANGED <<mode, cancelled, path, history, subs, last, sent, emitted, resumes>>

-----------------------------------------------------------------------------
(* Parallel.                                                               *)

\* The contexts are forked, the cancel is asked for, the goroutines start.
Fork ==
    /\ pc = "fork"
    /\ IF cancelled
         THEN /\ out' = Append(out, Workflows("interrupt"))
              /\ pc' = "ended" /\ UNCHANGED subs
         ELSE /\ subs' = [s \in Sub |-> [NewSub EXCEPT !.going = TRUE]]
              /\ pc' = "go" /\ UNCHANGED out
    /\ UNCHANGED <<counters, path, history, last, sent, emitted>>

Go(s, r) ==
    /\ subs[s].going /\ subs[s].ran = 0
    /\ subs' = [subs EXCEPT ![s].ran = 1, ![s].left = r]
    /\ UNCHANGED <<counters, pc, path, history, last, out, sent, emitted>>

\* The lane's next event: to the flow agent or, for an interrupt, the end of
\* the goroutine.
Read(s) ==
    /\ subs[s].going /\ subs[s].inner # <<>>
    /\ LET e == Head(subs[s].inner)
           stops == e.event = "interrupt"
       IN /\ out' = IF stops THEN out ELSE Append(out, e)
          /\ subs' = [subs EXCEPT ![s].inner = Tail(@), ![s].signal = stops,
                                  ![s].going = ~stops]
    /\ UNCHANGED <<counters, pc, path, history, last, sent, emitted>>

LaneEnds(s) ==
    /\ subs[s].going /\ subs[s].ran = 1 /\ subs[s].left = <<>> /\ subs[s].inner = <<>>
    /\ subs' = [subs EXCEPT ![s].going = FALSE]
    /\ UNCHANGED <<counters, pc, path, history, last, out, sent, emitted>>

Interrupted == {s \in Sub : subs[s].signal}

\* wg.Wait.  The lanes are not joined to the session.
Wait ==
    /\ pc = "go" /\ \A s \in Sub : ~subs[s].going
    /\ pc' = "ended"
    /\ place' = [NoPlace EXCEPT !.lanes = Interrupted]
    /\ out' = IF Interrupted = {} THEN out ELSE Append(out, Workflows("interrupt"))
    /\ UNCHANGED <<mode, iter, idx, cancelled, path, history, subs, last, sent,
                   emitted, resumes>>

-----------------------------------------------------------------------------

\* A resume of the runner.  The state the interrupt held does not reach the
\* agents (loadCheckpoint and buildResumeInfo leave InterruptState out), so
\* the flow agent's Resume finds no sub-agent of the workflow's own name and
\* workflowAgent.Resume no state: all that comes is an error.
Resume ==
    /\ pc = "ended" /\ out = <<>> /\ resumes < MaxResumes
    /\ \E e \in ToSet(sent) : e.event = "interrupt"
    /\ resumes' = resumes + 1
    /\ sent' = Append(sent, Workflows("error"))
    /\ UNCHANGED <<mode, pc, iter, idx, cancelled, place, path, history, subs, last,
                   out, emitted>>

WorkflowNext ==
    \/ Cancel \/ CancelStep \/ updateRunPathOnly \/ Drain \/ Drained \/ Outer
    \/ Fork \/ Wait \/ Resume
    \/ \E r \in SubRuns : SubAgent(r) \/ \E s \in Sub : Go(s, r)
    \/ \E s \in Sub : Emit(s) \/ Read(s) \/ LaneEnds(s)

-----------------------------------------------------------------------------
(* Properties.                                                             *)

OfAgent(s, es) == SelectSeq(es, LAMBDA e : e.agent = s)

\* The events in the order in which each came first.
Firsts(es) ==
    FoldLeft(LAMBDA firsts, e : IF e \in ToSet(firsts) THEN firsts
                                ELSE Append(firsts, e), <<>>, es)

\* An agent starts only after all the events of the one before it were read.
\* A sequence runs an agent at most once and a loop at most once for each
\* round, in turn; the place an interrupt tells the client is the place the
\* run has got to.
TurnsAreKept ==
    /\ \A s \in Sub : subs[s].ran <= IF mode = "loop" THEN maxIter ELSE 1
    /\ pc = "step" => \A s \in Sub : subs[s].left = <<>> /\ subs[s].inner = <<>>
    /\ place.idx # 0 =>
         \A s \in Sub : subs[s].ran =
           place.iter + IF s < place.idx \/ (s = place.idx /\ place.inside) THEN 1 ELSE 0

\* The client receives every output of an agent once and in its order.
ClientHasAll ==
    \A s \in Sub :
      LET got == Outputs(OfAgent(s, sent))
          due == Outputs(OfAgent(s, emitted))
      IN  /\ IsPrefix(got, due)
          /\ pc = "ended" /\ out = <<>> => got = due

\* Although three goroutines share a run path that changes under them, the
\* history of a sequence has every event by the time it is sent on, and first
\* entries in the order of emission, which a second entry never comes before;
\* lanes keep to themselves and leave nothing in the session.
HistoryIsWhole ==
    IF mode = "parallel"
    THEN /\ history = <<>>
         /\ \A s \in Sub : subs[s].lane = SelectSeq(OfAgent(s, emitted), Remembered)
    ELSE /\ Firsts(history) = SelectSeq(emitted, Remembered)
         /\ \A e \in ToSet(history) :
              Cardinality({i \in DOMAIN history : history[i] = e}) <= 2
         /\ \A e \in ToSet(sent) \cup ToSet(out) :
              Remembered(e) /\ e.no # 0 => e \in ToSet(history)

WorkflowKeepsPlace == TurnsAreKept /\ ClientHasAll /\ HistoryIsWhole
=============================================================================
