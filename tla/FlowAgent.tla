----------------------------- MODULE FlowAgent -----------------------------
(***************************************************************************)
(* A flow agent (agentcore/flow.go) that hands a conversation over to its  *)
(* sub-agents, and the wrapper that makes a sub-agent hand it on           *)
(* (agent_handoff.go), as the supervisor of prebuilt/supervisor uses both. *)
(*                                                                         *)
(* Every run of a flow agent has a goroutine of its own, runLoop, and all  *)
(* of them share the session's events.  What an agent says is external: a  *)
(* sequence of Said.  Agents below the sub-agents, and Resume, are left    *)
(* out.                                                                    *)
(***************************************************************************)
EXTENDS Integers, Sequences, SequencesExt

CONSTANTS
    Supervisor,     \* the agent that has sub-agents
    Workers,        \* its sub-agents
    Outsider,       \* a name it has no sub-agent of
    Said,           \* what the agent of one run may emit
    Wrappers,       \* how a worker is wrapped: "none", "agent" or "flow"
    MaxFlowRuns     \* bound: runs

VARIABLES
    wrapper,        \* how the workers are wrapped
    skipTransfer,   \* the option WithSkipTransferMessages
    cancelled,      \* shouldCancel of the context
    session,        \* the events of the session
    runs            \* the runs of flow agents, in the order they started

flowVars == <<wrapper, skipTransfer, cancelled, session, runs>>

\* An event: its kind, the agent it transfers to, and whether its run path is
\* the one of the flow agent that reads it.  A "transfer" has the message of a
\* tool and follows its "announce"; an "order" has the action alone.
Event(kind, dest, own) == [kind |-> kind, dest |-> dest, own |-> own]
OfRun(i, e) == [run |-> i, kind |-> e.kind, dest |-> e.dest]
HasMessage(e) == e.kind \in {"user", "said", "announce", "transfer"}
User == [run |-> 0, kind |-> "user", dest |-> "none"]

-----------------------------------------------------------------------------
(* agent_handoff.go.                                                       *)

sendTransferEvents ==
    <<Event("announce", "none", TRUE), Event("transfer", Supervisor, TRUE)>>

\* What a wrapped agent that emits s emits: its events and a transfer to the
\* supervisor, unless the last event is an interrupt or an exit.  The events
\* of a wrapped flow agent keep their longer run path; its interrupt comes as
\* an event of the wrapper, and so does its error if it transfers to an agent
\* that it does not have.
Forward(s) ==
    LET inner == [i \in DOMAIN s |->
                    IF wrapper = "flow" /\ s[i].kind # "interrupt"
                    THEN [s[i] EXCEPT !.own = FALSE] ELSE s[i]]
        last == IF s = <<>> THEN "none" ELSE Last(s).kind
        unknown == IF wrapper = "flow" /\ last \in {"transfer", "order"}
                   THEN <<Event("notFound", Last(s).dest, TRUE)>> ELSE <<>>
    IN  IF last \in {"interrupt", "exit"} THEN inner
        ELSE inner \o unknown \o sendTransferEvents

\* The supervisor wraps its workers, and is not wrapped itself.
Wrapped(a) == a # Supervisor /\ wrapper # "none"
Emits(a, s) == IF Wrapped(a) THEN Forward(s) ELSE s

-----------------------------------------------------------------------------
(* flow.go.                                                                *)

\* Mutant: a transfer takes every message before it out of the history.
Skip_All(entries) == <<>>

\* With skipTransfer a transfer's message goes and takes the entry before it
\* with it, which should be the announcement.
Skip(entries) == IF entries = <<>> THEN <<>> ELSE Front(entries)

genInput(events) ==
    LET entries[i \in 0 .. Len(events)] ==
            IF i = 0 THEN <<User>>
            ELSE LET e == events[i] IN
                 IF skipTransfer /\ e.kind = "transfer" THEN Skip(entries[i - 1])
                 ELSE IF HasMessage(e) THEN Append(entries[i - 1], e)
                 ELSE entries[i - 1]
    IN  entries[Len(events)]

\* A wrapped flow agent starts from an empty session of its own.
NewRun(a, s, by) ==
    [agent |-> a, by |-> by, left |-> Emits(a, s), out |-> <<>>, last |-> "none",
     dest |-> "none", pc |-> "read", child |-> 0,
     input |-> IF a # Supervisor /\ wrapper = "flow" THEN <<User>>
               ELSE genInput(session)]

FlowInit ==
    /\ wrapper \in Wrappers /\ skipTransfer \in BOOLEAN
    /\ cancelled = FALSE
    /\ session = <<>>
    /\ \E s \in Said : runs = <<NewRun(Supervisor, s, 0)>>

\* Mutant: an interrupt is kept in the session as well.
Remembers_Interrupts(e) == TRUE

Remembers(e) == e.kind # "interrupt"

\* One event of the agent: to the session (an event with a longer path is put
\* there by the wrapper), and to the reader.  The last action is the one of
\* the last event of this agent's own path, if that has one.
ReadEvent(i) ==
    LET e == Head(runs[i].left) IN
    /\ runs[i].pc = "read" /\ runs[i].left # <<>>
    /\ session' = IF Remembers(e) THEN Append(session, OfRun(i, e)) ELSE session
    /\ runs' = [runs EXCEPT ![i].left = Tail(@), ![i].out = Append(@, OfRun(i, e)),
                            ![i].last = IF e.own THEN e.kind ELSE @,
                            ![i].dest = IF e.own THEN e.dest ELSE @]
    /\ UNCHANGED <<wrapper, skipTransfer, cancelled>>

Known(i) == runs[i].agent = Supervisor /\ runs[i].dest \in Workers
Due(i) == runs[i].last \in {"transfer", "order"}

\* The agent's events are over and none is to be started: closed, after an
\* error if the agent to transfer to is not found.  A worker has no
\* sub-agents, and no flow agent's parent is ever set.
EndRun(i) ==
    /\ runs[i].pc = "read" /\ runs[i].left = <<>>
    /\ ~Due(i) \/ cancelled \/ ~Known(i)
    /\ runs' = [runs EXCEPT ![i].pc = "closed",
                  ![i].out = IF Due(i) /\ ~cancelled
                             THEN Append(@, [run |-> i, kind |-> "notFound",
                                             dest |-> runs[i].dest])
                             ELSE @]
    /\ UNCHANGED <<wrapper, skipTransfer, cancelled, session>>

\* next.Run: a new run of the worker, whose first event is waited for.
StartNext(i, out, s) ==
    runs' = Append([runs EXCEPT ![i].pc = "wait", ![i].out = out,
                                ![i].child = Len(runs) + 1],
                   NewRun(runs[i].dest, s, i))

HandOver(i, s) ==
    /\ runs[i].pc = "read" /\ runs[i].left = <<>> /\ Len(runs) < MaxFlowRuns
    /\ Due(i) /\ ~cancelled /\ Known(i)
    /\ StartNext(i, runs[i].out, s)
    /\ UNCHANGED <<wrapper, skipTransfer, cancelled, session>>

\* The first event of the worker's run is sent on, and the worker is run
\* again: for{} calls next.Run for every event.  The rest of the run's events
\* is read by nobody.
TakeFirst(i, s) ==
    LET c == runs[runs[i].child] IN
    /\ runs[i].pc = "wait" /\ c.out # <<>> /\ Len(runs) < MaxFlowRuns
    /\ StartNext(i, Append(runs[i].out, Head(c.out)), s)
    /\ UNCHANGED <<wrapper, skipTransfer, cancelled, session>>

\* Only a run of the worker without any event ends the loop.
EndOfWorker(i) ==
    LET c == runs[runs[i].child] IN
    /\ runs[i].pc = "wait" /\ c.out = <<>> /\ c.pc = "closed"
    /\ runs' = [runs EXCEPT ![i].pc = "closed"]
    /\ UNCHANGED <<wrapper, skipTransfer, cancelled, session>>

FlowCancel ==
    /\ ~cancelled /\ runs[1].pc # "closed"
    /\ cancelled' = TRUE
    /\ UNCHANGED <<wrapper, skipTransfer, session, runs>>

FlowNext ==
    \/ FlowCancel
    \/ \E i \in DOMAIN runs :
         \/ ReadEvent(i) \/ EndRun(i) \/ EndOfWorker(i)
         \/ \E s \in Said : HandOver(i, s) \/ TakeFirst(i, s)

-----------------------------------------------------------------------------
(* Properties.                                                             *)

SaidBy(i, es) == SelectSeq(es, LAMBDA e : e.run = i /\ e.kind = "said")

\* What the runs of a flow share stays whole although nobody waits for a
\* run: the session has every message of a run once and in its order, and no
\* interrupt; a run that a hand-over started knows the user's message and,
\* unless it has a session of its own, all that the agent before it said;
\* the reader of the supervisor gets its messages in order and before those
\* of a worker, of which none comes twice.
HandOverKeepsHistory ==
    /\ \A i \in DOMAIN runs :
         LET r == runs[i] IN
         /\ SaidBy(i, session) = SaidBy(i, r.out)
         /\ ~ \E k \in DOMAIN session : session[k].kind = "interrupt"
         /\ r.input # <<>> /\ r.input[1] = User
         /\ r.by # 0 /\ wrapper # "flow" =>
              SaidBy(r.by, r.input) = SaidBy(r.by, session)
    /\ LET out == runs[1].out IN
       \A j, k \in DOMAIN out :
         j < k => /\ out[k].run >= out[j].run
                  /\ out[j].run # 1 => out[k].run # out[j].run
=============================================================================
