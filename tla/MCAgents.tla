------------------------------ MODULE MCAgents ------------------------------
(***************************************************************************)
(* Instances of RunStream and CancelRequest, and of the agents: ReAct,     *)
(* workflows, flows with hand-overs, the model's retry and failover chain, *)
(* the copies of its stream and the summarization of its messages.  They   *)
(* share no state: a behaviour is one of one component, the one part       *)
(* names, and the variables of the others stay as they begin.  The         *)
(* variables of the agents are v1, v2, ... in turn; one that an agent does *)
(* not use is 0.                                                           *)
(***************************************************************************)
EXTENDS RunStream, CancelRequest

CONSTANTS
    ReadOnly, Writing, Unknown, ReturnDirectly, Responses,  \* of ReActAgent
    MaxIterations, maxConcurrency, MaxSame, MaxRuns,
    MaxRetries, Models,     \* of ModelCalls
    Chunks, Capacity        \* of its streams

VARIABLES
    part,           \* the component this behaviour is of
    v1, v2, v3, v4, v5, v6, v7, v8, v9, v10, v11, v12, v13, v14, v15

agentVars == <<
              v1, v2, v3, v4, v5, v6, v7, v8, v9, v10, v11, v12, v13, v14,
              v15>>
allVars == <<part, vars, requestVars, agentVars>>

\* What the option constructors build (WithPreempt, WithPreemptTimeout,
\* WithGraceful, WithImmediate and WithGracefulTimeout), with a short and a
\* long timeout.
Opts(m, r, d) == [mode |-> m, recursive |-> r, timeout |-> d]
MCRequests ==
    {Opts({"chat"}, FALSE, 0), Opts({"tool"}, TRUE, 1),
     Opts(SafePoints, TRUE, 2), Opts(CancelImmediate, TRUE, 0)}

\* What the model calls, what the sub-agents of a workflow emit and what a
\* run of a flow does.
ToolCalls == {<<>>, <<"w">>, <<"r", "r", "r">>, <<"r", "w", "r">>, <<"u", "r">>}
SubAgentRuns ==
    {<<"output">>, <<"output", "interrupt">>, <<"output", "error">>, <<"exit">>,
     <<"break">>, <<"plain", "output">>}
E(k, d) == [kind |-> k, dest |-> d, own |-> TRUE]
FlowRuns ==
    {<<>>, <<E("said", "")>>, <<E("said", ""), E("announce", ""), E("transfer", "w")>>,
     <<E("order", "w")>>, <<E("order", "x")>>, <<E("said", ""), E("interrupt", "")>>,
     <<E("said", ""), E("exit", "")>>}

\* Tools that read and write one file and one that searches, and the
\* conversations the summarization begins with.
FileReads == [op |-> "read", path |-> "p"]
FileWrites == [op |-> "write", path |-> "p"]
Searches == [op |-> "search", path |-> ""]
UserTurn == [role |-> "user", tools |-> <<>>]
AgentTurn(t) == [role |-> "model", tools |-> t]
Conversations ==
    {<<UserTurn>>, <<UserTurn, AgentTurn(<<>>), UserTurn>>,
     <<UserTurn, AgentTurn(<<FileReads>>), AgentTurn(<<>>), UserTurn>>}
ToolBatches ==
    {<<>>, <<FileWrites>>, <<FileReads, Searches>>, <<FileReads, FileWrites>>}

\* The variables from the k-th on are not used.
Unused(k) ==
    /\ k <= 1 => v1 = 0
    /\ k <= 2 => v2 = 0
    /\ k <= 3 => v3 = 0
    /\ k <= 4 => v4 = 0
    /\ k <= 5 => v5 = 0
    /\ k <= 6 => v6 = 0
    /\ k <= 7 => v7 = 0
    /\ k <= 8 => v8 = 0
    /\ k <= 9 => v9 = 0
    /\ k <= 10 => v10 = 0
    /\ k <= 11 => v11 = 0
    /\ k <= 12 => v12 = 0
    /\ k <= 13 => v13 = 0
    /\ k <= 14 => v14 = 0
    /\ k <= 15 => v15 = 0
UnusedStay(k) ==
    /\ k <= 6 => UNCHANGED v6
    /\ k <= 7 => UNCHANGED v7
    /\ k <= 8 => UNCHANGED v8
    /\ k <= 9 => UNCHANGED v9
    /\ k <= 10 => UNCHANGED v10
    /\ k <= 11 => UNCHANGED v11
    /\ k <= 12 => UNCHANGED v12
    /\ k <= 13 => UNCHANGED v13
    /\ k <= 14 => UNCHANGED v14
    /\ k <= 15 => UNCHANGED v15

Ra == INSTANCE ReActAgent WITH
    mode <- v1, pc <- v2, runs <- v3, remaining <- v4, messages <- v5,
    calls <- v6, batch <- v7, callState <- v8, answers <- v9, firstErr <- v10,
    exits <- v11, sameArgs <- v12, sent <- v13, invoked <- v14,
    dropped <- v15

ASSUME ReactAssumption == Ra!ReactConstants

Wf == INSTANCE Workflow WITH
    mode <- v1, pc <- v2, iter <- v3, idx <- v4, cancelled <- v5, place <- v6,
    path <- v7, history <- v8, subs <- v9, last <- v10, out <- v11, sent <- v12,
    emitted <- v13, resumes <- v14, Modes <- {"sequential", "loop", "parallel"},
    N <- 2, maxIter <- 2, SubRuns <- SubAgentRuns, MaxResumes <- 1

Fl == INSTANCE FlowAgent WITH
    wrapper <- v1, skipTransfer <- v2, cancelled <- v3, session <- v4,
    runs <- v5, Supervisor <- "p", Workers <- {"w"}, Outsider <- "x",
    Said <- FlowRuns, Wrappers <- {"none", "agent", "flow"}, MaxFlowRuns <- 3

Mc == INSTANCE ModelCalls WITH
    cfg <- v1, chainPc <- v2, attempt <- v3, model <- v4, calls <- v5,
    sent <- v6, outcome <- v7,
    copier <- v1, fails <- v2, frames <- v3, closed <- v4, shut <- v5,
    source <- v6, copy <- v7, immediate <- v8, received <- v9,
    panicked <- v10, Copiers <- {"wrapper", "retry", "cancel"}

ASSUME ModelCallsAssumption == Mc!ChainConstants /\ Mc!PipeConstants

Su == INSTANCE Summarization WITH
    sumCfg <- v1, sumPc <- v2, messages <- v3, all <- v4, superseded <- v5,
    untold <- v6, crashed <- v7, Histories <- Conversations,
    Batches <- ToolBatches, PreserveRecent <- 2, MaxMessages <- 4,
    KeepLatest <- 2, MaxLines <- 3, MaxChars <- 6, MaxRounds <- 3

MCInit ==
    /\ Init /\ RequestInit
    /\ \/ part = "stream" /\ Unused(1)
       \/ part = "request" /\ Unused(1) /\ caller = "drain"
       \/ part = "react" /\ Ra!ReactInit /\ caller = "drain"
       \/ part = "workflow" /\ Wf!WorkflowInit /\ Unused(15) /\ caller = "drain"
       \/ part = "flow" /\ Fl!FlowInit /\ Unused(6) /\ caller = "drain"
       \/ part = "model" /\ Mc!ChainInit /\ Unused(8) /\ caller = "drain"
       \/ part = "pipe" /\ Mc!PipeInit /\ Unused(11) /\ caller = "drain"
       \/ part = "summary" /\ Su!SummaryInit /\ Unused(8) /\ caller = "drain"

Stream == part = "stream" /\ Next /\ UNCHANGED <<part, requestVars, agentVars>>
Request == part = "request" /\ RequestNext /\ UNCHANGED <<part, vars, agentVars>>
ReAct ==
    /\ part = "react" /\ Ra!ReactNext
    /\ UNCHANGED <<part, vars, requestVars>>
WorkflowAgent ==
    /\ part = "workflow" /\ Wf!WorkflowNext
    /\ UNCHANGED <<part, vars, requestVars>> /\ UnusedStay(15)
Flow ==
    /\ part = "flow" /\ Fl!FlowNext
    /\ UNCHANGED <<part, vars, requestVars>> /\ UnusedStay(6)
ModelCall ==
    /\ part = "model" /\ Mc!ChainNext
    /\ UNCHANGED <<part, vars, requestVars>> /\ UnusedStay(8)
Pipe ==
    /\ part = "pipe" /\ Mc!PipeNext
    /\ UNCHANGED <<part, vars, requestVars>> /\ UnusedStay(11)

Summary ==
    /\ part = "summary" /\ Su!SummaryNext
    /\ UNCHANGED <<part, vars, requestVars>> /\ UnusedStay(8)

MCNext ==
    \/ Stream \/ Request \/ ReAct \/ WorkflowAgent \/ Flow \/ ModelCall \/ Pipe
    \/ Summary

\* Of RunStream: its goroutines run and the caller goes on reading.
MCFairness ==
    /\ WF_vars(part = "stream" /\ Engine) /\ WF_vars(part = "stream" /\ Forward)
    /\ WF_vars(part = "stream" /\ Reader)

MCSpec == MCInit /\ [][MCNext]_allVars /\ MCFairness

-----------------------------------------------------------------------------
(* Properties.                                                             *)

\* The caller of an execution is answered, and if it reads outputCh to its
\* end no goroutine is left.
ExecutionEnds == part = "stream" => StreamEnds

\* However the tools of a ReAct agent run, fail or panic, every call is
\* answered once and in order before the model is asked again, tools that
\* write run alone, and no more than the limit run at a time.
ToolCallsSound == part = "react" => Ra!CallsAnswered /\ Ra!ToolsRunSafely

\* A workflow keeps the turns of its agents, their outputs and its history
\* through interrupts and cancels, and a hand-over loses neither a message nor
\* the history of the session;
\* when older messages are summarized between calls of the model, none of the
\* others is lost, repeated or split from its call.
ConversationsSound ==
    /\ part = "workflow" => Wf!WorkflowKeepsPlace
    /\ part = "flow" => Fl!HandOverKeepsHistory
    /\ part = "summary" => Su!ConversationKept

\* A call of the model through its retries or its backups returns what the last
\* call brought, no answer but that one is sent, and by an agent once; the
\* copies of its stream are whole.
ModelCallsSound ==
    /\ part = "model" => Mc!AnswersOnce
    /\ part = "pipe" => Mc!PipeIsWhole
=============================================================================
