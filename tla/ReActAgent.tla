----------------------------- MODULE ReActAgent -----------------------------
(***************************************************************************)
(* Runs of a ReActAgent (agentcore/react_agent.go, react_loop.go), one     *)
(* after the other: the model is asked, the tools it calls are executed by *)
(* the ToolsNode (tools_node.go), and their answers go to the model again. *)
(* Calls of read-only tools that stand next to each other run in parallel, *)
(* with maxConcurrency of them at a time; every other call runs by itself. *)
(* The LoopGuard belongs to the configuration, and lives through the runs. *)
(* Without a ToolsConfig the calls run inline, one after the other and     *)
(* unguarded; without tools the model is asked once.                       *)
(*                                                                         *)
(* The model, the tools and the middlewares are external: each may answer, *)
(* fail, or (tools) panic.  Middlewares leave the messages as they are.    *)
(* All calls of one tool have the same arguments.                          *)
(*                                                                         *)
(* The second half of the module proves ToolCallsAreAnswered.              *)
(***************************************************************************)
EXTENDS Integers, Sequences, FiniteSetTheorems, TLAPS

CONSTANTS
    ReadOnly, Writing,  \* the tools, by their capability
    Unknown,            \* names the model may call that no tool has
    ReturnDirectly,     \* tools that end the run
    Responses,          \* what the model may call in one answer
    MaxIterations,
    maxConcurrency,
    MaxSame,            \* the guard's limit for identical calls
    MaxRuns             \* bound: runs

Tool == ReadOnly \cup Writing

ReactConstants ==
    /\ Responses \subseteq Seq(Tool \cup Unknown)
    /\ maxConcurrency \in Nat /\ MaxSame \in Nat \ {0}

VARIABLES
    mode,               \* how the agent is built: "node", "inline" or "none"
    pc, runs,
    remaining,          \* RemainingIterations
    messages,           \* the state's messages: what they call or answer
    calls,              \* the calls of the last response
    batch,              \* the calls of the current batch
    callState,          \* how far each call is
    answers,            \* the tool messages, by call
    firstErr, exits,    \* Execute's error and its action
    sameArgs,           \* the guard's counts
    sent,               \* the events of this run
    invoked,            \* history: how often each tool passed the guard
    dropped             \* history: inline calls of this run were dropped

reactVars == <<mode, pc, runs, remaining, messages, calls, batch, callState,
               answers, firstErr, exits, sameArgs, sent, invoked, dropped>>
nodeVars == <<mode, dropped>>
toolVars == <<calls, batch, callState, answers, firstErr, exits, sameArgs, invoked>>

ReactInit ==
    /\ mode \in {"node", "inline", "none"} /\ dropped = FALSE
    /\ pc = "idle" /\ runs = 0 /\ remaining = 0
    /\ messages = <<>> /\ calls = <<>> /\ batch = {} /\ callState = <<>>
    /\ answers = {} /\ firstErr = FALSE /\ exits = FALSE
    /\ sameArgs = [t \in Tool \cup Unknown |-> 0]
    /\ sent = <<>>
    /\ invoked = [t \in Tool |-> 0]

-----------------------------------------------------------------------------
(* The loop.                                                               *)

User == [role |-> "user", calls |-> <<>>, call |-> 0]
Assistant(cs) == [role |-> "model", calls |-> cs, call |-> 0]
ToolMessage(i) == [role |-> "tool", calls |-> <<>>, call |-> i]

\* Run, with a fresh state, or Resume with what an interrupt saved: how many
\* iterations are left is then up to the saved state.
Run ==
    /\ pc = "idle" /\ runs < MaxRuns
    /\ runs' = runs + 1
    /\ remaining' \in 0 .. MaxIterations
    /\ messages' = <<User>>
    /\ sent' = <<>> /\ dropped' = FALSE
    /\ pc' = "before"
    /\ UNCHANGED <<mode, toolVars>>

\* An error of BeforeAgent, of BeforeModelRewrite, StateModifier or
\* GenModelInput, of the model, or of AfterModelRewrite ends the run.
Fail ==
    /\ pc \in {"before", "prepare", "model", "after"}
    /\ sent' = Append(sent, "error")
    /\ pc' = "idle"
    /\ UNCHANGED <<nodeVars, runs, remaining, messages, toolVars>>

BeforeAgent ==
    /\ pc = "before"
    /\ pc' = IF mode = "none" \/ remaining > 0 THEN "prepare" ELSE "finish"
    /\ UNCHANGED <<nodeVars, runs, remaining, messages, sent, toolVars>>

Prepare ==
    /\ pc = "prepare"
    /\ remaining' = IF mode = "none" THEN remaining ELSE remaining - 1
    /\ pc' = "model"
    /\ UNCHANGED <<nodeVars, runs, messages, sent, toolVars>>

Generate(cs) ==
    /\ pc = "model"
    /\ messages' = Append(messages, Assistant(cs))
    /\ sent' = Append(sent, "output")
    /\ calls' = cs
    /\ pc' = "after"
    /\ UNCHANGED <<nodeVars, runs, remaining, batch, callState, answers, firstErr, exits,
                   sameArgs, invoked>>

\* The calls are looked at; without any, or without tools, the loop ends.
AfterModel ==
    /\ pc = "after"
    /\ IF calls = <<>> \/ mode = "none"
         THEN pc' = "finish" /\ UNCHANGED <<batch, callState, answers, firstErr, exits>>
         ELSE /\ pc' = IF mode = "node" THEN "tools" ELSE "inline"
              /\ batch' = {} /\ answers' = {} /\ firstErr' = FALSE /\ exits' = FALSE
              /\ callState' = [i \in DOMAIN calls |-> "planned"]
    /\ UNCHANGED <<nodeVars, runs, remaining, messages, calls, sameArgs, sent, invoked>>

-----------------------------------------------------------------------------
(* ToolsNode.Execute.                                                      *)

Is(i, s) == callState[i] = s
Parallel(i) == calls[i] \in ReadOnly

\* Mutant: read-only calls are collected across the others.
planBatch_All(i) ==
    IF Parallel(i) THEN {j \in DOMAIN calls : Parallel(j) /\ Is(j, "planned")} ELSE {i}

\* The batch that starts with call i: up to the next call that is not
\* read-only, or that call itself.
planBatch(i) ==
    IF Parallel(i)
    THEN {j \in i .. Len(calls) : \A k \in i .. j : Parallel(k)}
    ELSE {i}

NextBatch ==
    /\ pc = "tools" /\ batch = {}
    /\ \E i \in DOMAIN calls :
         /\ Is(i, "planned") /\ \A j \in 1 .. i - 1 : ~Is(j, "planned")
         /\ batch' = planBatch(i)
         /\ exits' = (exits \/ \E j \in planBatch(i) : calls[j] \in ReturnDirectly)
         /\ callState' = [j \in DOMAIN calls |->
                            IF j \in planBatch(i) THEN "ready" ELSE callState[j]]
    /\ UNCHANGED <<nodeVars, pc, runs, remaining, messages, calls, answers, firstErr,
                   sameArgs, sent, invoked>>

Holding == {i \in batch : callState[i] \in {"started", "running"}}

\* A goroutine gets its place; executeOne begins.
Acquire(i) ==
    /\ i \in batch /\ Is(i, "ready")
    /\ Cardinality(Holding) < maxConcurrency
    /\ callState' = [callState EXCEPT ![i] = "started"]
    /\ UNCHANGED <<nodeVars, pc, runs, remaining, messages, calls, batch, answers, firstErr,
                   exits, sameArgs, sent, invoked>>

\* Mutant: the guard lets one call too many pass.
Limit_Late(n) == n > MaxSame

Limit(n) == n >= MaxSame

\* CheckSameArgs, under the guard's lock; then the tool is looked up and
\* invoked.  A refused call and an unknown tool are answered at once.
executeOne(i) ==
    /\ i \in batch /\ Is(i, "started")
    /\ sameArgs' = [sameArgs EXCEPT ![calls[i]] = @ + 1]
    /\ IF calls[i] \in Unknown \/ Limit(sameArgs'[calls[i]])
         THEN /\ answers' = answers \cup {i}
              /\ callState' = [callState EXCEPT ![i] = "done"]
              /\ UNCHANGED invoked
         ELSE /\ invoked' = [invoked EXCEPT ![calls[i]] = @ + 1]
              /\ callState' = [callState EXCEPT ![i] = "running"]
              /\ UNCHANGED answers
    /\ UNCHANGED <<nodeVars, pc, runs, remaining, messages, calls, batch, firstErr, exits, sent>>

\* Mutant: the panic of a tool leaves its call without an answer.
Answer_NoRecover(i) ==
    /\ i \in batch /\ Is(i, "running")
    /\ callState' = [callState EXCEPT ![i] = "done"]
    /\ answers' \in {answers, answers \cup {i}}
    /\ UNCHANGED <<nodeVars, pc, runs, remaining, messages, calls, batch, firstErr, exits,
                   sameArgs, sent, invoked>>

\* The tool returns, fails or panics: each becomes an answer.
Answer(i) ==
    /\ i \in batch /\ Is(i, "running")
    /\ callState' = [callState EXCEPT ![i] = "done"]
    /\ answers' = answers \cup {i}
    /\ UNCHANGED <<nodeVars, pc, runs, remaining, messages, calls, batch, firstErr, exits,
                   sameArgs, sent, invoked>>

\* A middleware that cannot wrap the tool is an error of Execute; of a
\* parallel call only the first one's answer is left out.
MiddlewareFails(i) ==
    /\ i \in batch /\ Is(i, "running")
    /\ callState' = [callState EXCEPT ![i] = "done"]
    /\ answers' = IF firstErr \/ ~Parallel(i) THEN answers \cup {i} ELSE answers
    /\ firstErr' = TRUE
    /\ UNCHANGED <<nodeVars, pc, runs, remaining, messages, calls, batch, exits, sameArgs, sent,
                   invoked>>

BatchDone ==
    /\ pc = "tools" /\ batch # {}
    /\ \A i \in batch : Is(i, "done")
    /\ batch' = {}
    /\ UNCHANGED <<nodeVars, pc, runs, remaining, messages, calls, callState, answers, firstErr,
                   exits, sameArgs, sent, invoked>>

\* The answers are appended in the order of the calls.
Return ==
    /\ pc = "tools" /\ batch = {} /\ \A i \in DOMAIN calls : Is(i, "done")
    /\ IF firstErr
         THEN sent' = Append(sent, "error") /\ pc' = "idle" /\ UNCHANGED messages
         ELSE /\ messages' = messages \o
                   [k \in 1 .. Cardinality(answers) |->
                      ToolMessage(CHOOSE i \in answers :
                                    Cardinality({j \in answers : j <= i}) = k)]
              /\ pc' = IF remaining > 0 /\ ~exits THEN "prepare" ELSE "finish"
              /\ UNCHANGED sent
    /\ UNCHANGED <<nodeVars, runs, remaining, toolVars>>

-----------------------------------------------------------------------------
(* executeInlineTools.                                                     *)

\* The next call: its answer, for an unknown tool too, is appended at once.
InlineCall(i) ==
    /\ pc = "inline" /\ Is(i, "planned") /\ \A j \in 1 .. i - 1 : Is(j, "done")
    /\ callState' = [callState EXCEPT ![i] = "done"]
    /\ exits' = (exits \/ calls[i] \in ReturnDirectly)
    /\ messages' = Append(messages, ToolMessage(i))
    /\ sent' = Append(sent, "tool")
    /\ UNCHANGED <<nodeVars, pc, runs, remaining, calls, batch, answers, firstErr,
                   sameArgs, invoked>>

AfterInline(exit) == IF remaining > 0 /\ ~exit THEN "prepare" ELSE "finish"

\* A middleware cannot wrap the tool: this call and the ones after it are left
\* out, and nobody looks at the error.
InlineFails(i) ==
    /\ pc = "inline" /\ Is(i, "planned") /\ \A j \in 1 .. i - 1 : Is(j, "done")
    /\ calls[i] \in Tool
    /\ exits' = (exits \/ calls[i] \in ReturnDirectly)
    /\ dropped' = TRUE
    /\ pc' = AfterInline(exits')
    /\ UNCHANGED <<mode, runs, remaining, messages, sent, calls, batch, callState,
                   answers, firstErr, sameArgs, invoked>>

\* A tool that panics here ends the run.
InlinePanic(i) ==
    /\ pc = "inline" /\ Is(i, "planned") /\ \A j \in 1 .. i - 1 : Is(j, "done")
    /\ calls[i] \in Tool
    /\ sent' = Append(sent, "error")
    /\ pc' = "idle"
    /\ UNCHANGED <<nodeVars, runs, remaining, messages, toolVars>>

InlineReturn ==
    /\ pc = "inline" /\ \A i \in DOMAIN calls : Is(i, "done")
    /\ pc' = AfterInline(exits)
    /\ UNCHANGED <<nodeVars, runs, remaining, messages, sent, toolVars>>

\* Also a run that ends in its last iteration reports that it had no more.
\* OutputKey, the hook and AfterAgent follow; the last two may fail.
Finish ==
    /\ pc = "finish"
    /\ \E errs \in {<<>>, <<"error">>, <<"error", "error">>} :
         sent' = sent \o (IF mode # "none" /\ remaining <= 0 THEN <<"error">> ELSE <<>>) \o errs
    /\ pc' = "idle"
    /\ UNCHANGED <<nodeVars, runs, remaining, messages, toolVars>>

ReactNext ==
    \/ Run \/ Fail \/ BeforeAgent \/ Prepare \/ AfterModel \/ NextBatch
    \/ BatchDone \/ Return \/ InlineReturn \/ Finish
    \/ \E cs \in Responses : Generate(cs)
    \/ \E i \in DOMAIN calls :
         Acquire(i) \/ executeOne(i) \/ Answer(i) \/ MiddlewareFails(i)
         \/ InlineCall(i) \/ InlineFails(i) \/ InlinePanic(i)

-----------------------------------------------------------------------------
(* Properties.                                                             *)

\* The first m calls of the message at k are answered behind it, in their
\* order; what comes then is no answer.
AnsweredUpTo(k, m) ==
    /\ k + m <= Len(messages)
    /\ \A i \in 1 .. m : messages[k + i] = ToolMessage(i)
    /\ k + m < Len(messages) => messages[k + m + 1].role # "tool"

Settled(k) ==
    \E m \in 0 .. Len(messages[k].calls) :
        AnsweredUpTo(k, m) /\ (m = Len(messages[k].calls) \/ dropped)

\* Whenever the model is asked, every call it made so far has been answered,
\* once and in the order of the calls, however the tools ran, failed or
\* panicked.  Only inline calls may be dropped, behind the answered ones.
CallsAnswered ==
    pc \in {"prepare", "model"} =>
        \A k \in DOMAIN messages :
            messages[k].role = "model" =>
                Settled(k)

\* A tool that is not read-only runs by itself and after every call before
\* it; no more than maxConcurrency run; and identical calls are invoked fewer
\* times than the guard's limit, over all runs.
ToolsRunSafely ==
    /\ pc = "tools" => \A i \in DOMAIN calls :
         ~Parallel(i) /\ callState[i] \in {"started", "running"} =>
           /\ Holding = {i}
           /\ \A j \in 1 .. i - 1 : Is(j, "done")
           /\ \A j \in i + 1 .. Len(calls) : Is(j, "planned")
    /\ Cardinality(Holding) <= maxConcurrency
    /\ \A t \in Tool : invoked[t] < MaxSame

-----------------------------------------------------------------------------
(* Proofs of the properties, for any tools, responses and limits.          *)

Message == [role : {"user", "model", "tool"}, calls : Seq(Tool \cup Unknown), call : Nat]
CallStates == {"planned", "ready", "started", "running", "done"}

\* The values of the variables.
ReactTypeOK ==
    /\ messages \in Seq(Message) /\ calls \in Seq(Tool \cup Unknown)
    /\ batch \subseteq DOMAIN calls
    /\ pc \in {"tools", "inline"} => callState \in [DOMAIN calls -> CallStates]
    /\ pc = "tools" => answers \subseteq DOMAIN calls
    /\ sameArgs \in [Tool \cup Unknown -> Nat] /\ invoked \in [Tool -> Nat]
    /\ dropped \in BOOLEAN

\* The calls are taken up in their order, and there is one batch at a time.
BatchesInOrder ==
    /\ pc # "tools" => batch = {}
    /\ pc = "tools" => \A i \in DOMAIN calls :
         /\ i \in batch => ~Is(i, "planned") /\ (~Parallel(i) => batch = {i})
         /\ i \notin batch => Is(i, "planned") \/ Is(i, "done")
         /\ \A j \in DOMAIN calls :
              /\ j < i /\ ~Is(i, "planned") => ~Is(j, "planned")
              /\ i < j /\ i \in batch /\ j \notin batch => Is(j, "planned")

\* Without an error of Execute every call that is done has its answer.
AnswersKept ==
    pc = "tools" /\ ~firstErr => \A i \in DOMAIN calls : Is(i, "done") => i \in answers

LimitsKept ==
    /\ Cardinality(Holding) <= maxConcurrency
    /\ \A t \in Tool : invoked[t] <= sameArgs[t] /\ invoked[t] < MaxSame

\* The message at p has the calls that are now executed; inline calls are
\* answered one by one.
Waiting(p) ==
    /\ messages[p] = Assistant(calls)
    /\ \A k \in 1 .. p - 1 : messages[k].role = "model" => Settled(k)
    /\ pc # "inline" => p = Len(messages)
    /\ pc = "inline" =>
         /\ Len(messages) <= p + Len(calls)
         /\ \A i \in DOMAIN calls :
              /\ callState[i] = "done" <=> p + i <= Len(messages)
              /\ callState[i] = "planned" <=> p + i > Len(messages)
         /\ \A i \in 1 .. Len(messages) - p : messages[p + i] = ToolMessage(i)

MessagesInv ==
    /\ pc \in {"before", "prepare", "model"} =>
         \A k \in DOMAIN messages : messages[k].role = "model" => Settled(k)
    /\ pc \in {"after", "tools", "inline"} => \E p \in DOMAIN messages : Waiting(p)

ReactInv == ReactTypeOK /\ BatchesInOrder /\ AnswersKept /\ LimitsKept /\ MessagesInv

LEMMA ReactInvInit == ASSUME ReactConstants, ReactInit PROVE ReactInv
<1>1. Holding = {} BY DEF ReactInit, Holding
<1>2. Cardinality(Holding) <= maxConcurrency
  BY <1>1, FS_EmptySet DEF ReactConstants
<1>3. LimitsKept
  BY <1>2 DEF ReactInit, LimitsKept, ReactConstants
<1>4. ReactTypeOK
  <2>1. messages \in Seq(Message) /\ calls \in Seq(Tool \cup Unknown)
    BY DEF ReactInit
  <2> QED BY <2>1 DEF ReactInit, ReactTypeOK
<1> QED
  BY <1>3, <1>4
    DEF ReactInit, ReactInv, BatchesInOrder, AnswersKept, MessagesInv

LEMMA AtMost == \A a, b \in Nat : a <= b => a < b \/ a = b
OBVIOUS

\* What is answered stays so when messages are appended that begin with no
\* answer, or if a later message of the model is already there.
LEMMA SettledStays ==
    ASSUME messages \in Seq(Message), messages' \in Seq(Message),
           dropped => dropped', Len(messages) <= Len(messages'),
           \A i \in 1 .. Len(messages) : messages'[i] = messages[i],
           NEW k \in DOMAIN messages, Settled(k),
           \/ Len(messages') = Len(messages)
           \/ messages'[Len(messages) + 1].role # "tool"
           \/ \E p \in DOMAIN messages : k < p /\ messages[p].role = "model"
    PROVE  Settled(k)'
<1>1. PICK m \in 0 .. Len(messages[k].calls) :
         AnsweredUpTo(k, m) /\ (m = Len(messages[k].calls) \/ dropped)
  BY DEF Settled
<1>2. /\ messages'[k] = messages[k] /\ m \in Nat
      /\ k \in Nat \ {0} /\ Len(messages) \in Nat /\ Len(messages') \in Nat
  <2>1. messages[k] \in Message OBVIOUS
  <2>2. messages[k].calls \in Seq(Tool \cup Unknown) BY <2>1 DEF Message
  <2>3. Len(messages[k].calls) \in Nat BY <2>2
  <2>4. k \in 1 .. Len(messages) OBVIOUS
  <2> QED BY <1>1, <2>3, <2>4
<1>3. PICK n \in Nat : n = Len(messages) BY <1>2
<1>4. /\ k + m <= n /\ n <= Len(messages')
      /\ \A i \in 1 .. m : messages[k + i] = ToolMessage(i)
      /\ k + m < n => messages[k + m + 1].role # "tool"
  BY <1>1, <1>3 DEF AnsweredUpTo
<1>5. \A i \in 1 .. n : messages'[i] = messages[i] BY <1>3
<1>6. k + m <= Len(messages') /\ \A i \in 1 .. m : messages'[k + i] = ToolMessage(i)
  <2>1. \A i \in 1 .. m : k + i \in 1 .. n
    BY <1>2, <1>4
  <2>2. \A i \in 1 .. m : messages'[k + i] = messages[k + i] BY <1>5, <2>1
  <2>3. k + m <= Len(messages') BY <1>2, <1>4
  <2> QED BY <1>4, <2>2, <2>3
<1>7. ASSUME k + m < Len(messages') PROVE messages'[k + m + 1].role # "tool"
  <2>1. CASE k + m < n
    <3>1. k + m + 1 \in 1 .. n BY <1>2, <2>1
    <3> QED BY <1>4, <1>5, <2>1, <3>1
  <2>2. CASE k + m = n
    <3>1. ~ \E p \in DOMAIN messages : k < p /\ messages[p].role = "model"
      <4> SUFFICES ASSUME NEW p \in 1 .. n, k < p, messages[p].role = "model"
                   PROVE  FALSE
        BY <1>3
      <4>1. PICK i \in 1 .. m : p = k + i
        <5>1. p - k \in 1 .. m /\ p = k + (p - k) BY <1>2, <2>2, SMTT(20)
        <5> QED BY <5>1
      <4>2. messages[p] = ToolMessage(i) BY <1>4, <4>1
      <4> QED BY <4>2 DEF ToolMessage
    <3> QED BY <1>3, <1>7, <2>2, <3>1
  <2>3. k + m <= n BY <1>4
  <2>4. k \in Nat /\ m \in Nat BY <1>2
  <2>5. k + m < n \/ k + m = n
    <3>1. k + m \in Nat BY <2>4
    <3> QED BY <2>3, <3>1, AtMost
  <2> QED BY <2>1, <2>2, <2>5
<1>8. AnsweredUpTo(k, m)' BY <1>6, <1>7 DEF AnsweredUpTo
<1> QED BY <1>1, <1>2, <1>8 DEF Settled

-----------------------------------------------------------------------------
(* The steps of the loop and of the tools keep the invariant.              *)

\* Steps that leave the messages and the calls alone.
LEMMA SameMessages ==
    ASSUME MessagesInv, UNCHANGED <<messages, calls, dropped>>,
           \/ /\ pc' \in {"idle", "finish"}
           \/ /\ pc \in {"before", "prepare", "model"}
              /\ pc' \in {"before", "prepare", "model"}
           \/ pc = "tools" /\ pc' = "tools"
           \/ pc = "after" /\ pc' = "tools"
    PROVE  MessagesInv'
<1>1. \A k : Settled(k)' <=> Settled(k) BY DEF Settled, AnsweredUpTo
<1>2. pc \in {"tools", "after"} /\ pc' = "tools" => \A p : Waiting(p) => Waiting(p)'
  BY <1>1 DEF Waiting
<1>3. pc' \in {"idle", "finish"} => MessagesInv' BY DEF MessagesInv
<1>4. pc \in {"before", "prepare", "model"} /\ pc' \in {"before", "prepare", "model"}
        => MessagesInv'
  BY <1>1 DEF MessagesInv
<1>5. pc \in {"tools", "after"} /\ pc' = "tools" => MessagesInv'
  <2> SUFFICES ASSUME pc \in {"tools", "after"}, pc' = "tools" PROVE MessagesInv'
    OBVIOUS
  <2>1. PICK p \in DOMAIN messages : Waiting(p) BY DEF MessagesInv
  <2>2. p \in DOMAIN messages' /\ Waiting(p)' BY <1>2, <2>1
  <2> QED BY <2>2 DEF MessagesInv
<1> QED BY <1>3, <1>4, <1>5

LoopSteps ==
    \/ Run \/ Fail \/ BeforeAgent \/ Prepare \/ AfterModel \/ InlineReturn \/ Finish
    \/ \E cs \in Responses : Generate(cs)
    \/ \E i \in DOMAIN calls : InlineCall(i) \/ InlineFails(i) \/ InlinePanic(i)

LEMMA ToolMessageType ==
    /\ User \in Message
    /\ \A cs \in Seq(Tool \cup Unknown) : Assistant(cs) \in Message
    /\ \A i \in Nat : ToolMessage(i) \in Message
<1>1. <<>> \in Seq(Tool \cup Unknown) OBVIOUS
<1> QED BY <1>1 DEF User, Assistant, ToolMessage, Message

LEMMA LoopStepsType ==
    ASSUME ReactConstants, ReactInv, LoopSteps PROVE ReactTypeOK'
<1> USE DEF ReactInv
<1>1. /\ sameArgs' = sameArgs /\ invoked' = invoked /\ dropped' \in BOOLEAN
      /\ pc # "tools" /\ batch = {} /\ batch' = {}
  BY DEF LoopSteps, ReactTypeOK, BatchesInOrder, Run, Fail, BeforeAgent,
         Prepare, AfterModel, InlineReturn, Finish, Generate, InlineCall,
         InlineFails, InlinePanic, toolVars, nodeVars
<1>2. calls' \in Seq(Tool \cup Unknown)
  BY DEF LoopSteps, ReactTypeOK, ReactConstants, Run, Fail, BeforeAgent,
         Prepare, AfterModel, InlineReturn, Finish, Generate, InlineCall,
         InlineFails, InlinePanic, toolVars
<1>3. pc' = "tools" => AfterModel
  BY DEF LoopSteps, Run, Fail, BeforeAgent, Prepare, AfterModel, AfterInline,
         InlineReturn, Finish, Generate, InlineCall, InlineFails, InlinePanic
<1>4. pc' = "inline" => AfterModel \/ \E i \in DOMAIN calls : InlineCall(i)
  BY DEF LoopSteps, Run, Fail, BeforeAgent, Prepare, AfterModel, AfterInline,
         InlineReturn, Finish, Generate, InlineCall, InlineFails, InlinePanic
<1>5. pc' \in {"tools", "inline"} => callState' \in [DOMAIN calls' -> CallStates]
  BY <1>3, <1>4 DEF AfterModel, InlineCall, ReactTypeOK, CallStates
<1>6. pc' = "tools" => answers' \subseteq DOMAIN calls'
  BY <1>3 DEF AfterModel
<1>7. messages' \in Seq(Message)
  <2>1. CASE Run BY <2>1, ToolMessageType DEF Run
  <2>2. ASSUME NEW cs \in Responses, Generate(cs) PROVE messages' \in Seq(Message)
    <3>1. Assistant(cs) \in Message BY ToolMessageType DEF ReactConstants
    <3> QED BY <2>2, <3>1 DEF Generate, ReactTypeOK
  <2>3. ASSUME NEW i \in DOMAIN calls, InlineCall(i) PROVE messages' \in Seq(Message)
    <3>1. ToolMessage(i) \in Message BY ToolMessageType DEF ReactTypeOK
    <3> QED BY <2>3, <3>1 DEF InlineCall, ReactTypeOK
  <2>4. CASE UNCHANGED messages BY <2>4 DEF ReactTypeOK
  <2> QED
    BY <2>1, <2>2, <2>3, <2>4
    DEF LoopSteps, Fail, BeforeAgent, Prepare, AfterModel, InlineReturn, Finish,
        InlineFails, InlinePanic
<1> QED BY <1>1, <1>2, <1>5, <1>6, <1>7 DEF ReactTypeOK

LEMMA LoopStepsBatches ==
    ASSUME ReactConstants, ReactInv, LoopSteps
    PROVE  BatchesInOrder' /\ AnswersKept' /\ LimitsKept'
<1> USE DEF ReactInv
<1>1. sameArgs' = sameArgs /\ invoked' = invoked /\ batch' = {}
  BY DEF LoopSteps, BatchesInOrder, Run, Fail, BeforeAgent, Prepare, AfterModel,
         InlineReturn, Finish, Generate, InlineCall, InlineFails, InlinePanic, toolVars
<1>2. pc' = "tools" => AfterModel
  BY DEF LoopSteps, Run, Fail, BeforeAgent, Prepare, AfterModel, AfterInline,
         InlineReturn, Finish, Generate, InlineCall, InlineFails, InlinePanic
<1>3. pc' = "tools" => callState' = [i \in DOMAIN calls' |-> "planned"]
  BY <1>2 DEF AfterModel
<1>4. BatchesInOrder' BY <1>1, <1>3 DEF BatchesInOrder, Is
<1>5. AnswersKept' BY <1>3 DEF AnswersKept, Is
<1>6. Holding' = {} BY <1>1 DEF Holding
<1>7. LimitsKept' BY <1>1, <1>6, FS_EmptySet DEF LimitsKept, ReactConstants
<1> QED BY <1>4, <1>5, <1>7

LEMMA GenerateKeeps ==
    ASSUME ReactConstants, ReactInv, NEW cs \in Responses, Generate(cs) PROVE MessagesInv'
<1>1. PICK n \in Nat : n = Len(messages) BY DEF ReactInv, ReactTypeOK
<1>2. messages \in Seq(Message) /\ messages' \in Seq(Message)
  <2>1. Assistant(cs) \in Message BY ToolMessageType DEF ReactConstants
  <2> QED BY <2>1 DEF Generate, ReactInv, ReactTypeOK
<1>3. /\ Len(messages') = n + 1 /\ messages'[n + 1] = Assistant(cs)
      /\ \A i \in 1 .. n : messages'[i] = messages[i]
  BY <1>1, <1>2 DEF Generate
<1>4. \A k \in 1 .. n : messages'[k].role = "model" => Settled(k)'
  <2> SUFFICES ASSUME NEW k \in 1 .. n, messages[k].role = "model" PROVE Settled(k)'
    BY <1>3
  <2>1. k \in DOMAIN messages /\ Settled(k)
    BY <1>1, <1>2 DEF ReactInv, MessagesInv, Generate
  <2>2. messages'[Len(messages) + 1].role # "tool" BY <1>1, <1>3 DEF Assistant
  <2>3. dropped' = dropped /\ Len(messages) <= Len(messages')
    BY <1>1, <1>3 DEF Generate, nodeVars
  <2>4. \A i \in 1 .. Len(messages) : messages'[i] = messages[i] BY <1>1, <1>3
  <2> QED BY <1>2, <2>1, <2>2, <2>3, <2>4, SettledStays
<1>5. Waiting(n + 1)'
  <2>1. calls' = cs /\ pc' = "after" BY DEF Generate
  <2>2. (n + 1) - 1 = n OBVIOUS
  <2> QED BY <1>3, <1>4, <2>1, <2>2 DEF Waiting, Assistant
<1>6. n + 1 \in DOMAIN messages' BY <1>2, <1>3
<1> QED BY <1>5, <1>6 DEF MessagesInv, Generate

\* A call that waits, and what executes it inline.
LEMMA InlineOrder ==
    ASSUME ReactInv, pc = "inline", NEW p \in DOMAIN messages, Waiting(p),
           NEW i \in DOMAIN calls, Is(i, "planned"), \A j \in 1 .. i - 1 : Is(j, "done")
    PROVE  Len(messages) = p + (i - 1)
<1>1. PICK n \in Nat : n = Len(messages) BY DEF ReactInv, ReactTypeOK
<1>2. PICK c \in Nat : c = Len(calls) /\ DOMAIN calls = 1 .. c
  BY DEF ReactInv, ReactTypeOK
<1>3. p \in 1 .. n BY <1>1 DEF ReactInv, ReactTypeOK
<1>4. p + i > n BY <1>1 DEF Waiting, Is
<1>5. CASE i = 1
  <2>1. n = p BY <1>3, <1>4, <1>5
  <2> QED BY <1>1, <1>3, <1>5, <2>1
<1>6. CASE i # 1
  <2>1. i - 1 \in 1 .. i - 1 /\ i - 1 \in DOMAIN calls BY <1>2, <1>6
  <2>2. p + (i - 1) <= n BY <1>1, <2>1 DEF Waiting, Is
  <2>3. i \in Nat BY <1>2
  <2>4. n = p + (i - 1) BY <1>3, <1>4, <2>2, <2>3
  <2> QED BY <1>1, <2>4
<1> QED BY <1>5, <1>6

LEMMA InlineCallKeeps ==
    ASSUME ReactInv, NEW i \in DOMAIN calls, InlineCall(i) PROVE MessagesInv'
<1>1. PICK p \in DOMAIN messages : Waiting(p)
  BY DEF ReactInv, MessagesInv, InlineCall
<1>2. messages \in Seq(Message) /\ messages' \in Seq(Message) /\ i \in Nat
  <2>1. i \in Nat /\ ToolMessage(i) \in Message
    BY ToolMessageType DEF ReactInv, ReactTypeOK
  <2> QED BY <2>1 DEF InlineCall, ReactInv, ReactTypeOK
<1>3. PICK n \in Nat : n = Len(messages) BY <1>2
<1>4. n = p + (i - 1) BY <1>1, <1>3, InlineOrder DEF InlineCall
<1>5. /\ Len(messages') = n + 1 /\ messages'[n + 1] = ToolMessage(i)
      /\ \A j \in 1 .. n : messages'[j] = messages[j]
  BY <1>2, <1>3 DEF InlineCall
<1>6. p \in 1 .. n /\ p \in DOMAIN messages' BY <1>2, <1>3, <1>5
<1>7. messages'[p] = Assistant(calls')
  BY <1>1, <1>5, <1>6 DEF Waiting, InlineCall
<1>8. \A k \in 1 .. p - 1 : messages'[k].role = "model" => Settled(k)'
  <2> SUFFICES ASSUME NEW k \in 1 .. p - 1, messages[k].role = "model" PROVE Settled(k)'
    BY <1>5, <1>6
  <2>1. k \in DOMAIN messages /\ k < p /\ Settled(k)
    BY <1>1, <1>2, <1>3, <1>6 DEF Waiting
  <2>2. messages[p].role = "model" BY <1>1 DEF Waiting, Assistant
  <2>3. dropped' = dropped /\ Len(messages) <= Len(messages')
    BY <1>3, <1>5 DEF InlineCall, nodeVars
  <2>4. \A j \in 1 .. Len(messages) : messages'[j] = messages[j] BY <1>3, <1>5
  <2> QED BY <1>2, <2>1, <2>2, <2>3, <2>4, SettledStays
<1>9. PICK c \in Nat : c = Len(calls) /\ DOMAIN calls = 1 .. c
  BY DEF ReactInv, ReactTypeOK
<1>10. Len(messages') <= p + Len(calls')
  BY <1>4, <1>5, <1>6, <1>9 DEF InlineCall
<1>11. \A j \in DOMAIN calls' :
         /\ callState'[j] = "done" <=> p + j <= Len(messages')
         /\ callState'[j] = "planned" <=> p + j > Len(messages')
  <2> SUFFICES ASSUME NEW j \in 1 .. c
               PROVE  /\ callState'[j] = "done" <=> p + j <= n + 1
                      /\ callState'[j] = "planned" <=> p + j > n + 1
    BY <1>5, <1>9 DEF InlineCall
  <2>1. DOMAIN callState = 1 .. c BY <1>9 DEF ReactInv, ReactTypeOK, InlineCall
  <2>2. /\ callState[j] = "done" <=> p + j <= n
        /\ callState[j] = "planned" <=> p + j > n
    BY <1>1, <1>3, <1>9 DEF Waiting, InlineCall
  <2>3. callState'[j] = IF j = i THEN "done" ELSE callState[j]
    BY <2>1 DEF InlineCall
  <2>4. p \in Nat /\ j \in Nat /\ n = p + (i - 1) BY <1>4, <1>6
  <2>5. p + j <= n + 1 <=> p + j <= n \/ j = i BY <1>2, <2>4
  <2>6. p + j > n + 1 <=> ~(p + j <= n + 1) BY <1>2, <2>4
  <2>7. p + j > n <=> ~(p + j <= n) BY <1>2, <2>4
  <2> QED BY <2>2, <2>3, <2>5, <2>6, <2>7
<1>12. \A j \in 1 .. Len(messages') - p : messages'[p + j] = ToolMessage(j)
  <2> SUFFICES ASSUME NEW j \in 1 .. (n + 1) - p PROVE messages'[p + j] = ToolMessage(j)
    BY <1>5
  <2>1. p \in Nat /\ j \in Nat BY <1>6
  <2>2. (n + 1) - p = i BY <1>2, <1>4, <2>1, SMTT(20)
  <2>3. CASE j = i
    <3>1. p + j = n + 1 BY <1>2, <1>4, <2>1, <2>3
    <3> QED BY <1>5, <2>3, <3>1
  <2>4. CASE j # i
    <3>1. j \in 1 .. i BY <2>2
    <3>2. j >= 1 /\ j <= i - 1 BY <1>2, <2>1, <2>4, <3>1
    <3>3. n - p = i - 1 BY <1>2, <1>4, <2>1
    <3>4. j \in 1 .. n - p
      <4>1. j \in 1 .. i - 1 BY <1>2, <2>1, <3>2
      <4> QED BY <3>3, <4>1
    <3>5. p + j \in 1 .. n
      <4>1. p + j >= 1 /\ p + j <= p + (i - 1) BY <1>2, <2>1, <3>2
      <4>2. p + j <= n BY <1>4, <4>1
      <4> QED BY <2>1, <4>1, <4>2
    <3> QED BY <1>1, <1>3, <1>5, <3>4, <3>5 DEF Waiting, InlineCall
  <2> QED BY <2>3, <2>4
<1>13. Waiting(p)' BY <1>7, <1>8, <1>10, <1>11, <1>12 DEF Waiting, InlineCall
<1> QED BY <1>6, <1>13 DEF MessagesInv, InlineCall

LEMMA InlineEnds ==
    ASSUME ReactInv, pc = "inline", NEW p \in DOMAIN messages, Waiting(p),
           UNCHANGED <<messages, calls>>, dropped => dropped', pc' # "inline",
           NEW m \in 0 .. Len(calls), Len(messages) = p + m, m = Len(calls) \/ dropped',
           pc' \in {"prepare", "finish"}
    PROVE  MessagesInv'
<1>1. messages \in Seq(Message) /\ calls \in Seq(Tool \cup Unknown)
  BY DEF ReactInv, ReactTypeOK
<1>2. PICK n \in Nat : n = Len(messages) BY <1>1
<1>3. PICK c \in Nat : c = Len(calls) BY <1>1
<1>4. p \in 1 .. n /\ n = p + m /\ m \in Nat BY <1>1, <1>2, <1>3
<1>5. messages[p] = Assistant(calls) /\ messages[p].role = "model"
  BY DEF Waiting, Assistant
<1>6. \A k \in 1 .. p - 1 : messages[k].role = "model" => Settled(k)'
  <2> SUFFICES ASSUME NEW k \in 1 .. p - 1, messages[k].role = "model" PROVE Settled(k)'
    OBVIOUS
  <2>1. k \in DOMAIN messages /\ k < p /\ Settled(k)
    BY <1>1, <1>2, <1>4 DEF Waiting
  <2> QED BY <1>1, <1>5, <2>1, SettledStays
<1>7. Settled(p)'
  <2>1. \A i \in 1 .. m : messages[p + i] = ToolMessage(i)
    <3>1. Len(messages) - p = m BY <1>2, <1>4
    <3> QED BY <3>1 DEF Waiting
  <2>2. AnsweredUpTo(p, m)'
    BY <1>2, <1>4, <2>1 DEF AnsweredUpTo
  <2>3. Len(messages'[p].calls) = Len(calls) BY <1>5 DEF Assistant
  <2> QED BY <2>2, <2>3 DEF Settled
<1>8. \A k \in p + 1 .. n : messages[k].role # "model"
  <2> SUFFICES ASSUME NEW k \in p + 1 .. n PROVE messages[k].role # "model"
    OBVIOUS
  <2>1. k - p \in 1 .. Len(messages) - p /\ k = p + (k - p) BY <1>2, <1>4
  <2>2. messages[k] = ToolMessage(k - p) BY <2>1 DEF Waiting
  <2> QED BY <2>2 DEF ToolMessage
<1>9. ASSUME NEW k \in DOMAIN messages, messages[k].role = "model" PROVE Settled(k)'
  <2>1. k \in 1 .. n BY <1>1, <1>2
  <2>2. k \in 1 .. p - 1 \/ k = p \/ k \in p + 1 .. n BY <1>4, <2>1
  <2> QED BY <1>6, <1>7, <1>8, <1>9, <2>2
<1> QED BY <1>9 DEF MessagesInv

LEMMA LoopStepsMessages ==
    ASSUME ReactConstants, ReactInv, LoopSteps PROVE MessagesInv'
<1> USE DEF ReactInv
<1>1. CASE Run BY <1>1 DEF Run, MessagesInv, User
<1>2. CASE Fail \/ Finish \/ \E i \in DOMAIN calls : InlinePanic(i)
  BY <1>2 DEF Fail, Finish, InlinePanic, MessagesInv
<1>3. CASE BeforeAgent \/ Prepare
  BY <1>3, SameMessages DEF BeforeAgent, Prepare, toolVars, nodeVars
<1>4. CASE AfterModel
  <2>1. CASE pc' # "inline"
    BY <1>4, <2>1, SameMessages DEF AfterModel, nodeVars
  <2>2. CASE pc' = "inline"
    <3>1. PICK p \in DOMAIN messages : Waiting(p)
      BY <1>4 DEF AfterModel, MessagesInv
    <3>2. /\ p = Len(messages) /\ messages' = messages /\ calls' = calls /\ dropped' = dropped
          /\ callState' = [i \in DOMAIN calls |-> "planned"]
      BY <1>4, <2>2, <3>1 DEF AfterModel, Waiting, nodeVars
    <3>3. \A k : Settled(k)' <=> Settled(k) BY <3>2 DEF Settled, AnsweredUpTo
    <3>4. p \in Nat /\ Len(calls) \in Nat /\ DOMAIN calls = 1 .. Len(calls)
      BY <3>2 DEF ReactTypeOK
    <3>5. \A i \in 1 .. Len(messages) - p : FALSE BY <3>2, <3>4
    <3>6. \A i \in DOMAIN calls : ~(p + i <= p) /\ p + i > p
      <4>1. \A i \in Nat \ {0} : ~(p + i <= p) /\ p + i > p BY <3>4
      <4>2. \A i \in DOMAIN calls : i \in Nat \ {0} BY <3>4
      <4> QED BY <4>1, <4>2
    <3>7. p <= p + Len(calls) BY <3>4
    <3>8. Waiting(p)' BY <2>2, <3>1, <3>2, <3>3, <3>5, <3>6, <3>7 DEF Waiting
    <3> QED BY <3>2, <3>8, <2>2 DEF MessagesInv
  <2> QED BY <2>1, <2>2
<1>5. CASE InlineReturn
  <2>1. PICK p \in DOMAIN messages : Waiting(p)
    BY <1>5 DEF InlineReturn, MessagesInv
  <2>2. PICK c \in Nat : c = Len(calls) /\ DOMAIN calls = 1 .. c
    BY DEF ReactTypeOK
  <2>3. PICK n \in Nat : n = Len(messages) /\ p \in 1 .. n
    <3>1. messages \in Seq(Message) BY DEF ReactTypeOK
    <3>2. PICK n \in Nat : n = Len(messages) BY <3>1
    <3>3. p \in 1 .. n BY <3>1, <3>2
    <3> QED BY <3>2, <3>3
  <2>4. n <= p + c BY <1>5, <2>1, <2>2, <2>3 DEF Waiting, InlineReturn
  <2>5. p + c <= n
    <3>1. c \in 1 .. c => p + c <= n
      BY <1>5, <2>1, <2>2, <2>3 DEF Waiting, InlineReturn, Is
    <3> QED BY <2>2, <2>3, <3>1
  <2>6. Len(messages) = p + c /\ c \in 0 .. Len(calls) BY <2>2, <2>3, <2>4, <2>5
  <2> QED
    BY <1>5, <2>1, <2>2, <2>6, InlineEnds
      DEF InlineReturn, AfterInline, nodeVars, toolVars
<1>6. ASSUME NEW i \in DOMAIN calls, InlineFails(i) PROVE MessagesInv'
  <2>1. PICK p \in DOMAIN messages : Waiting(p)
    BY <1>6 DEF InlineFails, MessagesInv
  <2>2. Len(messages) = p + (i - 1) BY <1>6, <2>1, InlineOrder DEF InlineFails
  <2>3. i - 1 \in 0 .. Len(calls) BY DEF ReactTypeOK
  <2> QED BY <1>6, <2>1, <2>2, <2>3, InlineEnds DEF InlineFails, AfterInline
<1> QED
  BY <1>1, <1>2, <1>3, <1>4, <1>5, <1>6, GenerateKeeps, InlineCallKeeps
    DEF LoopSteps

ToolSteps ==
    \/ NextBatch \/ BatchDone
    \/ \E i \in DOMAIN calls :
         Acquire(i) \/ executeOne(i) \/ Answer(i) \/ MiddlewareFails(i)

LEMMA ToolStepsFrame ==
    ASSUME ReactInv, ToolSteps
    PROVE  /\ pc = "tools" /\ pc' = "tools"
           /\ UNCHANGED <<messages, calls, dropped>>
           /\ callState' \in [DOMAIN calls -> CallStates]
           /\ batch' \subseteq DOMAIN calls
<1>1. pc = "tools" /\ pc' = pc /\ UNCHANGED <<messages, calls, dropped>>
  BY DEF ToolSteps, ReactInv, BatchesInOrder, NextBatch, BatchDone, Acquire,
         executeOne, Answer, MiddlewareFails, nodeVars
<1>2. callState \in [DOMAIN calls -> CallStates] /\ batch \subseteq DOMAIN calls
  BY <1>1 DEF ReactInv, ReactTypeOK
<1>3. callState' \in [DOMAIN calls -> CallStates]
  BY <1>2
  DEF ToolSteps, CallStates, NextBatch, BatchDone, Acquire, executeOne, Answer, MiddlewareFails
<1>4. \A i \in DOMAIN calls : planBatch(i) \subseteq DOMAIN calls
  <2>1. DOMAIN calls = 1 .. Len(calls) /\ Len(calls) \in Nat
    BY DEF ReactInv, ReactTypeOK
  <2> QED BY <2>1 DEF planBatch
<1>5. batch' \subseteq DOMAIN calls
  BY <1>2, <1>4
  DEF ToolSteps, NextBatch, BatchDone, Acquire, executeOne, Answer, MiddlewareFails
<1> QED BY <1>1, <1>3, <1>5

LEMMA ToolStepsType == ASSUME ReactInv, ToolSteps PROVE ReactTypeOK' /\ AnswersKept'
<1>1. /\ pc = "tools" /\ pc' = "tools" /\ UNCHANGED <<messages, calls, dropped>>
      /\ callState' \in [DOMAIN calls -> CallStates] /\ batch' \subseteq DOMAIN calls
  BY ToolStepsFrame
<1>2. answers' \subseteq DOMAIN calls
  BY <1>1
    DEF ReactInv, ReactTypeOK, ToolSteps, NextBatch, BatchDone, Acquire,
        executeOne, Answer, MiddlewareFails
<1>3. \A i \in DOMAIN calls : calls[i] \in Tool \cup Unknown
  BY DEF ReactInv, ReactTypeOK
<1>4. sameArgs' \in [Tool \cup Unknown -> Nat] /\ invoked' \in [Tool -> Nat]
  BY <1>3
    DEF ReactInv, ReactTypeOK, ToolSteps, NextBatch, BatchDone, Acquire,
        executeOne, Answer, MiddlewareFails
<1>5. ReactTypeOK' BY <1>1, <1>2, <1>4 DEF ReactInv, ReactTypeOK
<1>6. AnswersKept'
  <2>1. callState \in [DOMAIN calls -> CallStates]
    BY <1>1 DEF ReactInv, ReactTypeOK
  <2>2. CASE NextBatch
    <3>1. UNCHANGED <<answers, firstErr>> BY <2>2 DEF NextBatch
    <3>2. \A i \in DOMAIN calls : Is(i, "done")' => Is(i, "done")
      BY <2>2 DEF NextBatch, Is
    <3> QED BY <1>1, <3>1, <3>2 DEF ReactInv, AnswersKept
  <2>3. CASE BatchDone BY <1>1, <2>3 DEF BatchDone, ReactInv, AnswersKept, Is
  <2>4. ASSUME NEW i \in DOMAIN calls, Acquire(i) PROVE AnswersKept'
    BY <1>1, <2>1, <2>4 DEF Acquire, ReactInv, AnswersKept, Is
  <2>5. ASSUME NEW i \in DOMAIN calls, executeOne(i) PROVE AnswersKept'
    BY <1>1, <2>1, <2>5 DEF executeOne, ReactInv, AnswersKept, Is
  <2>6. ASSUME NEW i \in DOMAIN calls, Answer(i) PROVE AnswersKept'
    BY <1>1, <2>1, <2>6 DEF Answer, ReactInv, AnswersKept, Is
  <2>7. ASSUME NEW i \in DOMAIN calls, MiddlewareFails(i) PROVE AnswersKept'
    BY <1>1, <2>7 DEF MiddlewareFails, AnswersKept
  <2> QED BY <2>2, <2>3, <2>4, <2>5, <2>6, <2>7 DEF ToolSteps
<1> QED BY <1>5, <1>6

LEMMA NextBatchInOrder == ASSUME ReactInv, NextBatch PROVE BatchesInOrder'
<1>1. PICK c \in Nat : c = Len(calls) /\ DOMAIN calls = 1 .. c
  BY DEF ReactInv, ReactTypeOK
<1>2. PICK i \in 1 .. c :
         /\ Is(i, "planned") /\ \A j \in 1 .. i - 1 : ~Is(j, "planned")
         /\ batch' = planBatch(i)
         /\ callState' = [j \in DOMAIN calls |->
                            IF j \in planBatch(i) THEN "ready" ELSE callState[j]]
  BY <1>1 DEF NextBatch
<1>3. /\ pc = "tools" /\ pc' = "tools" /\ calls' = calls /\ batch = {}
      /\ callState \in [1 .. c -> CallStates]
  BY <1>1 DEF NextBatch, ReactInv, ReactTypeOK
<1>4. \A j \in 1 .. c :
         /\ j < i => Is(j, "done")
         /\ j >= i => Is(j, "planned")
  <2>1. \A j \in 1 .. c : Is(j, "planned") \/ Is(j, "done")
    BY <1>1, <1>3 DEF ReactInv, BatchesInOrder
  <2>2. \A j \in 1 .. c : i < j => Is(j, "planned")
    BY <1>1, <1>2, <1>3 DEF ReactInv, BatchesInOrder
  <2>3. \A j \in 1 .. c : j < i => j \in 1 .. i - 1 BY <1>1, <1>2
  <2>4. \A j \in 1 .. c : j >= i => i < j \/ j = i BY <1>1, <1>2
  <2> QED BY <1>2, <2>1, <2>2, <2>3, <2>4 
<1>5. /\ \A j \in planBatch(i) : j >= i /\ j \in 1 .. c /\ (~Parallel(j) => planBatch(i) = {j})
      /\ \A b \in planBatch(i), j \in 1 .. c : i <= j /\ j < b => j \in planBatch(i)
  <2>1. CASE ~Parallel(i) BY <1>1, <2>1 DEF planBatch
  <2>2. CASE Parallel(i)
    <3>1. planBatch(i) = {j \in i .. c : \A k \in i .. j : Parallel(k)}
      BY <1>1, <2>2 DEF planBatch
    <3>2. \A j \in planBatch(i) : j >= i /\ j \in 1 .. c /\ Parallel(j)
      <4> HIDE DEF Parallel
      <4> QED BY <1>1, <1>2, <3>1
    <3>3. ASSUME NEW b \in planBatch(i), NEW j \in 1 .. c, i <= j, j < b PROVE j \in planBatch(i)
      <4>1. b \in i .. c /\ \A k \in i .. b : Parallel(k) BY <3>1
      <4>2. j \in i .. c /\ \A k \in i .. j : k \in i .. b
        BY <1>1, <1>2, <3>3, <4>1
      <4> QED BY <3>1, <4>1, <4>2
    <3> QED BY <3>2, <3>3
  <2> QED BY <2>1, <2>2
<1>6. \A j \in 1 .. c : callState'[j] = IF j \in planBatch(i) THEN "ready" ELSE callState[j]
  BY <1>1, <1>2
<1>7. ASSUME NEW k \in 1 .. c
      PROVE  /\ k \in planBatch(i) => callState'[k] # "planned" /\ (~Parallel(k) => planBatch(i) = {k})
             /\ k \notin planBatch(i) => callState'[k] = "planned" \/ callState'[k] = "done"
  BY <1>4, <1>5, <1>6 DEF Is
<1>8. ASSUME NEW k \in 1 .. c, NEW j \in 1 .. c
      PROVE  /\ j < k /\ callState'[k] # "planned" => callState'[j] # "planned"
             /\ k < j /\ k \in planBatch(i) /\ j \notin planBatch(i) => callState'[j] = "planned"
  <2>1. ASSUME j < k, callState'[k] # "planned" PROVE callState'[j] # "planned"
    <3>1. j < i \/ i <= j BY <1>1, <1>2
    <3>2. CASE j < i BY <1>4, <1>6, <3>2 DEF Is
    <3>3. CASE i <= j
      <4>1. k >= i BY <1>1, <1>2, <2>1, <3>3
      <4>2. k \in planBatch(i) BY <1>4, <1>6, <2>1, <4>1 DEF Is
      <4>3. j \in planBatch(i) BY <1>5, <2>1, <3>3, <4>2
      <4> QED BY <1>6, <4>3
    <3> QED BY <3>1, <3>2, <3>3
  <2>2. ASSUME k < j, k \in planBatch(i), j \notin planBatch(i) PROVE callState'[j] = "planned"
    <3>1. k >= i BY <1>5, <2>2
    <3>2. j >= i BY <1>1, <1>2, <2>2, <3>1
    <3> QED BY <1>4, <1>6, <2>2, <3>2 DEF Is
  <2> QED BY <2>1, <2>2
<1> QED BY <1>1, <1>2, <1>3, <1>7, <1>8 DEF BatchesInOrder, Is, Parallel

LEMMA ToolStepsInOrder == ASSUME ReactInv, ToolSteps PROVE BatchesInOrder'
<1>1. /\ pc = "tools" /\ pc' = "tools" /\ calls' = calls
      /\ callState \in [DOMAIN calls -> CallStates]
  BY ToolStepsFrame DEF ReactInv, ReactTypeOK
<1>2. CASE NextBatch BY <1>2, NextBatchInOrder
<1>3. CASE BatchDone
  <2>1. batch' = {} /\ callState' = callState /\ \A i \in batch : Is(i, "done")
    BY <1>3 DEF BatchDone
  <2> QED BY <1>1, <2>1 DEF ReactInv, BatchesInOrder, Is, Parallel
<1>4. ASSUME NEW i \in batch, NEW s \in {"started", "running", "done"},
             callState' = [callState EXCEPT ![i] = s], batch' = batch
      PROVE  BatchesInOrder'
  <2>1. i \in DOMAIN calls /\ callState[i] # "planned"
    BY <1>1 DEF ReactInv, ReactTypeOK, BatchesInOrder, Is
  <2>2. \A j \in DOMAIN calls :
           /\ callState'[j] = (IF j = i THEN s ELSE callState[j])
           /\ callState'[j] = "planned" <=> callState[j] = "planned"
    BY <1>1, <1>4, <2>1
  <2> QED BY <1>1, <1>4, <2>1, <2>2 DEF ReactInv, BatchesInOrder, Is, Parallel
<1>5. ASSUME NEW i \in DOMAIN calls,
             Acquire(i) \/ executeOne(i) \/ Answer(i) \/ MiddlewareFails(i)
      PROVE  BatchesInOrder'
  <2>1. /\ i \in batch /\ batch' = batch
        /\ \E s \in {"started", "running", "done"} : callState' = [callState EXCEPT ![i] = s]
    BY <1>5 DEF Acquire, executeOne, Answer, MiddlewareFails
  <2> QED BY <1>4, <2>1
<1> QED BY <1>2, <1>3, <1>5 DEF ToolSteps

LEMMA ToolStepsLimits == ASSUME ReactConstants, ReactInv, ToolSteps PROVE LimitsKept'
<1>1. /\ callState \in [DOMAIN calls -> CallStates] /\ batch \subseteq DOMAIN calls
      /\ sameArgs \in [Tool \cup Unknown -> Nat] /\ invoked \in [Tool -> Nat]
      /\ calls' = calls
  BY ToolStepsFrame DEF ReactInv, ReactTypeOK
<1>2. IsFiniteSet(Holding) /\ Cardinality(Holding) \in Nat
  <2>1. IsFiniteSet(DOMAIN calls)
    <3>1. DOMAIN calls = 1 .. Len(calls) /\ Len(calls) \in Nat
      BY DEF ReactInv, ReactTypeOK
    <3> QED BY <3>1, FS_Interval
  <2>2. Holding \subseteq DOMAIN calls BY <1>1 DEF Holding
  <2> QED BY <2>1, <2>2, FS_Subset, FS_CardinalityType
<1>3. Cardinality(Holding') <= maxConcurrency
  <2>1. Holding' \subseteq Holding => Cardinality(Holding') <= maxConcurrency
    <3>1. Cardinality(Holding) <= maxConcurrency /\ maxConcurrency \in Nat
      BY DEF ReactInv, LimitsKept, ReactConstants
    <3>2. ASSUME Holding' \subseteq Holding
          PROVE  Cardinality(Holding') \in Nat /\ Cardinality(Holding') <= Cardinality(Holding)
      BY <1>2, <3>2, FS_Subset, FS_CardinalityType
    <3> QED BY <1>2, <3>1, <3>2
  <2>2. CASE NextBatch
    <3>1. Holding' = {} BY <2>2, <1>1, ToolStepsFrame DEF NextBatch, Holding
    <3> QED BY <2>1, <3>1
  <2>3. CASE BatchDone
    <3>1. Holding' = {} BY <2>3 DEF BatchDone, Holding
    <3> QED BY <2>1, <3>1
  <2>4. ASSUME NEW i \in DOMAIN calls, Acquire(i) PROVE Cardinality(Holding') <= maxConcurrency
    <3>1. Holding' = Holding \cup {i} BY <1>1, <2>4 DEF Acquire, Holding
    <3>2. Cardinality(Holding') <= Cardinality(Holding) + 1
      <4>1. Cardinality(Holding \cup {i}) =
              IF i \in Holding THEN Cardinality(Holding) ELSE Cardinality(Holding) + 1
        BY <1>2, FS_AddElement
      <4> QED BY <1>2, <3>1, <4>1
    <3>3. IsFiniteSet(Holding') /\ Cardinality(Holding') \in Nat
      BY <1>2, <3>1, FS_AddElement, FS_CardinalityType
    <3> QED BY <1>2, <2>4, <3>2, <3>3 DEF Acquire, ReactConstants
  <2>5. ASSUME NEW i \in DOMAIN calls, executeOne(i) \/ Answer(i) \/ MiddlewareFails(i)
        PROVE  Cardinality(Holding') <= maxConcurrency
    <3>1. Holding' \subseteq Holding
      BY <1>1, <2>5 DEF executeOne, Answer, MiddlewareFails, Holding, Is
    <3> QED BY <2>1, <3>1
  <2> QED BY <2>2, <2>3, <2>4, <2>5 DEF ToolSteps
<1>4. ASSUME NEW t \in Tool PROVE invoked'[t] <= sameArgs'[t] /\ invoked'[t] < MaxSame
  <2>1. /\ invoked[t] <= sameArgs[t] /\ invoked[t] < MaxSame /\ MaxSame \in Nat
        /\ invoked[t] \in Nat /\ sameArgs[t] \in Nat
    BY <1>1 DEF ReactInv, LimitsKept, ReactConstants
  <2>2. ASSUME NEW i \in DOMAIN calls, executeOne(i)
        PROVE  invoked'[t] <= sameArgs'[t] /\ invoked'[t] < MaxSame
    <3>1. calls[i] \in Tool \cup Unknown BY DEF ReactInv, ReactTypeOK
    <3>2. sameArgs'[t] = IF calls[i] = t THEN sameArgs[t] + 1 ELSE sameArgs[t]
      BY <1>1, <2>2, <3>1 DEF executeOne
    <3>3. \/ invoked' = invoked
          \/ /\ ~(sameArgs'[calls[i]] >= MaxSame)
             /\ invoked' = [invoked EXCEPT ![calls[i]] = @ + 1]
      BY <2>2 DEF executeOne, Limit
    <3>4. CASE invoked' = invoked BY <2>1, <3>2, <3>4
    <3>5. CASE /\ ~(sameArgs'[calls[i]] >= MaxSame)
               /\ invoked' = [invoked EXCEPT ![calls[i]] = @ + 1]
      <4>1. invoked'[t] = IF calls[i] = t THEN invoked[t] + 1 ELSE invoked[t]
        BY <1>1, <3>5
      <4>2. CASE calls[i] = t BY <2>1, <3>2, <3>5, <4>1, <4>2
      <4>3. CASE calls[i] # t BY <2>1, <3>2, <4>1, <4>3
      <4> QED BY <4>2, <4>3
    <3> QED BY <3>3, <3>4, <3>5
  <2>3. CASE ~ \E i \in DOMAIN calls : executeOne(i)
    BY <2>1, <2>3
      DEF ToolSteps, NextBatch, BatchDone, Acquire, Answer, MiddlewareFails
  <2> QED BY <2>2, <2>3
<1> QED BY <1>3, <1>4 DEF LimitsKept

\* Execute returns: without an error the calls are all answered.
LEMMA ReturnKeeps == ASSUME ReactConstants, ReactInv, Return PROVE ReactInv'
<1>1. PICK c \in Nat : c = Len(calls) /\ DOMAIN calls = 1 .. c
  BY DEF ReactInv, ReactTypeOK
<1>2. /\ pc = "tools" /\ pc' \in {"idle", "prepare", "finish"} /\ dropped' = dropped
      /\ UNCHANGED <<calls, batch, callState, answers, firstErr, sameArgs, invoked>>
      /\ batch = {}
  BY DEF Return, toolVars, nodeVars
<1>3. BatchesInOrder' /\ AnswersKept' BY <1>2 DEF BatchesInOrder, AnswersKept
<1>4. LimitsKept' BY <1>2 DEF ReactInv, LimitsKept, Holding
<1>5. CASE firstErr
  <2>1. ReactTypeOK' BY <1>2, <1>5 DEF Return, ReactInv, ReactTypeOK
  <2>2. MessagesInv' BY <1>2, <1>5 DEF Return, MessagesInv
  <2> QED BY <1>3, <1>4, <2>1, <2>2 DEF ReactInv
<1>6. CASE ~firstErr
  <2>1. answers = 1 .. c
    BY <1>1, <1>2, <1>6 DEF Return, ReactInv, ReactTypeOK, AnswersKept
  <2>2. Cardinality(answers) = c
    <3>1. Cardinality(1 .. c) = IF 1 > c THEN 0 ELSE c - 1 + 1 BY FS_Interval
    <3>2. c = 0 \/ c >= 1 OBVIOUS
    <3> QED BY <2>1, <3>1, <3>2
  <2>3. \A i \in 1 .. c : Cardinality({j \in answers : j <= i}) = i
    <3> SUFFICES ASSUME NEW i \in 1 .. c PROVE Cardinality({j \in answers : j <= i}) = i
      OBVIOUS
    <3>1. {j \in answers : j <= i} = 1 .. i BY <1>1, <2>1
    <3>2. Cardinality(1 .. i) = i BY <1>1, FS_Interval
    <3> QED BY <3>1, <3>2
  <2> DEFINE Nth(k) == CHOOSE i \in answers : Cardinality({j \in answers : j <= i}) = k
  <2>4. \A k \in 1 .. c : Nth(k) = k
    BY <2>1, <2>3
  <2>5. messages' = messages \o [k \in 1 .. c |-> ToolMessage(k)]
    <3>1. messages' = messages \o [k \in 1 .. Cardinality(answers) |-> ToolMessage(Nth(k))]
      BY <1>6 DEF Return
    <3> HIDE DEF Nth
    <3>2. [k \in 1 .. Cardinality(answers) |-> ToolMessage(Nth(k))]
            = [k \in 1 .. c |-> ToolMessage(k)]
      BY <2>2, <2>4
    <3> QED BY <3>1, <3>2
  <2> DEFINE new == [k \in 1 .. c |-> ToolMessage(k)]
  <2>6. new \in Seq(Message) /\ Len(new) = c
    BY <1>1, ToolMessageType
  <2>7. PICK n \in Nat : n = Len(messages) /\ messages \in Seq(Message)
    BY DEF ReactInv, ReactTypeOK
  <2>8. /\ messages' \in Seq(Message) /\ Len(messages') = n + c
        /\ \A i \in 1 .. n : messages'[i] = messages[i]
        /\ \A i \in 1 .. c : messages'[n + i] = ToolMessage(i)
    <3>1. \A i \in 1 .. c : new[i] = ToolMessage(i) OBVIOUS
    <3> HIDE DEF new
    <3>2. messages' = messages \o new BY <2>5 DEF new
    <3>3. messages' \in Seq(Message) /\ Len(messages') = n + c
      <4>1. Len(messages \o new) = Len(messages) + Len(new) BY <2>6, <2>7
      <4>2. messages \o new \in Seq(Message) BY <2>6, <2>7
      <4> QED BY <2>6, <2>7, <3>2, <4>1, <4>2
    <3>4. \A i \in 1 .. n : messages'[i] = messages[i] BY <2>6, <2>7, <3>2
    <3>5. \A i \in 1 .. c : messages'[n + i] = ToolMessage(i)
      BY <1>1, <2>6, <2>7, <3>1, <3>2
    <3> QED BY <3>3, <3>4, <3>5
  <2>9. Waiting(n) /\ n \in 1 .. n
    <3>1. PICK p \in DOMAIN messages : Waiting(p)
      BY <1>2 DEF ReactInv, MessagesInv
    <3>2. p = n BY <1>2, <2>7, <3>1 DEF Waiting
    <3> QED BY <2>7, <3>1, <3>2
  <2>10. ASSUME NEW k \in 1 .. n - 1, messages'[k].role = "model" PROVE Settled(k)'
    <3>1. k \in 1 .. n /\ k < n /\ n \in DOMAIN messages /\ k \in DOMAIN messages
      BY <2>7, <2>9
    <3>2. Settled(k) /\ messages[n].role = "model"
      BY <2>8, <2>9, <2>10, <3>1 DEF Waiting, Assistant
    <3>3. Len(messages) <= Len(messages') /\ \A i \in 1 .. Len(messages) : messages'[i] = messages[i]
      <4>1. n <= n + c BY <1>1, <2>7
      <4> QED BY <2>7, <2>8, <4>1
    <3> QED BY <1>2, <2>7, <2>8, <3>1, <3>2, <3>3, SettledStays
  <2>11. Settled(n)'
    <3>1. messages'[n] = Assistant(calls) BY <2>8, <2>9 DEF Waiting
    <3>2. AnsweredUpTo(n, c)'
      <4>1. n + c <= Len(messages') /\ ~(n + c < Len(messages'))
        BY <1>1, <2>7, <2>8
      <4> QED BY <2>8, <4>1 DEF AnsweredUpTo
    <3>3. Len(messages'[n].calls) = c BY <1>1, <3>1 DEF Assistant
    <3> QED BY <1>1, <3>2, <3>3 DEF Settled
  <2>12. ASSUME NEW k \in DOMAIN messages', messages'[k].role = "model" PROVE Settled(k)'
    <3>1. k \in 1 .. n + c BY <2>8
    <3>2. k \in 1 .. n - 1 \/ k = n \/ k - n \in 1 .. c BY <1>1, <2>7, <3>1
    <3>3. CASE k - n \in 1 .. c
      <4>1. k = n + (k - n) BY <2>7, <3>1
      <4>2. messages'[k] = ToolMessage(k - n) BY <2>8, <3>3, <4>1
      <4> QED BY <2>12, <4>2 DEF ToolMessage
    <3> QED BY <2>10, <2>11, <2>12, <3>2, <3>3
  <2>13. MessagesInv' BY <1>2, <2>12 DEF MessagesInv
  <2>14. ReactTypeOK' BY <1>2, <2>8 DEF ReactInv, ReactTypeOK
  <2> QED BY <1>3, <1>4, <2>13, <2>14 DEF ReactInv
<1> QED BY <1>5, <1>6

LEMMA ReactInvNext ==
    ASSUME ReactConstants, ReactInv, ReactNext \/ UNCHANGED reactVars PROVE ReactInv'
<1>1. CASE LoopSteps
  BY <1>1, LoopStepsType, LoopStepsBatches, LoopStepsMessages DEF ReactInv
<1>2. CASE ToolSteps
  <2>1. MessagesInv' BY <1>2, ToolStepsFrame, SameMessages DEF ReactInv
  <2> QED
    BY <1>2, <2>1, ToolStepsType, ToolStepsInOrder, ToolStepsLimits DEF ReactInv
<1>3. CASE Return BY <1>3, ReturnKeeps
<1>4. CASE UNCHANGED reactVars
  <2>1. UNCHANGED <<messages, pc, calls, batch, callState, answers, firstErr, sameArgs, invoked,
                    dropped>>
    BY <1>4 DEF reactVars
  <2>2. \A k : Settled(k)' <=> Settled(k) BY <2>1 DEF Settled, AnsweredUpTo
  <2>3. MessagesInv'
    BY <2>1, <2>2 DEF ReactInv, MessagesInv, Waiting
  <2>4. ReactTypeOK' BY <2>1 DEF ReactInv, ReactTypeOK
  <2>5. BatchesInOrder' BY <2>1 DEF ReactInv, BatchesInOrder, Is, Parallel
  <2>6. AnswersKept' /\ LimitsKept'
    BY <2>1 DEF ReactInv, AnswersKept, LimitsKept, Is, Holding
  <2> QED BY <2>3, <2>4, <2>5, <2>6 DEF ReactInv
<1> QED BY <1>1, <1>2, <1>3, <1>4 DEF ReactNext, LoopSteps, ToolSteps

LEMMA ReactInvSound == ASSUME ReactConstants, ReactInv PROVE CallsAnswered /\ ToolsRunSafely
<1>1. CallsAnswered BY DEF ReactInv, MessagesInv, CallsAnswered
<1>2. ASSUME pc = "tools", NEW i \in DOMAIN calls, ~Parallel(i),
             callState[i] \in {"started", "running"}
      PROVE  /\ Holding = {i}
             /\ \A j \in 1 .. i - 1 : Is(j, "done")
             /\ \A j \in i + 1 .. Len(calls) : Is(j, "planned")
  <2>1. PICK c \in Nat : c = Len(calls) /\ DOMAIN calls = 1 .. c
    BY DEF ReactInv, ReactTypeOK
  <2>2. i \in batch /\ ~Is(i, "planned") /\ batch = {i}
    BY <1>2 DEF ReactInv, BatchesInOrder, Is
  <2>3. Holding = {i} BY <1>2, <2>2 DEF Holding
  <2>4. ASSUME NEW j \in 1 .. i - 1 PROVE Is(j, "done")
    <3>1. j \in 1 .. c /\ j < i BY <2>1
    <3>2. j \notin batch /\ j \in DOMAIN calls BY <2>1, <2>2, <3>1
    <3> QED BY <1>2, <2>2, <3>1, <3>2 DEF ReactInv, BatchesInOrder
  <2>5. ASSUME NEW j \in i + 1 .. c PROVE Is(j, "planned")
    <3>1. j \in 1 .. c /\ i < j BY <2>1
    <3>2. j \notin batch /\ j \in DOMAIN calls BY <2>1, <2>2, <3>1
    <3> QED BY <1>2, <2>2, <3>1, <3>2 DEF ReactInv, BatchesInOrder
  <2> QED BY <2>1, <2>3, <2>4, <2>5
<1>3. ToolsRunSafely BY <1>2 DEF ToolsRunSafely, ReactInv, LimitsKept
<1> QED BY <1>1, <1>3

\* Whatever the model calls and however the tools run, fail or panic, every
\* call of an answer is answered before the model is asked again, in its
\* place; tools that write run alone, and the limits are kept
\* (buildReActRunFunc, ToolsNode.Execute, executeInlineTools, LoopGuard).
THEOREM ToolCallsAreAnswered ==
    ASSUME ReactConstants
    PROVE  ReactInit /\ [][ReactNext]_reactVars => [](CallsAnswered /\ ToolsRunSafely)
<1>1. ReactInit => ReactInv BY ReactInvInit
<1>2. ReactInv /\ [ReactNext]_reactVars => ReactInv' BY ReactInvNext
<1>3. ReactInv => CallsAnswered /\ ToolsRunSafely BY ReactInvSound
<1> QED BY <1>1, <1>2, <1>3, PTL

=============================================================================
