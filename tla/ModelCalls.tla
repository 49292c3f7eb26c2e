----------------------------- MODULE ModelCalls -----------------------------
(***************************************************************************)
(* One call of an agent's model through the wrappers around it             *)
(* (agentcore/model_chain.go, retry.go, failover.go, state_guard.go): the  *)
(* retry in its two forms, the failover to other models and the events of  *)
(* the answers, for Generate and for Stream.                               *)
(*                                                                         *)
(* The wrappers know two execution contexts.  The one that                 *)
(* BuildModelWrapperChain is given is nil wherever it is called, so        *)
(* neither the event sender, the cancel check nor the sender of a          *)
(* middleware, which asks context.Background(), does anything.  The one in *)
(* the session's values, which the retry asks for, is put there by the     *)
(* tests of the wrappers alone.  What an agent's client receives is the    *)
(* event the agent itself sends (react_loop.go, react_agent.go).           *)
(*                                                                         *)
(* What a model answers, what ShouldRetry and ShouldFailover decide and    *)
(* whether the context ends during a back-off are external.  Messages are  *)
(* left out.                                                               *)
(***************************************************************************)
EXTENDS Integers, Sequences, SequencesExt, TLAPS

CONSTANTS
    MaxRetries,     \* of the retry configuration
    Models          \* the number of models: the agent's own and its backups

\* An agent calls Generate and has no execution context in its session;
\* without an agent, a caller of the wrappers may have and may call Stream.
Configs ==
    {c \in [retry: {"none", "legacy", "should"}, failover: BOOLEAN,
            streaming: BOOLEAN, agent: BOOLEAN, session: BOOLEAN] :
       c.agent => ~c.streaming /\ ~c.session}

\* What a call of the model brings.  A stream's first frame is read by the
\* retry: "badFirst" is a stream whose first frame is an error, "empty" one
\* that ends before any.
Answers(c) ==
    {"ok", "error", "fatal", "cancelled"} \cup
    IF c.streaming THEN {"badFirst", "cancelledFirst", "empty"} ELSE {}

VARIABLES
    cfg,            \* how the agent is configured
    chainPc, attempt,
    model,          \* of the failover's models, the one that is called
    calls,          \* history: the model and the answer of every call
    sent,           \* which calls' answers were sent as events
    outcome

chainVars == <<cfg, chainPc, attempt, model, calls, sent, outcome>>

ChainInit ==
    /\ cfg \in Configs
    /\ chainPc = "start" /\ attempt = 0 /\ model = 1
    /\ calls = <<>> /\ sent = <<>>
    /\ outcome = "none"

-----------------------------------------------------------------------------
(* BuildModelWrapperChain.  The failover is built around the bare models:  *)
(* with it there is neither an event sender nor a retry.                   *)

Retries == IF cfg.failover THEN "none" ELSE cfg.retry

Done(o) == chainPc' = "done" /\ outcome' = o /\ UNCHANGED <<attempt, model>>

\* A stream with ShouldRetry needs the session's execution context, and panics
\* without.
Start ==
    /\ chainPc = "start"
    /\ IF cfg.streaming /\ Retries = "should" /\ ~cfg.session THEN Done("panic")
       ELSE chainPc' = "call" /\ UNCHANGED <<attempt, model, outcome>>
    /\ UNCHANGED <<cfg, calls, sent>>

\* One call of the model.
Call(r) ==
    /\ chainPc = "call" /\ r \in Answers(cfg)
    /\ calls' = Append(calls, [model |-> model, answer |-> r])
    /\ chainPc' = "judge"
    /\ UNCHANGED <<cfg, attempt, model, sent, outcome>>

Answer == Last(calls).answer

\* Mutant: one attempt too few.
Again_Short == attempt + 1 < MaxRetries

Again == attempt < MaxRetries

\* The end of an attempt that is to be repeated.
RetryOrGiveUp ==
    IF Again THEN chainPc' = "backoff" /\ UNCHANGED <<attempt, model, outcome>>
    ELSE Done("exhausted")

\* generateLegacy, streamLegacy.  The stream that is empty is an error too.
JudgeLegacy ==
    /\ chainPc = "judge" /\ Retries = "legacy"
    /\ CASE Answer = "ok" -> Done("ok")
         [] Answer \in {"cancelled", "cancelledFirst"} -> Done("cancelled")
         [] Answer = "fatal" -> Done("error")
         [] OTHER -> RetryOrGiveUp
    /\ UNCHANGED <<cfg, calls, sent>>

\* Mutant: the answer is sent before it is judged.
Sends_Rejected(accepted) == cfg.session /\ Answer = "ok"

\* The retry sends an answer that it accepts, if it has where to.
Sends(accepted) == accepted /\ cfg.session /\ Answer = "ok"

\* generateWithShouldRetry, streamWithShouldRetry: what ShouldRetry decides on
\* an answer, d, or on an error.  Only an error of Stream itself is told from
\* a cancel, and an answer that is a stream is accepted without asking.  The
\* event of a stream is sent at its end, if that is no error.
JudgeShould(d, ends) ==
    LET failed == Answer \notin {"ok", "empty"}
        accepted == IF cfg.streaming THEN ~failed ELSE ~failed /\ d = "accept"
    IN
    /\ chainPc = "judge" /\ Retries = "should"
    /\ CASE Answer = "cancelled" -> Done("cancelled")
         [] Answer # "cancelled" /\ accepted -> Done("ok")
         [] Answer # "cancelled" /\ ~accepted /\ d = "retry" -> RetryOrGiveUp
         [] OTHER -> Done("error")
    /\ sent' = IF Sends(accepted) /\ (cfg.streaming => ends)
               THEN Append(sent, Len(calls)) ELSE sent
    /\ UNCHANGED <<cfg, calls>>

\* contextAwareSleep, and the next attempt unless the context ended.
BackOff(ended) ==
    /\ chainPc = "backoff"
    /\ IF ended THEN Done("context")
       ELSE attempt' = attempt + 1 /\ chainPc' = "call" /\ UNCHANGED <<model, outcome>>
    /\ UNCHANGED <<cfg, calls, sent>>

Failed == Answer \in {"error", "fatal", "cancelled"}

\* failoverModel: the next model, whatever the error was, if ShouldFailover
\* says so.  What a stream's frames are is not looked at.
JudgeFailover(should) ==
    /\ chainPc = "judge" /\ cfg.failover
    /\ IF ~Failed THEN Done("ok")
       ELSE IF model = Models \/ ~should THEN Done("error")
       ELSE model' = model + 1 /\ chainPc' = "call" /\ UNCHANGED <<attempt, outcome>>
    /\ UNCHANGED <<cfg, calls, sent>>

JudgePlain ==
    /\ chainPc = "judge" /\ Retries = "none" /\ ~cfg.failover
    /\ Done(IF ~Failed THEN "ok" ELSE IF Answer = "cancelled" THEN "cancelled" ELSE "error")
    /\ UNCHANGED <<cfg, calls, sent>>

\* The agent's own event for what Generate returned; for an error it is one of
\* the error.
AgentEnds ==
    /\ chainPc = "done" /\ cfg.agent
    /\ chainPc' = "returned"
    /\ sent' = IF outcome = "ok" THEN Append(sent, Len(calls)) ELSE sent
    /\ UNCHANGED <<cfg, attempt, model, calls, outcome>>

ChainNext ==
    \/ Start \/ JudgeLegacy \/ JudgePlain \/ AgentEnds
    \/ \E b \in BOOLEAN : BackOff(b) \/ JudgeFailover(b)
    \/ \E r \in {"ok", "error", "fatal", "cancelled", "badFirst", "cancelledFirst",
                 "empty"} : Call(r)
    \/ \E d \in {"accept", "retry", "rewrite"}, ends \in BOOLEAN : JudgeShould(d, ends)

-----------------------------------------------------------------------------
(* Properties.                                                             *)

AnswerOf(i) == calls[i].answer

\* The caller gets what the last call of the model brought, and only if that
\* succeeded; a call that was cancelled or accepted is not repeated on the
\* same model, nor by the plain retry one that may not be; "exceeds max
\* retries" is said after one call more than the limit, and without a failover
\* none is made beyond it; a failover calls each model at most once, in order.
\* No answer is sent that is not the one returned, and that one at most once:
\* by the agent that returns it always, by the retry of Generate if it may.
AnswersOnce ==
    /\ outcome = "ok" => AnswerOf(Len(calls)) \notin {"error", "fatal", "cancelled"}
    /\ outcome = "exhausted" => Len(calls) = MaxRetries + 1
    /\ ~cfg.failover => Len(calls) <= MaxRetries + 1
    /\ \A i \in 1 .. Len(calls) : cfg.failover => calls[i].model = i
    /\ \A i \in 1 .. Len(calls) - 1 :
         /\ calls[i].model = calls[i + 1].model => AnswerOf(i) # "cancelled"
         /\ AnswerOf(i) = "ok" => Retries = "should" /\ ~cfg.streaming
         /\ Retries = "legacy" => AnswerOf(i) \notin {"fatal", "cancelledFirst"}
    /\ sent = <<>> \/ (outcome = "ok" /\ sent = <<Len(calls)>>)
    /\ outcome = "ok" /\ sent = <<>> =>
         /\ chainPc # "returned"
         /\ Retries = "should" /\ cfg.session => cfg.streaming

-----------------------------------------------------------------------------
(***************************************************************************)
(* Two StreamReaders in a row (agentcore/schema/types.go) with a goroutine *)
(* between them that copies one into the other: the wrappers of a model's  *)
(* or a tool's stream in model_chain.go, state_guard.go, event_sender.go   *)
(* and retry.go, which all have this shape, and wrapStreamWithCancel of    *)
(* cancel.go, which an immediate cancel ends at any time.                  *)
(*                                                                         *)
(* A StreamReader is a channel and a plain field, closed, that Send and    *)
(* Close look at first.  Both ends of a stream close it.                   *)
(***************************************************************************)

CONSTANTS
    Chunks,         \* how many chunks the source sends
    Capacity,       \* of a StreamReader's channel (64 in the code)
    Copiers         \* a subset of {"wrapper", "retry", "cancel"}

Stream == {"in", "out"}
EOF == 0 - 1        \* frames that are no chunk
Failure == 0 - 2
Cancelled == 0 - 3

VARIABLES
    copier,         \* which copier is between the two streams
    fails,          \* the source's stream ends with an error
    frames,         \* what is in the channel of a stream
    closed,         \* the field
    shut,           \* the channel is closed
    source,         \* where the source is: its pc and the next chunk
    copy,           \* where the copier is: its pc and what it holds
    immediate,      \* immediateChan is closed
    received,       \* what the reader got
    panicked        \* a goroutine without a recover panicked

pipeVars == <<copier, fails, frames, closed, shut, source, copy, immediate, received,
              panicked>>

PipeInit ==
    /\ copier \in Copiers /\ fails \in BOOLEAN
    /\ frames = [s \in Stream |-> <<>>]
    /\ closed = [s \in Stream |-> FALSE] /\ shut = [s \in Stream |-> FALSE]
    /\ source = [pc |-> "send", next |-> 1]
    /\ copy = [pc |-> "recv", holds |-> EOF]
    /\ immediate = FALSE /\ received = <<>> /\ panicked = FALSE

-----------------------------------------------------------------------------
(* StreamReader.  Each of these is a step of its own: between the look at  *)
(* the field and the use of the channel the other end may close it.        *)

CanPut(s) == Len(frames[s]) < Capacity \/ shut[s]

\* The send on the channel, which may be closed by now.
Put(s, f) ==
    /\ CanPut(s)
    /\ IF shut[s] THEN panicked' = TRUE /\ UNCHANGED frames
       ELSE frames' = [frames EXCEPT ![s] = Append(@, f)] /\ UNCHANGED panicked

\* close(sr.ch): the second one panics.
Shut(s) ==
    /\ closed' = [closed EXCEPT ![s] = TRUE] /\ shut' = [shut EXCEPT ![s] = TRUE]
    /\ panicked' = (panicked \/ shut[s])

CanTake(s) == frames[s] # <<>> \/ shut[s]
Take(s) == IF frames[s] = <<>> THEN EOF ELSE Head(frames[s])
Taken(s) == frames' = [frames EXCEPT ![s] = IF @ = <<>> THEN @ ELSE Tail(@)]

-----------------------------------------------------------------------------
(* The source: its chunks, an error if it fails, and Close.                *)

SourceFrame == IF source.next <= Chunks THEN source.next ELSE Failure
SourceDone == source.next > (IF fails THEN Chunks + 1 ELSE Chunks)

SourceLook ==
    /\ ~panicked /\ source.pc \in {"send", "close"}
    /\ source' =
         IF source.pc = "send" /\ SourceDone THEN [source EXCEPT !.pc = "close"]
         ELSE IF source.pc = "send"
           THEN IF closed["in"] THEN [source EXCEPT !.next = @ + 1]
                ELSE [source EXCEPT !.pc = "put"]
           ELSE [source EXCEPT !.pc = IF closed["in"] THEN "done" ELSE "shut"]
    /\ UNCHANGED <<copier, fails, frames, closed, shut, copy, immediate, received, panicked>>

SourcePut ==
    /\ ~panicked /\ source.pc = "put"
    /\ Put("in", SourceFrame)
    /\ source' = [pc |-> "send", next |-> source.next + 1]
    /\ UNCHANGED <<copier, fails, closed, shut, copy, immediate, received>>

SourceShut ==
    /\ ~panicked /\ source.pc = "shut"
    /\ Shut("in")
    /\ source' = [source EXCEPT !.pc = "done"]
    /\ UNCHANGED <<copier, fails, frames, copy, immediate, received>>

-----------------------------------------------------------------------------
(* The copier.                                                             *)

\* Mutant: an error is taken for the end, as the cancel's copier does.
OnError_Ends == "closeIn"

\* A wrapper and a retry send the error on; the cancel's copier just ends.
OnError == IF copier = "cancel" THEN "closeIn" ELSE "put"

CopyRecv ==
    /\ ~panicked /\ copy.pc = "recv" /\ CanTake("in")
    /\ Taken("in")
    /\ LET f == Take("in") IN
       copy' = [holds |-> f,
                pc |-> IF f = EOF THEN IF copier = "retry" THEN "closeOut" ELSE "closeIn"
                       ELSE IF f = Failure THEN OnError ELSE "put"]
    /\ UNCHANGED <<copier, fails, closed, shut, source, immediate, received, panicked>>

\* wrapStreamWithCancel's select, when the cancel is chosen.
CopyCancelled ==
    /\ ~panicked /\ copier = "cancel" /\ copy.pc = "recv" /\ immediate
    /\ copy' = [holds |-> Cancelled, pc |-> "put"]
    /\ UNCHANGED <<copier, fails, frames, closed, shut, source, immediate, received, panicked>>

\* The reader never closes "out" before it has its last frame.
CopyPut ==
    /\ ~panicked /\ copy.pc = "put"
    /\ Put("out", copy.holds)
    /\ copy' = [copy EXCEPT !.pc = IF copy.holds > 0 THEN "recv"
                                   ELSE IF copier = "retry" THEN "done" ELSE "closeIn"]
    /\ UNCHANGED <<copier, fails, closed, shut, source, immediate, received>>

\* The deferred calls: Close of the stream that is read, then of the other.
\* A retry closes only the other, and after an error none.
CopyLook ==
    /\ ~panicked /\ copy.pc \in {"closeIn", "closeOut"}
    /\ LET s == IF copy.pc = "closeIn" THEN "in" ELSE "out" IN
       copy' = [copy EXCEPT !.pc = IF ~closed[s] THEN s
                                   ELSE IF s = "in" THEN "closeOut" ELSE "done"]
    /\ UNCHANGED <<copier, fails, frames, closed, shut, source, immediate, received, panicked>>

CopyShut ==
    /\ ~panicked /\ copy.pc \in Stream
    /\ Shut(copy.pc)
    /\ copy' = [copy EXCEPT !.pc = IF @ = "in" THEN "closeOut" ELSE "done"]
    /\ UNCHANGED <<copier, fails, frames, source, immediate, received>>

-----------------------------------------------------------------------------
Ended == received # <<>> /\ received[Len(received)] < 0

Read ==
    /\ ~panicked /\ ~Ended /\ CanTake("out")
    /\ Taken("out")
    /\ received' = Append(received, Take("out"))
    /\ UNCHANGED <<copier, fails, closed, shut, source, copy, immediate, panicked>>

ImmediateCancel ==
    /\ ~panicked /\ copier = "cancel" /\ ~immediate
    /\ immediate' = TRUE
    /\ UNCHANGED <<copier, fails, frames, closed, shut, source, copy, received, panicked>>

PipeNext ==
    \/ SourceLook \/ SourcePut \/ SourceShut
    \/ CopyRecv \/ CopyCancelled \/ CopyPut \/ CopyLook \/ CopyShut
    \/ Read \/ ImmediateCancel

-----------------------------------------------------------------------------
(* Properties.                                                             *)

\* The reader gets the source's chunks in order, none twice; the end of the
\* stream only after the last of them, and never instead of the source's
\* error, unless the copier is the cancel's; and no goroutine panics on a
\* closed channel unless the stream was cancelled or the source failed.
PipeIsWhole ==
    /\ \A k \in DOMAIN received : received[k] > 0 => received[k] = k
    /\ Ended => LET end == received[Len(received)] IN
         /\ end = Failure => fails /\ Len(received) = Chunks + 1
         /\ end = EOF /\ ~immediate => Len(received) = Chunks + 1
         /\ end = EOF /\ copier # "cancel" => ~fails
    /\ panicked => immediate \/ fails

-----------------------------------------------------------------------------
(* Proofs about the calls, for any number of retries and of models.        *)

ChainConstants == MaxRetries \in Nat /\ Models \in Nat \ {0}

ChainType ==
    /\ cfg \in Configs
    /\ chainPc \in {"start", "call", "judge", "backoff", "done", "returned"}
    /\ attempt \in 0 .. MaxRetries /\ model \in 1 .. Models
    /\ calls \in Seq([model : 1 .. Models, answer : Answers(cfg)])
    /\ outcome \in {"none", "ok", "error", "cancelled", "exhausted", "context", "panic"}

\* Each attempt is one call, and the last attempt has not been exceeded; each
\* model of a failover is called once.
CountInv ==
    /\ chainPc = "start" => calls = <<>> /\ model = 1
    /\ chainPc = "judge" => calls # <<>>
    /\ chainPc = "backoff" => attempt < MaxRetries /\ ~cfg.failover
    /\ ~cfg.failover =>
         /\ chainPc \in {"start", "call"} => Len(calls) = attempt
         /\ chainPc \in {"judge", "backoff"} => Len(calls) = attempt + 1
         /\ Len(calls) <= MaxRetries + 1
    /\ cfg.failover =>
         /\ chainPc = "call" => Len(calls) + 1 = model
         /\ chainPc = "judge" => Len(calls) = model
    /\ outcome = "none" <=> chainPc \notin {"done", "returned"}
    /\ outcome = "ok" => /\ calls # <<>>
                         /\ AnswerOf(Len(calls)) \notin {"error", "fatal", "cancelled"}
    /\ outcome = "exhausted" => Len(calls) = MaxRetries + 1

\* After such a call there may be another one, if not of the same model.
Repeatable(i) ==
    /\ AnswerOf(i) = "ok" => Retries = "should" /\ ~cfg.streaming
    /\ Retries = "legacy" => AnswerOf(i) \notin {"fatal", "cancelledFirst"}
    /\ IF cfg.failover THEN calls[i].model < model ELSE AnswerOf(i) # "cancelled"

RepeatInv ==
    /\ \A i \in 1 .. Len(calls) : cfg.failover => calls[i].model = i
    /\ \A i \in 1 .. Len(calls) - 1 :
         /\ calls[i].model = calls[i + 1].model => AnswerOf(i) # "cancelled"
         /\ AnswerOf(i) = "ok" => Retries = "should" /\ ~cfg.streaming
         /\ Retries = "legacy" => AnswerOf(i) \notin {"fatal", "cancelledFirst"}
    /\ chainPc \in {"call", "backoff"} /\ calls # <<>> => Repeatable(Len(calls))
    /\ chainPc = "judge" => calls[Len(calls)].model = model

\* Nothing is sent before an answer is accepted.
SentInv ==
    /\ sent = <<>> \/ (outcome = "ok" /\ sent = <<Len(calls)>>)
    /\ chainPc = "done" /\ cfg.agent => sent = <<>>
    /\ outcome = "ok" /\ sent = <<>> =>
         /\ chainPc # "returned"
         /\ Retries = "should" /\ cfg.session => cfg.streaming

ChainInv == ChainType /\ CountInv /\ RepeatInv /\ SentInv

\* A call begins without a call of the model.
LEMMA ChainInvInit == ASSUME ChainConstants, ChainInit PROVE ChainInv
<1> USE DEF ChainConstants, ChainInit
<1>1. ChainType
  <2>1. ASSUME NEW S PROVE <<>> \in Seq(S)
    OBVIOUS
  <2>2. calls \in Seq([model : 1 .. Models, answer : Answers(cfg)])
    BY <2>1
  <2>3. cfg \in Configs /\ attempt \in 0 .. MaxRetries /\ model \in 1 .. Models
    OBVIOUS
  <2> QED BY <2>2, <2>3, Zenon DEF ChainType
<1>2. CountInv /\ RepeatInv /\ SentInv
  BY DEF CountInv, RepeatInv, SentInv, Configs
<1> QED BY <1>1, <1>2 DEF ChainInv

\* What is read of the last call.
LEMMA LastCall ==
    ASSUME ChainType, calls # <<>>
    PROVE  /\ Len(calls) \in Nat \ {0}
           /\ Answer = AnswerOf(Len(calls))
           /\ Answer \in Answers(cfg)
           /\ calls[Len(calls)].model \in 1 .. Models
<1>1. ASSUME NEW S, NEW s \in Seq(S), s # <<>>
      PROVE  Len(s) \in Nat \ {0} /\ s[Len(s)] \in S
  BY <1>1
<1>2. /\ Len(calls) \in Nat \ {0}
      /\ calls[Len(calls)] \in [model : 1 .. Models, answer : Answers(cfg)]
  BY <1>1 DEF ChainType
<1> QED BY <1>2 DEF Answer, AnswerOf, Last

\* Another call of the model, after one that may be followed by another.
LEMMA CallNext ==
    ASSUME ChainConstants, ChainInv, NEW r, Call(r)
    PROVE  ChainInv'
<1> DEFINE C == [model : 1 .. Models, answer : Answers(cfg)]
           c == [model |-> model, answer |-> r]
<1>0. ChainType /\ CountInv /\ RepeatInv /\ SentInv
  BY DEF ChainInv
<1>1. /\ c \in C /\ calls \in Seq(C) /\ calls' = Append(calls, c)
      /\ UNCHANGED <<cfg, attempt, model, outcome>>
      /\ chainPc = "call" /\ chainPc' = "judge"
  BY <1>0 DEF Call, ChainType
<1>2. /\ calls' \in Seq(C) /\ Len(calls) \in Nat /\ Len(calls') = Len(calls) + 1
      /\ calls'[Len(calls')] = c
      /\ \A i \in 1 .. Len(calls) : calls'[i] = calls[i]
      /\ calls' # <<>>
  BY <1>1
<1> HIDE DEF C
<1>3. ChainType'
  BY <1>0, <1>1, <1>2 DEF C, Call, ChainType, Answers
<1>4. CountInv'
  BY <1>0, <1>1, <1>2 DEF ChainConstants, ChainType, CountInv
<1>5. RepeatInv'
  <2>1. ASSUME NEW i \in 1 .. Len(calls') - 1
        PROVE  /\ calls'[i].model = calls'[i + 1].model => AnswerOf(i)' # "cancelled"
               /\ AnswerOf(i)' = "ok" => Retries' = "should" /\ ~cfg'.streaming
               /\ Retries' = "legacy" => AnswerOf(i)' \notin {"fatal", "cancelledFirst"}
    <3>1. i \in 1 .. Len(calls) /\ calls'[i] = calls[i]
      BY <1>1, <1>2
    <3>2. CASE i = Len(calls)
      <4>1. Repeatable(i) /\ calls'[i + 1] = c
        BY <1>0, <1>1, <1>2, <3>1, <3>2 DEF RepeatInv
      <4>2. calls[i].model \in Int /\ model \in Int /\ c.model = model
        BY <1>0, <1>1, <3>2, LastCall DEF ChainType, c
      <4> QED BY <1>1, <3>1, <4>1, <4>2 DEF Repeatable, AnswerOf, Retries
    <3>3. CASE i # Len(calls)
      <4>1. i \in 1 .. Len(calls) - 1 /\ i + 1 \in 1 .. Len(calls)
        BY <1>2, <3>1, <3>3
      <4>2. calls'[i + 1] = calls[i + 1]
        BY <1>2, <4>1
      <4> QED BY <1>0, <1>1, <3>1, <4>1, <4>2 DEF RepeatInv, AnswerOf, Retries
    <3> QED BY <3>2, <3>3
  <2>2. calls'[Len(calls')].model = model'
    BY <1>1, <1>2 DEF c
  <2>3. ASSUME NEW i \in 1 .. Len(calls'), cfg'.failover
        PROVE  calls'[i].model = i
    <3>1. Len(calls') = model /\ c.model = model
      BY <1>0, <1>1, <1>2, <2>3 DEF CountInv, c
    <3> QED BY <1>0, <1>1, <1>2, <2>3, <3>1 DEF RepeatInv
  <2> QED BY <1>1, <2>1, <2>2, <2>3 DEF RepeatInv
<1>6. SentInv'
  BY <1>0, <1>1, <1>2 DEF Call, SentInv, CountInv
<1> QED BY <1>3, <1>4, <1>5, <1>6 DEF ChainInv

\* The steps that judge an answer, begin, wait or end.
LEMMA JudgeNext ==
    ASSUME ChainConstants, ChainInv,
           \/ Start \/ JudgeLegacy \/ JudgePlain \/ AgentEnds
           \/ \E b \in BOOLEAN : BackOff(b) \/ JudgeFailover(b)
           \/ \E d \in {"accept", "retry", "rewrite"}, ends \in BOOLEAN :
                JudgeShould(d, ends)
    PROVE  ChainInv'
<1>0. ChainType /\ CountInv /\ RepeatInv /\ SentInv
  BY DEF ChainInv
<1>1. calls # <<>> => /\ Len(calls) \in Nat \ {0}
                      /\ Answer = AnswerOf(Len(calls))
                      /\ Answer \in Answers(cfg)
                      /\ calls[Len(calls)].model \in 1 .. Models
  BY <1>0, LastCall
<1>2. Len(calls) \in Nat /\ (calls = <<>> => Len(calls) = 0)
  BY <1>0 DEF ChainType
<1>3. cfg.agent => ~cfg.streaming /\ ~cfg.session
  BY <1>0 DEF ChainType, Configs
<1> USE <1>0, <1>1, <1>2
    DEF ChainConstants, Done, RetryOrGiveUp, Again, Failed, Retries
<1>4. CASE Start
  <2>1. ChainType'
    BY <1>4 DEF Start, ChainType
  <2>2. CountInv' /\ RepeatInv' /\ SentInv'
    BY <1>4 DEF Start, ChainType, CountInv, RepeatInv, SentInv, AnswerOf
  <2> QED BY <2>1, <2>2 DEF ChainInv
<1>5. ASSUME NEW b \in BOOLEAN, BackOff(b)
      PROVE  ChainInv'
  <2>1. ChainType'
    BY <1>5 DEF BackOff, ChainType, CountInv
  <2>2. CountInv' /\ RepeatInv' /\ SentInv'
    BY <1>5
      DEF BackOff, ChainType, CountInv, RepeatInv, SentInv, Repeatable, AnswerOf
  <2> QED BY <2>1, <2>2 DEF ChainInv
<1>6. ASSUME NEW b \in BOOLEAN, JudgeFailover(b)
      PROVE  ChainInv'
  <2>1. ChainType'
    BY <1>6 DEF JudgeFailover, ChainType
  <2>2. CountInv'
    BY <1>6 DEF JudgeFailover, ChainType, CountInv, AnswerOf
  <2>3. RepeatInv'
    BY <1>6
      DEF JudgeFailover, ChainType, CountInv, RepeatInv, Repeatable, AnswerOf
  <2>4. SentInv'
    BY <1>6 DEF JudgeFailover, CountInv, SentInv
  <2> QED BY <2>1, <2>2, <2>3, <2>4 DEF ChainInv
<1>7. ASSUME NEW d \in {"accept", "retry", "rewrite"}, NEW ends \in BOOLEAN,
             JudgeShould(d, ends)
      PROVE  ChainInv'
  <2>1. ChainType'
    <3>1. UNCHANGED <<cfg, calls, attempt, model>>
      BY <1>7 DEF JudgeShould
    <3>2. /\ chainPc' \in {"backoff", "done"}
          /\ outcome' \in {outcome, "ok", "error", "cancelled", "exhausted"}
      BY <1>7 DEF JudgeShould
    <3> QED BY <3>1, <3>2 DEF ChainType
  <2>2. CountInv'
    BY <1>7 DEF JudgeShould, ChainType, CountInv, AnswerOf
  <2>3. RepeatInv'
    BY <1>7
      DEF JudgeShould, ChainType, CountInv, RepeatInv, Repeatable, AnswerOf
  <2>4. SentInv'
    <3>1. sent = <<>> /\ outcome = "none" /\ cfg' = cfg /\ calls' = calls
      BY <1>7 DEF JudgeShould, CountInv, SentInv
    <3>2. CASE outcome' # "ok"
      <4>1. sent' = <<>>
        BY <1>7, <3>1, <3>2 DEF JudgeShould, Sends
      <4> QED BY <3>1, <3>2, <4>1 DEF SentInv
    <3>3. CASE outcome' = "ok"
      <4>1. chainPc' = "done"
        BY <1>7, <3>1, <3>3 DEF JudgeShould
      <4>2. /\ sent' = <<>> \/ sent' = <<Len(calls)>>
            /\ sent' = <<>> => ~cfg.session \/ cfg.streaming
            /\ ~cfg.session => sent' = <<>>
        <5>1. Answer \in {"ok", "empty"} /\ (~cfg.streaming => Answer = "ok")
          BY <1>7, <3>1, <3>3 DEF JudgeShould, Answers, ChainType, CountInv
        <5>2. sent' = IF cfg.session /\ Answer = "ok" /\ (cfg.streaming => ends)
                      THEN Append(sent, Len(calls)) ELSE sent
          BY <1>7, <3>1, <3>3, <5>1 DEF JudgeShould, Sends
        <5>3. Append(<<>>, Len(calls)) = <<Len(calls)>>
          OBVIOUS
        <5> QED BY <3>1, <5>1, <5>2, <5>3
      <4> QED BY <1>3, <3>1, <3>3, <4>1, <4>2 DEF SentInv
    <3> QED BY <3>2, <3>3
  <2> QED BY <2>1, <2>2, <2>3, <2>4 DEF ChainInv
<1>8. CASE JudgeLegacy
  <2>1. ChainType'
    BY <1>8 DEF JudgeLegacy, ChainType
  <2>2. CountInv'
    BY <1>8 DEF JudgeLegacy, ChainType, CountInv, AnswerOf
  <2>3. RepeatInv'
    BY <1>8
      DEF JudgeLegacy, ChainType, CountInv, RepeatInv, Repeatable, AnswerOf
  <2>4. SentInv'
    BY <1>8 DEF JudgeLegacy, CountInv, SentInv
  <2> QED BY <2>1, <2>2, <2>3, <2>4 DEF ChainInv
<1>9. CASE JudgePlain
  <2>1. ChainType'
    BY <1>9 DEF JudgePlain, ChainType
  <2>2. CountInv' /\ RepeatInv'
    BY <1>9 DEF JudgePlain, ChainType, CountInv, RepeatInv, AnswerOf
  <2>3. SentInv'
    BY <1>9 DEF JudgePlain, CountInv, SentInv
  <2> QED BY <2>1, <2>2, <2>3 DEF ChainInv
<1>10. CASE AgentEnds
  <2>1. ChainType'
    BY <1>10 DEF AgentEnds, ChainType
  <2>2. CountInv' /\ RepeatInv'
    BY <1>10 DEF AgentEnds, ChainType, CountInv, RepeatInv, AnswerOf
  <2>3. SentInv'
    BY <1>10 DEF AgentEnds, SentInv
  <2> QED BY <2>1, <2>2, <2>3 DEF ChainInv
<1> QED BY <1>4, <1>5, <1>6, <1>7, <1>8, <1>9, <1>10

\* Every step of a call, and a step that does not touch it.
LEMMA ChainInvNext ==
    ASSUME ChainConstants, ChainInv, ChainNext \/ UNCHANGED chainVars
    PROVE  ChainInv'
<1>1. ASSUME UNCHANGED chainVars
      PROVE  ChainInv'
  BY <1>1
    DEF chainVars, ChainInv, ChainType, CountInv, RepeatInv, SentInv,
        Repeatable, AnswerOf, Retries, Answers
<1> QED BY <1>1, CallNext, JudgeNext DEF ChainNext

\* The caller's view of a call follows from the invariant.
LEMMA ChainInvSound == ASSUME ChainInv PROVE AnswersOnce
  BY DEF ChainInv, ChainType, CountInv, RepeatInv, SentInv, AnswersOnce

ChainSpec == ChainInit /\ [][ChainNext]_chainVars

\* For any limit of retries and any number of models, the caller gets the
\* answer of the last call, no more calls are made than the limit or the
\* models allow, no other answer than the returned one is sent, and an agent
\* that has returned one has sent it once.
THEOREM CallsAnswerOnce == ASSUME ChainConstants PROVE ChainSpec => []AnswersOnce
<1>1. ChainInit => ChainInv
  BY ChainInvInit
<1>2. ChainInv /\ [ChainNext]_chainVars => ChainInv'
  BY ChainInvNext
<1>3. ChainInv => AnswersOnce
  BY ChainInvSound
<1> QED BY <1>1, <1>2, <1>3, PTL DEF ChainSpec

-----------------------------------------------------------------------------
(* Proofs about the copies, for any number of chunks and any capacity.     *)

PipeConstants ==
    Chunks \in Nat /\ Capacity \in Nat /\ Copiers \subseteq {"wrapper", "retry", "cancel"}

PipeType ==
    /\ copier \in Copiers /\ fails \in BOOLEAN
    /\ frames \in [Stream -> Seq(Int)]
    /\ closed \in [Stream -> BOOLEAN] /\ shut \in [Stream -> BOOLEAN]
    /\ source \in [pc : {"send", "put", "close", "shut", "done"}, next : Nat \ {0}]
    /\ copy \in [pc : {"recv", "put", "closeIn", "closeOut", "in", "out", "done"}, holds : Int]
    /\ immediate \in BOOLEAN /\ panicked \in BOOLEAN
    /\ received \in Seq(Int)

\* Every frame that the copier has taken, or made, and the ends that were read.
InHand == IF copy.pc = "put" THEN <<copy.holds>> ELSE <<>>
Passed == (received \o frames["out"]) \o InHand

Receiving == copy.pc = "recv" \/ (copy.pc = "put" /\ copy.holds > 0)

\* Chunks have the numbers of their places, and what is no chunk comes last.
InPlace(s) ==
    \A k \in 1 .. Len(s) :
        /\ s[k] > 0 => s[k] = k
        /\ s[k] <= 0 => k = Len(s) /\ s[k] < 0
AllChunks(s) == \A k \in 1 .. Len(s) : s[k] > 0

\* While the copier receives, its next frames are the source's next ones, and
\* only the source closes "in".
ReceivingInv ==
    LET n == Len(Passed) IN
    /\ AllChunks(Passed) /\ n <= Chunks
    /\ n + Len(frames["in"]) = source.next - 1
    /\ source.next <= IF fails THEN Chunks + 2 ELSE Chunks + 1
    /\ \A j \in 1 .. Len(frames["in"]) :
         frames["in"][j] = IF n + j <= Chunks THEN n + j ELSE Failure
    /\ source.pc = "put" => ~SourceDone
    /\ source.pc \in {"close", "shut", "done"} => SourceDone
    /\ shut["in"] <=> source.pc = "done"

\* Everything has passed, and perhaps the end has been read.
Complete ==
    /\ copy.pc # "put"
    /\ \/ Len(Passed) = Chunks /\ AllChunks(Passed)
       \/ /\ frames["out"] = <<>> /\ Len(received) = Chunks + 1
          /\ received[Chunks + 1] = EOF

\* Afterwards the copier knows why it stopped.
StoppedInv ==
    \/ copy.holds = EOF /\ ~fails /\ Complete /\ shut["in"] /\ source.pc = "done"
    \/ copy.holds = Failure /\ fails /\ copier = "cancel" /\ Complete
    \/ /\ copy.holds = Failure /\ fails /\ copier # "cancel"
       /\ Len(Passed) = Chunks + 1 /\ Passed[Chunks + 1] = Failure
    \/ /\ copy.holds = Cancelled /\ immediate /\ copier = "cancel"
       /\ Passed # <<>> /\ Passed[Len(Passed)] = Cancelled

FlowInv ==
    /\ closed = shut
    /\ shut["out"] => copy.pc = "done"
    /\ copy.pc = "in" => copy.holds # EOF
    /\ InPlace(Passed)
    /\ IF Receiving THEN ReceivingInv ELSE StoppedInv

\* Nothing moves after a panic.
PipeInv == PipeType /\ IF panicked THEN PipeIsWhole ELSE FlowInv

\* Moving the first element of one sequence to the end of another.
LEMMA MoveHead ==
    ASSUME NEW S, NEW a \in Seq(S), NEW b \in Seq(S), b # <<>>
    PROVE  /\ Append(a, Head(b)) \o Tail(b) = a \o b
           /\ Head(b) \in S /\ Tail(b) \in Seq(S)
  OBVIOUS

LEMMA AppendLast ==
    ASSUME NEW S, NEW a \in Seq(S), NEW b \in Seq(S), NEW e \in S
    PROVE  /\ a \o Append(b, e) = (a \o b) \o <<e>>
           /\ Append(b, e) \in Seq(S)
           /\ a \o b \in Seq(S) /\ (a \o b) \o <<>> = a \o b
  OBVIOUS

\* What can be said of a sequence that ends in e.
LEMMA Ending ==
    ASSUME NEW a \in Seq(Int), NEW e \in Int
    PROVE  /\ Len(a \o <<e>>) = Len(a) + 1 /\ (a \o <<e>>)[Len(a) + 1] = e
           /\ \A k \in 1 .. Len(a) : (a \o <<e>>)[k] = a[k]
           /\ AllChunks(a) /\ InPlace(a) /\ (e > 0 => e = Len(a) + 1) /\ e # 0
                => InPlace(a \o <<e>>)
           /\ AllChunks(a) /\ e > 0 => AllChunks(a \o <<e>>)
<1>1. /\ Len(a \o <<e>>) = Len(a) + 1 /\ (a \o <<e>>)[Len(a) + 1] = e
      /\ \A k \in 1 .. Len(a) : (a \o <<e>>)[k] = a[k]
      /\ Len(a) \in Nat /\ \A k \in 1 .. Len(a) : a[k] \in Int
  OBVIOUS
<1>2. \A k \in 1 .. Len(a) + 1 : k \in 1 .. Len(a) \/ k = Len(a) + 1
  BY <1>1
<1> DEFINE b == a \o <<e>>
<1> HIDE DEF b
<1>3. AllChunks(a) /\ e > 0 => AllChunks(b)
  BY <1>1, <1>2 DEF AllChunks, b
<1>4. AllChunks(a) /\ InPlace(a) /\ (e > 0 => e = Len(a) + 1) /\ e # 0 => InPlace(b)
  BY <1>1, <1>2 DEF AllChunks, InPlace, b
<1> QED BY <1>1, <1>3, <1>4 DEF b

\* A pipe begins with both of its streams empty.
LEMMA PipeInvInit == ASSUME PipeConstants, PipeInit PROVE PipeInv
<1> USE DEF PipeConstants, PipeInit
<1>1. PipeType
  <2>1. <<>> \in Seq(Int)
    OBVIOUS
  <2>2. frames \in [Stream -> Seq(Int)] /\ received \in Seq(Int)
    BY <2>1
  <2>3. /\ copy \in [pc : {"recv", "put", "closeIn", "closeOut", "in", "out", "done"},
                    holds : Int]
        /\ source \in [pc : {"send", "put", "close", "shut", "done"}, next : Nat \ {0}]
    BY DEF EOF
  <2>4. /\ copier \in Copiers /\ fails \in BOOLEAN /\ immediate = FALSE /\ panicked = FALSE
        /\ closed \in [Stream -> BOOLEAN] /\ shut \in [Stream -> BOOLEAN]
    OBVIOUS
  <2> QED BY <2>2, <2>3, <2>4, Zenon DEF PipeType
<1>2. Passed = <<>> /\ Receiving /\ received = <<>>
  <2>1. frames["out"] = <<>> /\ InHand = <<>> /\ copy.pc = "recv"
    BY DEF InHand, Stream
  <2>2. (<<>> \o <<>>) \o <<>> = <<>>
    OBVIOUS
  <2> QED BY <2>1, <2>2 DEF Passed, Receiving
<1>3. FlowInv
  BY <1>2 DEF FlowInv, ReceivingInv, InPlace, AllChunks, SourceDone, Stream
<1> QED BY <1>1, <1>3 DEF PipeInv

\* The reader's part of the property follows from what has passed.
LEMMA WholeFromFlow ==
    ASSUME PipeConstants, PipeType, FlowInv, ~panicked
    PROVE  PipeIsWhole
<1>1. /\ received \in Seq(Int) /\ frames["out"] \in Seq(Int) /\ InHand \in Seq(Int)
      /\ Len(received) \in Nat
  BY DEF PipeType, Stream, InHand
<1> DEFINE o == frames["out"]
           h == InHand
<1>2. /\ Len(Passed) = Len(received) + Len(o) + Len(h)
      /\ \A k \in 1 .. Len(received) : Passed[k] = received[k]
      /\ Passed \in Seq(Int) /\ Len(o) \in Nat /\ Len(h) \in Nat
  BY <1>1 DEF Passed
<1> HIDE DEF o, h
<1>3. /\ DOMAIN received = 1 .. Len(received) /\ Len(Passed) \in Nat
       /\ \A k \in 1 .. Len(received) : k \in 1 .. Len(Passed) /\ received[k] \in Int
  BY <1>1, <1>2
<1>4. \A k \in DOMAIN received : received[k] > 0 => received[k] = k
  BY <1>2, <1>3 DEF FlowInv, InPlace
<1>5. ASSUME Ended
      PROVE  /\ Len(received) = Len(Passed) /\ Len(received) \in 1 .. Len(Passed)
             /\ Passed[Len(received)] = received[Len(received)]
             /\ received[Len(received)] < 0
  <2>1. Len(received) \in 1 .. Len(Passed) /\ received[Len(received)] < 0
    BY <1>1, <1>2, <1>5 DEF Ended
  <2>2. Len(received) \in 1 .. Len(received)
    BY <1>1, <1>5 DEF Ended
  <2>3. Passed[Len(received)] = received[Len(received)] /\ received[Len(received)] \in Int
    BY <1>2, <1>3, <2>2
  <2>4. InPlace(Passed) /\ Passed[Len(received)] <= 0
    BY <2>1, <2>3 DEF FlowInv
  <2> QED BY <2>1, <2>3, <2>4 DEF InPlace
<1>6. ASSUME Ended
      PROVE  LET end == received[Len(received)] IN
               /\ end = Failure => fails /\ Len(received) = Chunks + 1
               /\ end = EOF /\ ~immediate => Len(received) = Chunks + 1
               /\ end = EOF /\ copier # "cancel" => ~fails
  <2>1. ~AllChunks(Passed)
    <3>1. ~(received[Len(received)] > 0)
      BY <1>3, <1>5, <1>6
    <3> QED BY <1>5, <1>6, <3>1 DEF AllChunks
  <2>2. StoppedInv
    BY <2>1 DEF FlowInv, ReceivingInv
  <2> QED BY <1>1, <1>2, <1>5, <1>6, <2>1, <2>2
          DEF StoppedInv, Complete, EOF, Failure, Cancelled, PipeConstants
<1> QED BY <1>4, <1>6 DEF PipeIsWhole

\* The sequences the proofs speak of.
LEMMA PipeFacts ==
    ASSUME PipeType
    PROVE  /\ received \in Seq(Int) /\ frames["in"] \in Seq(Int) /\ frames["out"] \in Seq(Int)
           /\ InHand \in Seq(Int) /\ Passed \in Seq(Int) /\ Len(Passed) \in Nat
           /\ received \o frames["out"] \in Seq(Int)
           /\ source.next \in Nat \ {0} /\ copy.holds \in Int
<1>1. ASSUME NEW a \in Seq(Int), NEW b \in Seq(Int), NEW c \in Seq(Int)
      PROVE  a \o b \in Seq(Int) /\ (a \o b) \o c \in Seq(Int) /\ Len((a \o b) \o c) \in Nat
  OBVIOUS
<1>2. /\ received \in Seq(Int) /\ frames["in"] \in Seq(Int) /\ frames["out"] \in Seq(Int)
      /\ InHand \in Seq(Int) /\ source.next \in Nat \ {0} /\ copy.holds \in Int
  BY DEF PipeType, Stream, InHand
<1> QED BY <1>1, <1>2 DEF Passed

\* The source leaves the copier and the reader alone; what it has put in is
\* what the copier finds, and if the copier has closed "in" before, either
\* there was an end or an immediate cancel, or the source has failed.
LEMMA SourceNext ==
    ASSUME PipeConstants, PipeInv, SourceLook \/ SourcePut \/ SourceShut
    PROVE  PipeInv'
<1>1. PipeType /\ FlowInv /\ ~panicked /\ PipeIsWhole
  BY WholeFromFlow DEF PipeInv, SourceLook, SourcePut, SourceShut
<1>2. /\ received \in Seq(Int) /\ frames["in"] \in Seq(Int) /\ Len(Passed) \in Nat
      /\ source.next \in Nat \ {0}
  BY <1>1, PipeFacts
<1>3. UNCHANGED <<copier, fails, copy, immediate, received>>
  BY DEF SourceLook, SourcePut, SourceShut
<1>4. frames'["out"] = frames["out"] /\ shut'["out"] = shut["out"]
  BY <1>1 DEF SourceLook, SourcePut, SourceShut, Put, Shut, PipeType, Stream
<1>5. Passed' = Passed /\ Receiving' = Receiving /\ InHand' = InHand
  BY <1>3, <1>4 DEF Passed, Receiving, InHand
<1>6. StoppedInv => immediate \/ fails \/ (shut["in"] /\ source.pc = "done")
  BY DEF StoppedInv
<1>7. CASE SourceLook
  <2>1. PipeType'
    BY <1>1, <1>7 DEF SourceLook, PipeType
  <2>2. UNCHANGED <<frames, closed, shut, panicked>>
    BY <1>7 DEF SourceLook
  <2>3. ASSUME Receiving
        PROVE  ReceivingInv'
    BY <1>1, <1>2, <1>3, <1>5, <1>7, <2>2, <2>3
       DEF FlowInv, ReceivingInv, SourceLook, SourceDone, PipeType, PipeConstants
  <2>4. ASSUME ~Receiving
        PROVE  StoppedInv'
    BY <1>1, <1>3, <1>4, <1>5, <1>7, <2>2, <2>4
       DEF FlowInv, StoppedInv, SourceLook, Complete
  <2> QED BY <1>1, <1>3, <1>5, <2>1, <2>2, <2>3, <2>4 DEF PipeInv, FlowInv
<1>8. CASE SourcePut
  <2>1. PipeType'
    <3>1. SourceFrame \in Int
      BY <1>2 DEF SourceFrame, Failure
    <3>2. Append(frames["in"], SourceFrame) \in Seq(Int)
      BY <1>2, <3>1
    <3>3. frames' \in [Stream -> Seq(Int)] /\ panicked' \in BOOLEAN
      BY <1>1, <1>8, <3>2 DEF SourcePut, Put, PipeType
    <3>4. source' \in [pc : {"send", "put", "close", "shut", "done"}, next : Nat \ {0}]
      BY <1>2, <1>8 DEF SourcePut
    <3> QED BY <1>1, <1>8, <3>3, <3>4 DEF SourcePut, PipeType
  <2>2. CASE shut["in"]
    <3>1. panicked' /\ (immediate \/ fails)
      BY <1>1, <1>6, <1>8, <2>2 DEF SourcePut, Put, FlowInv, ReceivingInv
    <3> QED BY <1>1, <1>3, <2>1, <3>1 DEF PipeInv, PipeIsWhole, Ended
  <2>3. CASE ~shut["in"]
    <3>1. /\ UNCHANGED <<panicked, closed, shut>>
          /\ frames'["in"] = Append(frames["in"], SourceFrame)
          /\ source' = [pc |-> "send", next |-> source.next + 1]
      BY <1>1, <1>8, <2>3 DEF SourcePut, Put, PipeType, Stream
    <3>2. ASSUME Receiving
          PROVE  ReceivingInv'
      <4>1. /\ Len(frames["in"]) \in Nat /\ Len(frames'["in"]) = Len(frames["in"]) + 1
            /\ frames'["in"][Len(frames["in"]) + 1] = SourceFrame
            /\ \A j \in 1 .. Len(frames["in"]) : frames'["in"][j] = frames["in"][j]
        BY <1>2, <3>1
      <4>2. ReceivingInv /\ ~SourceDone /\ source.pc = "put"
        BY <1>1, <1>8, <3>2 DEF FlowInv, ReceivingInv, SourcePut
      <4>3. Len(Passed) + Len(frames["in"]) = source.next - 1
        BY <4>2 DEF ReceivingInv
      <4>4. /\ source.next = Len(Passed) + (Len(frames["in"]) + 1)
            /\ Len(Passed) + (Len(frames["in"]) + 1) = (source.next + 1) - 1
        <5> DEFINE n == Len(Passed)
                   l == Len(frames["in"])
                   x == source.next
        <5>1. n \in Nat /\ l \in Nat /\ x \in Nat /\ n + l = x - 1
          BY <1>2, <4>1, <4>3
        <5> HIDE DEF n, l, x
        <5>2. x = n + (l + 1) /\ n + (l + 1) = (x + 1) - 1
          BY <5>1
        <5> QED BY <5>2 DEF n, l, x
      <4>5. SourceFrame = IF Len(Passed) + (Len(frames["in"]) + 1) <= Chunks
                            THEN Len(Passed) + (Len(frames["in"]) + 1) ELSE Failure
        BY <4>4 DEF SourceFrame
      <4>6. \A j \in 1 .. Len(frames'["in"]) :
              frames'["in"][j] = IF Len(Passed) + j <= Chunks THEN Len(Passed) + j
                                 ELSE Failure
        <5>1. ASSUME NEW j \in 1 .. Len(frames["in"]) + 1
              PROVE  j \in 1 .. Len(frames["in"]) \/ j = Len(frames["in"]) + 1
          BY <4>1
        <5> QED BY <4>1, <4>2, <4>5, <5>1 DEF ReceivingInv
      <4>7. source.next + 1 <= IF fails THEN Chunks + 2 ELSE Chunks + 1
        BY <1>1, <1>2, <4>2 DEF SourceDone, PipeConstants, PipeType
      <4>8. source'.pc = "send" /\ source'.next = source.next + 1
        BY <3>1
      <4>9. Len(Passed) + Len(frames'["in"]) = source'.next - 1
        BY <4>1, <4>4, <4>8
      <4> QED
        BY <1>3, <1>5, <2>3, <3>1, <4>2, <4>6, <4>7, <4>8, <4>9 DEF ReceivingInv
    <3>3. ASSUME ~Receiving
          PROVE  StoppedInv'
      BY <1>1, <1>3, <1>4, <1>5, <1>8, <2>3, <3>1, <3>3
        DEF FlowInv, StoppedInv, Complete
    <3> QED BY <1>1, <1>3, <1>5, <2>1, <3>1, <3>2, <3>3 DEF PipeInv, FlowInv
  <2> QED BY <2>2, <2>3
<1>9. CASE SourceShut
  <2>1. PipeType'
    BY <1>1, <1>9 DEF SourceShut, Shut, PipeType
  <2>2. CASE shut["in"]
    <3>1. panicked' /\ (immediate \/ fails)
      BY <1>1, <1>6, <1>9, <2>2 DEF SourceShut, Shut, FlowInv, ReceivingInv
    <3> QED BY <1>1, <1>3, <2>1, <3>1 DEF PipeInv, PipeIsWhole, Ended
  <2>3. CASE ~shut["in"]
    <3>1. /\ panicked' = panicked /\ closed' = shut' /\ shut'["in"] /\ frames' = frames
          /\ source' = [source EXCEPT !.pc = "done"]
      BY <1>1, <1>9, <2>3 DEF SourceShut, Shut, PipeType, Stream, FlowInv
    <3>2. ASSUME Receiving
          PROVE  ReceivingInv'
      BY <1>1, <1>2, <1>3, <1>5, <1>9, <3>1, <3>2
         DEF FlowInv, ReceivingInv, SourceShut, SourceDone, PipeType
    <3>3. ASSUME ~Receiving
          PROVE  StoppedInv'
      BY <1>1, <1>3, <1>4, <1>5, <2>3, <3>1, <3>3
        DEF FlowInv, StoppedInv, Complete
    <3> QED
      BY <1>1, <1>3, <1>4, <1>5, <2>1, <3>1, <3>2, <3>3 DEF PipeInv, FlowInv
  <2> QED BY <2>2, <2>3
<1> QED BY <1>7, <1>8, <1>9

\* The copier takes the next chunk, the source's error, or the end, and the end
\* only when everything has passed.
LEMMA CopyRecvNext ==
    ASSUME PipeConstants, PipeInv, CopyRecv
    PROVE  PipeInv'
<1> DEFINE base == received \o frames["out"]
           n == Len(Passed)
           l == Len(frames["in"])
           x == source.next
           f == Take("in")
<1>1. PipeType /\ FlowInv /\ ~panicked /\ copy.pc = "recv" /\ CanTake("in")
  BY DEF PipeInv, CopyRecv
<1>2. /\ frames["in"] \in Seq(Int) /\ base \in Seq(Int)
      /\ n \in Nat /\ l \in Nat /\ x \in Nat /\ x # 0
  BY <1>1, PipeFacts
<1>3. /\ UNCHANGED <<copier, fails, closed, shut, source, immediate, received, panicked>>
      /\ frames'["out"] = frames["out"]
      /\ frames'["in"] = IF frames["in"] = <<>> THEN <<>> ELSE Tail(frames["in"])
      /\ copy'.holds = f
  BY <1>1 DEF CopyRecv, Taken, PipeType, Stream
<1>4. Passed = base /\ Receiving /\ ReceivingInv
  <2>1. InHand = <<>> /\ base \o <<>> = base
    BY <1>1, <1>2 DEF InHand
  <2>2. Receiving
    BY <1>1 DEF Receiving
  <2> QED BY <1>1, <2>1, <2>2 DEF Passed, FlowInv
<1>5. Passed' = IF copy'.pc = "put" THEN Passed \o <<f>> ELSE Passed
  <2>1. base \o <<>> = base
    BY <1>2
  <2> QED BY <1>3, <1>4, <2>1 DEF Passed, InHand
<1>6. n + l = x - 1 /\ n <= Chunks /\ AllChunks(Passed) /\ InPlace(Passed)
  BY <1>1, <1>4 DEF ReceivingInv, FlowInv
<1>7. f \in Int
  BY <1>2 DEF Take, EOF
<1>8. PipeType'
  <2>1. frames' \in [Stream -> Seq(Int)]
    <3>1. frames["in"] # <<>> => Tail(frames["in"]) \in Seq(Int)
      BY <1>2
    <3> QED BY <1>1, <1>2, <3>1 DEF CopyRecv, Taken, PipeType, Stream
  <2>2. copy' \in [pc : {"recv", "put", "closeIn", "closeOut", "in", "out", "done"},
                   holds : Int]
    BY <1>7 DEF CopyRecv, OnError
  <2> QED BY <1>1, <1>3, <2>1, <2>2 DEF PipeType
<1>9. Passed \in Seq(Int)
  BY <1>1, PipeFacts
<1>9a. ASSUME frames["in"] # <<>>
       PROVE  l > 0 /\ f = IF n + 1 <= Chunks THEN n + 1 ELSE Failure
  <2>1. l > 0 /\ 1 \in 1 .. l /\ f = frames["in"][1]
    BY <1>2, <1>9a DEF Take
  <2> QED BY <1>4, <2>1 DEF ReceivingInv
<1>10. CASE frames["in"] # <<>> /\ n + 1 <= Chunks
  <2>1. f = n + 1 /\ f > 0 /\ l > 0
    <3>1. f = n + 1 /\ l > 0
      BY <1>10, <1>9a
    <3> HIDE DEF n, l, x, f
    <3> QED BY <1>2, <3>1
  <2>2. copy'.pc = "put" /\ Passed' = Passed \o <<f>> /\ Receiving'
    BY <1>3, <1>5, <2>1 DEF CopyRecv, EOF, Failure, Receiving
  <2>3. /\ Len(Passed') = n + 1 /\ InPlace(Passed') /\ AllChunks(Passed')
    BY <1>6, <1>7, <1>9, <2>1, <2>2, Ending
  <2>4. /\ Len(frames'["in"]) = l - 1
        /\ \A j \in 1 .. l - 1 : frames'["in"][j] = frames["in"][j + 1]
                                 /\ j + 1 \in 1 .. l /\ (n + 1) + j = n + (j + 1)
    BY <1>2, <1>3, <1>10
  <2>5. \A j \in 1 .. l - 1 :
          frames'["in"][j] = IF (n + 1) + j <= Chunks THEN (n + 1) + j ELSE Failure
    BY <1>4, <2>4 DEF ReceivingInv
  <2>6. (n + 1) + (l - 1) = x - 1
    <3>1. n + l = x - 1
      BY <1>6
    <3> HIDE DEF n, l, x
    <3> QED BY <1>2, <3>1
  <2>7. ReceivingInv'
    <3> HIDE DEF n, l, x
    <3>1. /\ Len(Passed') = n + 1 /\ Len(frames'["in"]) = l - 1
          /\ source'.next = x /\ source.next = x
      BY <1>3, <2>3, <2>4 DEF x
    <3> QED
      BY <1>3, <1>4, <1>10, <2>3, <2>5, <2>6, <3>1 DEF ReceivingInv, SourceDone
  <2> QED BY <1>1, <1>3, <1>8, <2>2, <2>3, <2>7 DEF PipeInv, FlowInv
<1>11. CASE frames["in"] # <<>> /\ ~(n + 1 <= Chunks)
  <2>1. f = Failure /\ l > 0 /\ n = Chunks
    <3>1. f = Failure /\ l > 0 /\ ~(n + 1 <= Chunks) /\ n <= Chunks
      BY <1>6, <1>11, <1>9a
    <3> HIDE DEF n, l, x, f
    <3> QED BY <1>2, <3>1 DEF PipeConstants
  <2>2. fails
    <3>1. x <= IF fails THEN Chunks + 2 ELSE Chunks + 1
      BY <1>4 DEF ReceivingInv
    <3> HIDE DEF n, l, x
    <3> QED BY <1>2, <1>6, <2>1, <3>1 DEF PipeConstants
  <2>3. copy'.pc = OnError /\ ~Receiving'
    BY <1>3, <2>1 DEF CopyRecv, EOF, Failure, Receiving, OnError
  <2>4. CASE copier = "cancel"
    <3>1. Passed' = Passed /\ copy'.pc = "closeIn"
      BY <1>5, <2>3, <2>4 DEF OnError
    <3>2. StoppedInv'
      BY <1>3, <1>6, <2>1, <2>2, <2>4, <3>1 DEF StoppedInv, Complete
    <3> QED BY <1>1, <1>3, <1>6, <1>8, <2>3, <3>1, <3>2 DEF PipeInv, FlowInv
  <2>5. CASE copier # "cancel"
    <3>1. Passed' = Passed \o <<f>> /\ copy'.pc = "put"
      BY <1>5, <2>3, <2>5 DEF OnError
    <3>2. InPlace(Passed') /\ Len(Passed') = n + 1 /\ Passed'[n + 1] = f
      BY <1>6, <1>7, <1>9, <2>1, <3>1, Ending DEF Failure
    <3>3. StoppedInv'
      BY <1>3, <2>1, <2>2, <2>5, <3>2 DEF StoppedInv
    <3> QED BY <1>1, <1>3, <1>8, <2>3, <3>1, <3>2, <3>3 DEF PipeInv, FlowInv
  <2> QED BY <2>4, <2>5
<1>12. CASE frames["in"] = <<>>
  <2>1. f = EOF /\ l = 0 /\ shut["in"] /\ source.pc = "done" /\ SourceDone
    BY <1>1, <1>4, <1>12 DEF CanTake, Take, ReceivingInv
  <2>2. ~fails /\ n = Chunks
    <3>1. x > (IF fails THEN Chunks + 1 ELSE Chunks)
      BY <2>1 DEF SourceDone
    <3>2. l = 0
      BY <2>1
    <3> HIDE DEF n, l, x
    <3> QED BY <1>2, <1>6, <3>1, <3>2 DEF PipeConstants
  <2>3. copy'.pc \in {"closeOut", "closeIn"} /\ ~Receiving' /\ Passed' = Passed
    BY <1>3, <1>5, <2>1 DEF CopyRecv, Receiving
  <2>4. StoppedInv'
    BY <1>3, <1>6, <2>1, <2>2, <2>3 DEF StoppedInv, Complete
  <2> QED BY <1>1, <1>3, <1>6, <1>8, <2>3, <2>4 DEF PipeInv, FlowInv
<1> QED BY <1>10, <1>11, <1>12
\* The cancel's copier passes on its cancel, after chunks only.
LEMMA CopyCancelledNext ==
    ASSUME PipeConstants, PipeInv, CopyCancelled
    PROVE  PipeInv'
<1>1. PipeType /\ FlowInv /\ ~panicked /\ copy.pc = "recv" /\ immediate /\ copier = "cancel"
  BY DEF PipeInv, CopyCancelled
<1>2. /\ UNCHANGED <<copier, fails, frames, closed, shut, source, immediate, received, panicked>>
      /\ copy' = [holds |-> Cancelled, pc |-> "put"]
  BY DEF CopyCancelled
<1>3. PipeType'
  BY <1>1, <1>2 DEF PipeType, Cancelled
<1>4. /\ Passed \in Seq(Int) /\ received \o frames["out"] \in Seq(Int)
      /\ Cancelled \in Int /\ Cancelled < 0
  BY <1>1, PipeFacts DEF Cancelled
<1>5. AllChunks(Passed) /\ InPlace(Passed)
  BY <1>1 DEF FlowInv, ReceivingInv, Receiving
<1>6. Passed' = Passed \o <<Cancelled>>
  <2>1. InHand = <<>> /\ InHand' = <<Cancelled>>
    BY <1>1, <1>2 DEF InHand
  <2>2. (received \o frames["out"]) \o <<>> = received \o frames["out"]
    BY <1>4
  <2> QED BY <1>2, <2>1, <2>2 DEF Passed
<1>7. /\ InPlace(Passed') /\ Len(Passed') = Len(Passed) + 1
      /\ Passed'[Len(Passed) + 1] = Cancelled
  BY <1>4, <1>5, <1>6, Ending
<1>8. Passed' # <<>> /\ Passed'[Len(Passed')] = Cancelled
  <2>1. ASSUME NEW a \in Seq(Int)
        PROVE  a \o <<Cancelled>> # <<>> /\ Len(a) \in Nat
    BY <1>4
  <2> QED BY <1>4, <1>6, <1>7, <2>1
<1>9. StoppedInv' /\ ~Receiving'
  BY <1>1, <1>2, <1>4, <1>8 DEF StoppedInv, Receiving
<1> QED BY <1>1, <1>2, <1>3, <1>7, <1>9 DEF PipeInv, FlowInv

\* What the copier holds goes into "out", which nobody has closed.
LEMMA CopyPutNext ==
    ASSUME PipeConstants, PipeInv, CopyPut
    PROVE  PipeInv'
<1>1. PipeType /\ FlowInv /\ ~panicked /\ copy.pc = "put" /\ ~shut["out"]
  BY DEF PipeInv, CopyPut, FlowInv
<1>2. /\ UNCHANGED <<copier, fails, closed, shut, source, immediate, received, panicked>>
      /\ frames'["out"] = Append(frames["out"], copy.holds)
      /\ frames'["in"] = frames["in"]
      /\ copy'.holds = copy.holds
      /\ copy'.pc = IF copy.holds > 0 THEN "recv"
                    ELSE IF copier = "retry" THEN "done" ELSE "closeIn"
  BY <1>1 DEF CopyPut, Put, PipeType, Stream
<1>3. /\ received \in Seq(Int) /\ frames["out"] \in Seq(Int) /\ copy.holds \in Int
  BY <1>1, PipeFacts
<1>4. /\ received \o Append(frames["out"], copy.holds)
           = (received \o frames["out"]) \o <<copy.holds>>
      /\ Append(frames["out"], copy.holds) \in Seq(Int)
  BY <1>3, AppendLast, SMTT(20)
<1>5. PipeType'
  <2>1. frames' \in [Stream -> Seq(Int)]
    BY <1>1, <1>4 DEF CopyPut, Put, PipeType
  <2> QED BY <1>1, <1>2, <2>1 DEF CopyPut, PipeType
<1>6. Passed' = Passed
  <2>1. InHand = <<copy.holds>> /\ InHand' = <<>>
    BY <1>1, <1>2 DEF InHand
  <2>2. Passed = received \o Append(frames["out"], copy.holds)
    BY <1>4, <2>1 DEF Passed
  <2>3. ASSUME NEW a \in Seq(Int), NEW b \in Seq(Int) PROVE (a \o b) \o <<>> = a \o b
    OBVIOUS
  <2>4. Passed' = (received \o Append(frames["out"], copy.holds)) \o <<>>
    BY <1>2, <2>1 DEF Passed
  <2> QED BY <1>3, <1>4, <2>2, <2>3, <2>4
<1>7. CASE copy.holds > 0
  <2>1. Receiving /\ Receiving'
    BY <1>1, <1>2, <1>7 DEF Receiving
  <2>2. ReceivingInv'
    BY <1>1, <1>2, <1>6, <2>1 DEF FlowInv, ReceivingInv, SourceDone
  <2> QED BY <1>1, <1>2, <1>5, <1>6, <1>7, <2>1, <2>2 DEF PipeInv, FlowInv
<1>8. CASE ~(copy.holds > 0)
  <2>1. ~Receiving /\ ~Receiving'
    BY <1>1, <1>2, <1>8 DEF Receiving
  <2>2. StoppedInv'
    BY <1>1, <1>2, <1>6, <2>1 DEF FlowInv, StoppedInv, Complete
  <2> QED BY <1>1, <1>2, <1>5, <1>6, <1>8, <2>1, <2>2 DEF PipeInv, FlowInv
<1> QED BY <1>7, <1>8

\* The deferred calls move nothing, and the second close of "in" panics only
\* after an error or an immediate cancel.
LEMMA CopyClosesNext ==
    ASSUME PipeConstants, PipeInv, CopyLook \/ CopyShut
    PROVE  PipeInv'
<1>1. /\ PipeType /\ FlowInv /\ ~panicked /\ PipeIsWhole
      /\ copy.pc \in {"closeIn", "closeOut", "in", "out"}
  BY WholeFromFlow DEF PipeInv, CopyLook, CopyShut, Stream
<1>2. /\ UNCHANGED <<copier, fails, frames, source, immediate, received>>
      /\ copy'.holds = copy.holds /\ copy'.pc \in {"in", "out", "closeOut", "done"}
  BY <1>1 DEF CopyLook, CopyShut, PipeType
<1>3. ~Receiving /\ ~Receiving' /\ Passed' = Passed /\ StoppedInv
  BY <1>1, <1>2 DEF Receiving, Passed, InHand, FlowInv
<1>4. ~shut["out"] /\ closed = shut
  BY <1>1 DEF FlowInv
<1>5. CASE CopyLook
  <2>1. UNCHANGED <<closed, shut, panicked>>
    BY <1>5 DEF CopyLook
  <2>2. PipeType'
    BY <1>1, <1>5 DEF CopyLook, PipeType
  <2>3. copy'.pc = "in" => copy'.holds # EOF
    BY <1>1, <1>2, <1>3, <1>4, <1>5
      DEF CopyLook, StoppedInv, PipeType, EOF, Failure, Cancelled
  <2>4. StoppedInv'
    BY <1>2, <1>3, <2>1 DEF StoppedInv, Complete
  <2> QED BY <1>1, <1>2, <1>3, <1>4, <2>1, <2>2, <2>3, <2>4 DEF PipeInv, FlowInv
<1>6. CASE CopyShut
  <2>1. PipeType'
    BY <1>1, <1>6 DEF CopyShut, Shut, PipeType, Stream
  <2>2. CASE shut[copy.pc]
    <3>1. copy.pc = "in" /\ (immediate \/ fails)
      BY <1>1, <1>3, <1>4, <1>6, <2>2 DEF CopyShut, Stream, FlowInv, StoppedInv
    <3>2. panicked'
      BY <1>6, <2>2 DEF CopyShut, Shut
    <3> QED BY <1>1, <1>2, <2>1, <3>1, <3>2 DEF PipeInv, PipeIsWhole, Ended
  <2>3. CASE ~shut[copy.pc]
    <3>1. /\ panicked' = panicked /\ closed' = shut'
          /\ (shut["in"] => shut'["in"]) /\ (shut'["out"] => copy.pc = "out")
      BY <1>1, <1>4, <1>6, <2>3 DEF CopyShut, Shut, PipeType, Stream
    <3>2. /\ copy'.pc = IF copy.pc = "in" THEN "closeOut" ELSE "done"
      BY <1>1, <1>6 DEF CopyShut, PipeType
    <3>3. StoppedInv'
      BY <1>2, <1>3, <3>1 DEF StoppedInv, Complete
    <3> QED BY <1>1, <1>3, <2>1, <3>1, <3>2, <3>3 DEF PipeInv, FlowInv
  <2> QED BY <2>2, <2>3
<1> QED BY <1>5, <1>6

\* The reader takes what has passed, and the end of "out" only when the copier
\* has closed it and nothing but chunks was read.
LEMMA ReadNext ==
    ASSUME PipeConstants, PipeInv, Read
    PROVE  PipeInv'
<1>1. PipeType /\ FlowInv /\ ~panicked /\ ~Ended /\ CanTake("out")
  BY DEF PipeInv, Read
<1>2. /\ UNCHANGED <<copier, fails, closed, shut, source, copy, immediate, panicked>>
      /\ frames'["in"] = frames["in"]
      /\ frames'["out"] = IF frames["out"] = <<>> THEN <<>> ELSE Tail(frames["out"])
      /\ received' = Append(received, Take("out"))
      /\ Receiving' = Receiving /\ InHand' = InHand
  BY <1>1 DEF Read, Taken, PipeType, Stream, Receiving, InHand
<1>3. /\ received \in Seq(Int) /\ frames["out"] \in Seq(Int) /\ InHand \in Seq(Int)
      /\ Passed \in Seq(Int)
  BY <1>1, PipeFacts
<1>4. PipeType'
  <2>1. Take("out") \in Int /\ (frames["out"] # <<>> => Tail(frames["out"]) \in Seq(Int))
    BY <1>3 DEF Take, EOF
  <2>2. received' \in Seq(Int)
    BY <1>2, <1>3, <2>1
  <2>3. frames' \in [Stream -> Seq(Int)]
    BY <1>1, <1>3, <2>1 DEF Read, Taken, PipeType, Stream
  <2> QED BY <1>1, <1>2, <2>2, <2>3 DEF PipeType
<1>5. CASE frames["out"] # <<>>
  <2>1. Append(received, Head(frames["out"])) \o Tail(frames["out"]) = received \o frames["out"]
    BY <1>3, <1>5, MoveHead
  <2>2. Passed' = Passed
    BY <1>2, <1>5, <2>1 DEF Passed, Take
  <2>3. Receiving => ReceivingInv'
    BY <1>1, <1>2, <2>2 DEF FlowInv, ReceivingInv, SourceDone
  <2>4. ~Receiving => StoppedInv'
    BY <1>1, <1>2, <1>5, <2>2 DEF FlowInv, StoppedInv, Complete
  <2> QED BY <1>1, <1>2, <1>4, <2>2, <2>3, <2>4 DEF PipeInv, FlowInv
<1>6. CASE frames["out"] = <<>>
  <2>1. copy.pc = "done" /\ ~Receiving /\ StoppedInv /\ InHand = <<>>
    BY <1>1, <1>6 DEF CanTake, FlowInv, Receiving, InHand
  <2>2. ASSUME NEW a \in Seq(Int) PROVE (a \o <<>>) \o <<>> = a
    OBVIOUS
  <2>3. Passed = received
    BY <1>3, <1>6, <2>1, <2>2 DEF Passed
  <2>4. received' = received \o <<EOF>> /\ received' \in Seq(Int) /\ EOF \in Int /\ EOF < 0
    BY <1>2, <1>3, <1>6 DEF Take, EOF
  <2>5. Passed' = received'
    BY <1>2, <1>6, <2>1, <2>2, <2>4 DEF Passed
  <2>6. ASSUME received # <<>> PROVE ~(received[Len(received)] < 0)
    BY <1>1, <2>6 DEF Ended
  <2>7. Complete /\ (~fails \/ copier = "cancel")
    BY <1>3, <2>1, <2>3, <2>6 DEF StoppedInv, Failure, Cancelled, PipeConstants
  <2>8. Len(received) = Chunks /\ AllChunks(received)
    BY <1>3, <2>3, <2>6, <2>7 DEF Complete, EOF, PipeConstants
  <2>9. /\ Len(received') = Chunks + 1 /\ received'[Chunks + 1] = EOF /\ InPlace(received')
    BY <1>1, <1>3, <2>3, <2>4, <2>8, Ending DEF FlowInv
  <2>10. Complete'
    BY <1>2, <1>6, <2>1, <2>9 DEF Complete
  <2>11. StoppedInv'
    <3>1. \/ copy.holds = EOF /\ ~fails /\ shut["in"] /\ source.pc = "done"
          \/ copy.holds = Failure /\ fails /\ copier = "cancel"
      BY <1>3, <2>1, <2>3, <2>6, <2>8
        DEF StoppedInv, Failure, Cancelled, PipeConstants
    <3> QED BY <1>2, <2>10, <3>1 DEF StoppedInv
  <2> QED BY <1>1, <1>2, <1>4, <2>1, <2>5, <2>9, <2>11 DEF PipeInv, FlowInv
<1> QED BY <1>5, <1>6

\* Every step of the pipe, and a step that does not touch it.
LEMMA PipeInvNext ==
    ASSUME PipeConstants, PipeInv, PipeNext \/ UNCHANGED pipeVars
    PROVE  PipeInv'
<1>1. CASE ImmediateCancel
  <2>1. PipeType /\ FlowInv /\ ~panicked
    BY <1>1 DEF PipeInv, ImmediateCancel
  <2>2. /\ UNCHANGED <<copier, fails, frames, closed, shut, source, copy, received, panicked>>
        /\ immediate' = TRUE
    BY <1>1 DEF ImmediateCancel
  <2>3. Passed' = Passed /\ Receiving' = Receiving /\ PipeType'
    BY <2>1, <2>2 DEF Passed, InHand, Receiving, PipeType
  <2>4. (ReceivingInv => ReceivingInv') /\ (StoppedInv => StoppedInv')
    BY <2>2, <2>3 DEF ReceivingInv, SourceDone, StoppedInv, Complete
  <2> QED BY <2>1, <2>2, <2>3, <2>4 DEF PipeInv, FlowInv
<1>2. CASE UNCHANGED pipeVars
  <2>1. PipeType' = PipeType /\ PipeIsWhole' = PipeIsWhole /\ panicked' = panicked
    BY <1>2 DEF pipeVars, PipeType, PipeIsWhole, Ended
  <2>2. Passed' = Passed /\ Receiving' = Receiving
    BY <1>2 DEF pipeVars, Passed, InHand, Receiving
  <2>3. ReceivingInv' = ReceivingInv
    BY <1>2, <2>2 DEF pipeVars, ReceivingInv, SourceDone
  <2>4. StoppedInv' = StoppedInv
    BY <1>2, <2>2 DEF pipeVars, StoppedInv, Complete
  <2>5. FlowInv' = FlowInv
    BY <1>2, <2>2, <2>3, <2>4 DEF pipeVars, FlowInv
  <2> QED BY <2>1, <2>5 DEF PipeInv
<1> QED BY <1>1, <1>2, SourceNext, CopyRecvNext, CopyCancelledNext, CopyPutNext,
        CopyClosesNext, ReadNext DEF PipeNext

\* The property follows from the invariant.
LEMMA PipeInvSound == ASSUME PipeConstants, PipeInv PROVE PipeIsWhole
  BY WholeFromFlow DEF PipeInv

PipeSpec == PipeInit /\ [][PipeNext]_pipeVars

\* Whatever the number of chunks and the capacity of the streams, the reader
\* gets the source's chunks in order and the end of the stream after the last.
THEOREM PipesAreWhole == ASSUME PipeConstants PROVE PipeSpec => []PipeIsWhole
<1>1. PipeInit => PipeInv
  BY PipeInvInit
<1>2. PipeInv /\ [PipeNext]_pipeVars => PipeInv'
  BY PipeInvNext
<1>3. PipeInv => PipeIsWhole
  BY PipeInvSound
<1> QED BY <1>1, <1>2, <1>3, PTL DEF PipeSpec
=============================================================================
