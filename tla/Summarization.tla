---------------------------- MODULE Summarization ----------------------------
(***************************************************************************)
(* The summarization middleware (agentcore/middlewares/summarization) in a *)
(* run of a ReAct agent: before each call of the model the messages are    *)
(* rid of reads that a later write made stale, and if there are too many   *)
(* the older ones are replaced by a summary.                               *)
(*                                                                         *)
(* A message has a number.  The text of a summary is a sequence of lines,  *)
(* each with a priority, a length (after the cut at MaxLineLen) and the    *)
(* numbers of the messages it tells of.  What the models say, which path   *)
(* and operation a tool's answer shows (by its Name, which the loop sets   *)
(* to the ID of the call), and whether the tokens are too many is external.*)
(***************************************************************************)
EXTENDS Integers, Sequences, FiniteSets, SequencesExt

CONSTANTS
    Histories,      \* conversations to start from, as sequences of turns
    Batches,        \* what tools answer: sequences of [op, path]
    PreserveRecent, MaxMessages,
    KeepLatest,     \* of the FinalizerBuilder
    MaxLines, MaxChars,
    MaxRounds       \* bound: calls of the model

VARIABLES
    sumCfg,         \* the middleware's configuration
    sumPc,
    messages,       \* of the agent's state
    all,            \* history: every message there has been
    superseded,     \* history: the numbers of those that were stale
    untold,         \* history: a summary was written without the model
    crashed

summaryVars == <<sumCfg, sumPc, messages, all, superseded, untold, crashed>>

NoPath == ""
Message(n, r) == [no |-> n, role |-> r, calls |-> 0, of |-> 0, op |-> "none",
                  path |-> NoPath, lines |-> <<>>]

\* What a turn adds after n messages: a message of the user, or one of the
\* model with its calls and their answers.
Turn(n, turn) ==
    IF turn.role = "user" THEN <<Message(n + 1, "user")>>
    ELSE <<[Message(n + 1, "model") EXCEPT !.calls = Len(turn.tools)]>>
         \o [i \in 1 .. Len(turn.tools) |->
               [Message(n + 1 + i, "tool") EXCEPT !.of = n + 1,
                  !.op = turn.tools[i].op, !.path = turn.tools[i].path]]

SummaryInit ==
    /\ \E h \in Histories :
         all = FoldLeft(LAMBDA q, turn : q \o Turn(Len(q), turn), <<>>, h)
    /\ messages = all
    /\ sumCfg \in [supersede : BOOLEAN, compress : {"no", "default", "budget"},
                   finalize : {"none", "builder", "fails"}, model : BOOLEAN]
    /\ sumPc = "rewrite" /\ superseded = {} /\ untold = FALSE /\ crashed = FALSE

-----------------------------------------------------------------------------
(* compactor.go.                                                           *)

\* AnalyzeFileOps: reads with a later write or edit of the same path.
AnalyzeFileOps_AnyRead(msgs) ==
    {i \in DOMAIN msgs :
       /\ msgs[i].role = "tool" /\ msgs[i].path # NoPath /\ msgs[i].op = "read"
       /\ \E j \in DOMAIN msgs \ {i} : msgs[j].path = msgs[i].path}
AnalyzeFileOps(msgs) ==
    {i \in DOMAIN msgs :
       /\ msgs[i].role = "tool" /\ msgs[i].path # NoPath /\ msgs[i].op = "read"
       /\ \E j \in i + 1 .. Len(msgs) :
            /\ msgs[j].role = "tool" /\ msgs[j].path = msgs[i].path
            /\ msgs[j].op \in {"write", "edit"}}

\* ApplySupersede.
ApplySupersede(msgs) ==
    LET stale == AnalyzeFileOps(msgs)
    IN  FoldLeftDomain(LAMBDA q, i : IF i \in stale THEN q ELSE Append(q, msgs[i]),
                       <<>>, msgs)

\* findSafeSplit: how many messages to summarize, at most desired, so that no
\* call is split from its answers; desired if there is no such place.
findSafeSplit_AtCall(msgs, desired) ==
    LET safe == {i \in 1 .. desired : msgs[i].role # "tool"}
    IN  IF desired >= Len(msgs) THEN Len(msgs)
        ELSE IF safe = {} THEN desired
        ELSE CHOOSE i \in safe : \A j \in safe : j <= i
findSafeSplit(msgs, desired) ==
    LET safe == {i \in 1 .. desired : msgs[i].role # "tool" /\ msgs[i].calls = 0}
    IN  IF desired >= Len(msgs) THEN Len(msgs)
        ELSE IF safe = {} THEN desired
        ELSE CHOOSE i \in safe : \A j \in safe : j <= i

\* extractExistingSummary: the text of the first summary, if any.
extractExistingSummary(msgs) ==
    LET at == SelectInSeq(msgs, LAMBDA m : m.role = "system")
    IN  IF at = 0 THEN <<>> ELSE msgs[at].lines

\* classifyLinePriority of the lines there are: "Newly compacted context:" is
\* a core line, "Previous summary:" a heading, the rest is detail.
Line(p, l, c) == [priority |-> p, len |-> l, covers |-> c]
mergeSummaries_NewOnly(existing, new) == new
mergeSummaries(existing, new) ==
    <<Line(1, 1, {})>> \o existing \o <<Line(0, 1, {})>> \o new

\* CompressSummary: the lines by priority, as many as the budget allows; a line
\* that does not fit is passed over.
CompressSummary(lines) ==
    LET By(p) == SelectSeq(lines, LAMBDA x : x.priority = p)
        Add(acc, x) ==
            IF Len(acc.to) >= MaxLines \/ acc.chars + x.len + 1 > MaxChars THEN acc
            ELSE [to |-> Append(acc.to, x), chars |-> acc.chars + x.len + 1]
    IN  FoldLeft(Add, [to |-> <<>>, chars |-> 0],
                 By(0) \o By(1) \o By(2) \o By(3)).to

\* Compact, with what the summarizer said.
Compact(msgs, said) ==
    IF Len(msgs) <= PreserveRecent + 1 THEN msgs
    ELSE LET split == findSafeSplit(msgs, Len(msgs) - PreserveRecent)
             old == SubSeq(msgs, 1, split)
             existing == extractExistingSummary(old)
             new == <<Line(3, said.len, IF said.told THEN {old[i].no : i \in DOMAIN old}
                                        ELSE {})>>
             text == IF existing = <<>> THEN new ELSE mergeSummaries(existing, new)
         IN  <<[Message(0, "system") EXCEPT !.lines = text]>>
             \o SubSeq(msgs, split + 1, Len(msgs))

-----------------------------------------------------------------------------
(* summarization.go.                                                       *)

\* generateSummary: the model is asked until it answers or the attempts are
\* over; without a model, or when it has failed, the text is a count.
Summaries == [told : IF sumCfg.model THEN BOOLEAN ELSE {FALSE}, len : {1, 2}]

\* FinalizerBuilder.Build: the last messages come behind the compacted ones,
\* which have them already.
FinalizerBuilder(original, summary) ==
    IF Len(original) <= KeepLatest THEN summary
    ELSE summary \o SubSeq(original, Len(original) - KeepLatest + 1, Len(original))

\* BeforeModelRewrite.  Compressing without a SummaryBudget dereferences nil.
BeforeModelRewrite(tooManyTokens, said) ==
    LET current == IF sumCfg.supersede THEN ApplySupersede(messages) ELSE messages
        due == Len(current) > MaxMessages \/ (tooManyTokens /\ current # <<>>)
        compacted == Compact(current, said)
        compress == /\ sumCfg.compress # "no" /\ compacted # <<>>
                    /\ compacted[1].role = "system"
        final == IF compress
                   THEN [compacted EXCEPT ![1].lines = CompressSummary(compacted[1].lines)]
                   ELSE compacted
        panics == due /\ compress /\ sumCfg.compress = "default"
    IN  /\ sumPc = "rewrite"
        /\ superseded' = superseded \cup
             ({messages[i].no : i \in DOMAIN messages}
               \ {current[i].no : i \in DOMAIN current})
        /\ crashed' = panics
        /\ sumPc' = IF panics THEN "ended" ELSE "model"
        /\ messages' = CASE ~due \/ panics \/ sumCfg.finalize = "fails" -> current
                         [] OTHER -> IF sumCfg.finalize = "builder"
                                       THEN FinalizerBuilder(current, final) ELSE final
        /\ untold' = (untold \/ (due /\ compacted # current /\ ~said.told))
        /\ UNCHANGED <<sumCfg, all>>

\* The model answers, and the tools it called.
ModelTurn(tools) ==
    /\ sumPc = "model"
    /\ LET new == Turn(Len(all), [role |-> "model", tools |-> tools])
       IN  all' = all \o new /\ messages' = messages \o new
    /\ sumPc' = IF tools = <<>> \/ Len(SelectSeq(all, LAMBDA m : m.calls > 0)) >= MaxRounds
                  THEN "ended" ELSE "rewrite"
    /\ UNCHANGED <<sumCfg, superseded, untold, crashed>>

SummaryNext ==
    \/ \E t \in BOOLEAN, s \in Summaries : BeforeModelRewrite(t, s)
    \/ \E b \in Batches : ModelTurn(b)

-----------------------------------------------------------------------------
(* Properties.                                                             *)

Summarized == messages # <<>> /\ messages[1].role = "system"
Recent == IF Summarized THEN Tail(messages) ELSE messages
Covered == IF Summarized
             THEN UNION {messages[1].lines[i].covers : i \in DOMAIN messages[1].lines}
             ELSE {}
Live == SelectSeq(all, LAMBDA m : m.no \notin superseded)

\* Through any number of compactions (without the FinalizerBuilder, which
\* doubles messages): the messages after the summary are the latest of the
\* conversation, in order, with no answer split from its call, and the latest
\* PreserveRecent of them unless reads became stale; every other message is
\* told of in the summary unless that was shortened or the model failed; only
\* reads of files that were written since are dropped; and the middleware
\* panics only if it is to compress without a budget.
ConversationKept ==
    /\ sumCfg.finalize # "builder" =>
         /\ IsSuffix(Recent, Live)
         /\ \A k \in DOMAIN messages : messages[k].role = "tool" =>
              \E j \in 1 .. k - 1 : messages[j].no = messages[k].of
         /\ superseded = {} /\ Summarized => Len(Recent) >= PreserveRecent
         /\ sumCfg.compress = "no" /\ ~untold =>
              \A i \in DOMAIN all :
                all[i].no \in superseded \cup Covered \cup {m.no : m \in ToSet(Recent)}
    /\ \A n \in superseded :
         \E w \in n + 1 .. Len(all) :
           /\ all[n].op = "read" /\ all[w].op \in {"write", "edit"}
           /\ all[w].path = all[n].path
    /\ crashed => sumCfg.compress = "default"
==============================================================================
