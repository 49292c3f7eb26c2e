--------------------------- MODULE MessageStreams ---------------------------
(***************************************************************************)
(* StreamMessagesHandler and its MessageAggregator                         *)
(* (graphengine/pregel/messages.go): the chunks of each node are merged    *)
(* into messages, which are emitted when the flush trigger says so.  A     *)
(* message is the number of chunks in it; the emitters, to a channel, a    *)
(* writer or a map, are external and may fail.                             *)
(***************************************************************************)
EXTENDS Integers, Sequences, SequencesExt

CONSTANTS
    MsgNode,
    MaxParts,       \* bound: chunks of a node
    MaxFailures     \* bound: errors of the emitters

VARIABLES
    flushTrigger,   \* "complete", "immediate" or "end"
    streams,        \* nodes that have a stream
    chunks,         \* node -> its complete messages
    current,        \* node -> the chunks merged so far
    streamClosed,   \* nodes whose stream is closed
    messages,       \* the aggregator's: node -> indices of messages to emit
    flushing,       \* nodes whose messages Flush has not emitted yet
    emitNext,       \* the node being flushed and how far it is
    handlerLock,    \* "free", "held", by a call in progress, or "stuck"
    parts,          \* history: node -> the chunks it has been given
    emitted,        \* history: node -> indices of the messages emitted
    flushFailed     \* history: how often an emitter has failed

messageVars == <<flushTrigger, streams, chunks, current, streamClosed, messages, flushing,
                 emitNext, handlerLock, parts, emitted, flushFailed>>

Nil == [node |-> "none", at |-> 0]

MessagesInit ==
    /\ flushTrigger \in {"complete", "immediate", "end"}
    /\ streams = {} /\ streamClosed = {}
    /\ chunks = [n \in MsgNode |-> <<>>] /\ current = [n \in MsgNode |-> 0]
    /\ messages = [n \in MsgNode |-> <<>>]
    /\ flushing = {} /\ emitNext = Nil /\ handlerLock = "free"
    /\ parts = [n \in MsgNode |-> 0] /\ emitted = [n \in MsgNode |-> <<>>]
    /\ flushFailed = 0

-----------------------------------------------------------------------------
(* Flush: node by node, in the order of a map, under the locks.            *)

BeginFlush(ms) ==
    /\ flushing' = {n \in MsgNode : ms[n] # <<>>}
    /\ handlerLock' = IF flushing' = {} THEN "free" ELSE "held"

NoFlush == UNCHANGED <<flushing, handlerLock>>

\* Mutant: a failed flush forgets the node's messages.
EmitFails_Forgets ==
    /\ emitNext # Nil /\ flushFailed < MaxFailures /\ flushFailed' = flushFailed + 1
    /\ flushing' = {} /\ emitNext' = Nil /\ handlerLock' = "free"
    /\ messages' = [messages EXCEPT ![emitNext.node] = <<>>]
    /\ UNCHANGED <<flushTrigger, streams, chunks, current, streamClosed, parts, emitted>>

\* An emitter returns an error: the flush ends, and what it has emitted of the
\* node stays among its messages.
EmitFails ==
    /\ emitNext # Nil /\ flushFailed < MaxFailures /\ flushFailed' = flushFailed + 1
    /\ flushing' = {} /\ emitNext' = Nil /\ handlerLock' = "free"
    /\ UNCHANGED <<flushTrigger, streams, chunks, current, streamClosed, messages, parts,
                   emitted>>

FlushNode(n) ==
    /\ emitNext = Nil /\ n \in flushing
    /\ emitNext' = [node |-> n, at |-> 1]
    /\ UNCHANGED <<flushTrigger, streams, chunks, current, streamClosed, messages, flushing,
                   handlerLock, parts, emitted, flushFailed>>

EmitOne ==
    LET n == emitNext.node IN
    /\ emitNext # Nil
    /\ emitted' = [emitted EXCEPT ![n] = Append(@, messages[n][emitNext.at])]
    /\ IF emitNext.at < Len(messages[n])
         THEN emitNext' = [emitNext EXCEPT !.at = @ + 1] /\ UNCHANGED <<messages, flushing, handlerLock>>
         ELSE /\ emitNext' = Nil
              /\ messages' = [messages EXCEPT ![n] = <<>>]
              /\ flushing' = flushing \ {n}
              /\ handlerLock' = IF flushing' = {} THEN "free" ELSE "held"
    /\ UNCHANGED <<flushTrigger, streams, chunks, current, streamClosed, parts, flushFailed>>

-----------------------------------------------------------------------------
(* The handler's calls.                                                    *)

\* The message under way is complete: its chunks, and the aggregator's list.
Completed(n, size) ==
    /\ chunks' = [chunks EXCEPT ![n] = Append(@, size)]
    /\ messages' = [messages EXCEPT ![n] = Append(@, Len(chunks[n]) + 1)]

OnChunk(n, last) ==
    /\ handlerLock = "free" /\ parts[n] < MaxParts
    /\ streams' = streams \cup {n}
    /\ IF n \in streamClosed
         THEN UNCHANGED <<chunks, current, messages, parts>> /\ NoFlush
         ELSE /\ parts' = [parts EXCEPT ![n] = @ + 1]
              /\ current' = [current EXCEPT ![n] = IF last THEN 0 ELSE @ + 1]
              /\ IF last THEN Completed(n, current[n] + 1) ELSE UNCHANGED <<chunks, messages>>
              /\ IF (last /\ flushTrigger = "complete") \/ (~last /\ flushTrigger = "immediate")
                   THEN BeginFlush(messages') ELSE NoFlush
    /\ UNCHANGED <<flushTrigger, streamClosed, emitNext, emitted, flushFailed>>

OnComplete(n) ==
    /\ handlerLock = "free" /\ n \in streams \ streamClosed
    /\ streamClosed' = streamClosed \cup {n}
    /\ current' = [current EXCEPT ![n] = 0]
    /\ IF current[n] > 0 THEN Completed(n, current[n]) ELSE UNCHANGED <<chunks, messages>>
    /\ IF flushTrigger = "end" THEN BeginFlush(messages') ELSE NoFlush
    /\ UNCHANGED <<flushTrigger, streams, emitNext, parts, emitted, flushFailed>>

Flush ==
    /\ handlerLock = "free" /\ BeginFlush(messages)
    /\ UNCHANGED <<flushTrigger, streams, chunks, current, streamClosed, messages, emitNext,
                   parts, emitted, flushFailed>>

\* Close holds the lock that OnComplete, which it calls for every stream, takes.
CloseHandler ==
    /\ handlerLock = "free"
    /\ IF streams # {} THEN handlerLock' = "stuck" /\ UNCHANGED flushing
       ELSE BeginFlush(messages)
    /\ UNCHANGED <<flushTrigger, streams, chunks, current, streamClosed, messages, emitNext,
                   parts, emitted, flushFailed>>

MessagesNext ==
    \/ \E n \in MsgNode : FlushNode(n) \/ OnComplete(n) \/ \E last \in BOOLEAN : OnChunk(n, last)
    \/ EmitOne \/ EmitFails \/ Flush \/ CloseHandler

-----------------------------------------------------------------------------
(* Properties.                                                             *)

Total(s) == FoldLeft(LAMBDA a, b : a + b, 0, s)

\* Every chunk is in one message; a node's messages are emitted in order, each
\* once as long as no emitter fails, and after a failure again from the first
\* that was not flushed, so that none is left out; and only complete messages
\* are emitted.
MessagesAreWhole ==
    \A n \in MsgNode :
      LET made == Len(chunks[n])
          waiting == messages[n]
      IN  /\ Total(chunks[n]) + current[n] = parts[n]
          /\ flushFailed = 0 /\ emitNext.node # n =>
               emitted[n] \o waiting = [i \in 1 .. made |-> i]
          /\ ToSet(emitted[n]) \cup ToSet(waiting) = 1 .. made
          /\ \A i \in 1 .. Len(waiting) : waiting[i] = made - Len(waiting) + i
=============================================================================
