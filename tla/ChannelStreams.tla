--------------------------- MODULE ChannelStreams ---------------------------
(***************************************************************************)
(* ChannelStream, DuplexStream and the filtering and mapping iterators     *)
(* (graphengine/types/stream.go): producers emit chunks into their own     *)
(* streams, the goroutines of the duplex stream forward them, and a reader *)
(* takes them from its output through a filter.                            *)
(***************************************************************************)
EXTENDS Integers, Sequences, FiniteSets, SequencesExt

CONSTANTS
    Source,
    MaxEmits,       \* bound: chunks a producer emits
    BufferSize,     \* of a source; the output has room for all
    Passes          \* the numbers of the chunks the filter lets through

VARIABLES
    buffer,         \* source -> chunks in its channel
    sourceClosed,
    producer,       \* source -> where its Emit is and the chunk's number
    forwarder,      \* source -> what its multiplex goroutine does and holds
    output, outputClosed,
    closing,        \* where Close of the duplex stream is
    readerErr,      \* the filter iterator has kept an error
    read,           \* history: what the reader got
    dropped,        \* history: chunks the filter held back
    channelPanic

channelStreamVars == <<buffer, sourceClosed, producer, forwarder, output, outputClosed,
                       closing, readerErr, read, dropped, channelPanic>>

DuplexInit ==
    /\ buffer = [s \in Source |-> <<>>] /\ sourceClosed = {}
    /\ producer = [s \in Source |-> [pc |-> "idle", made |-> 0]]
    /\ forwarder = [s \in Source |-> [pc |-> "next", chunk |-> 0]]
    /\ output = <<>> /\ outputClosed = FALSE /\ closing = "no"
    /\ readerErr = FALSE /\ read = <<>> /\ dropped = {} /\ channelPanic = "none"

Calm == channelPanic = "none"

-----------------------------------------------------------------------------
(* A producer: whether the stream is closed is looked at under the lock,   *)
(* the send is made without it.                                            *)

EmitLooks(s) ==
    /\ Calm /\ producer[s].pc = "idle" /\ s \notin sourceClosed /\ producer[s].made < MaxEmits
    /\ producer' = [producer EXCEPT ![s].pc = "send"]
    /\ UNCHANGED <<buffer, sourceClosed, forwarder, output, outputClosed, closing, readerErr,
                   read, dropped, channelPanic>>

EmitSends(s) ==
    /\ Calm /\ producer[s].pc = "send"
    /\ IF s \in sourceClosed
         THEN channelPanic' = s /\ UNCHANGED <<buffer, producer>>
         ELSE /\ Len(buffer[s]) < BufferSize
              /\ buffer' = [buffer EXCEPT ![s] = Append(@, producer[s].made + 1)]
              /\ producer' = [producer EXCEPT ![s] = [pc |-> "idle", made |-> @.made + 1]]
              /\ UNCHANGED channelPanic
    /\ UNCHANGED <<sourceClosed, forwarder, output, outputClosed, closing, readerErr, read,
                   dropped>>

EmitCancelled(s) ==
    /\ Calm /\ producer[s].pc = "send"
    /\ producer' = [producer EXCEPT ![s].pc = "idle"]
    /\ UNCHANGED <<buffer, sourceClosed, forwarder, output, outputClosed, closing, readerErr,
                   read, dropped, channelPanic>>

CloseSource(s) ==
    /\ Calm /\ s \notin sourceClosed /\ sourceClosed' = sourceClosed \cup {s}
    /\ UNCHANGED <<buffer, producer, forwarder, output, outputClosed, closing, readerErr, read,
                   dropped, channelPanic>>

-----------------------------------------------------------------------------
(* multiplex.                                                              *)

ForwarderTakes(s) ==
    /\ Calm /\ forwarder[s].pc = "next" /\ buffer[s] # <<>>
    /\ forwarder' = [forwarder EXCEPT ![s] = [pc |-> "emit", chunk |-> Head(buffer[s])]]
    /\ buffer' = [buffer EXCEPT ![s] = Tail(@)]
    /\ UNCHANGED <<sourceClosed, producer, output, outputClosed, closing, readerErr, read,
                   dropped, channelPanic>>

\* The source has ended, or the duplex stream's context has.
ForwarderEnds(s) ==
    /\ Calm
    /\ \/ forwarder[s].pc = "next" /\ s \in sourceClosed /\ buffer[s] = <<>>
       \/ forwarder[s].pc \in {"next", "send"} /\ closing # "no"
    /\ forwarder' = [forwarder EXCEPT ![s] = [pc |-> "ended", chunk |-> 0]]
    /\ UNCHANGED <<buffer, sourceClosed, producer, output, outputClosed, closing, readerErr,
                   read, dropped, channelPanic>>

\* Emit of the output: the look, and the send.
ForwarderLooks(s) ==
    /\ Calm /\ forwarder[s].pc = "emit"
    /\ forwarder' = [forwarder EXCEPT ![s].pc = IF outputClosed THEN "ended" ELSE "send"]
    /\ UNCHANGED <<buffer, sourceClosed, producer, output, outputClosed, closing, readerErr,
                   read, dropped, channelPanic>>

ForwarderEmits(s) ==
    /\ Calm /\ forwarder[s].pc = "send"
    /\ IF outputClosed THEN channelPanic' = "output" /\ UNCHANGED <<output, forwarder>>
       ELSE /\ output' = Append(output, <<s, forwarder[s].chunk>>)
            /\ forwarder' = [forwarder EXCEPT ![s] = [pc |-> "next", chunk |-> 0]]
            /\ UNCHANGED channelPanic
    /\ UNCHANGED <<buffer, sourceClosed, producer, outputClosed, closing, readerErr, read,
                   dropped>>

-----------------------------------------------------------------------------
(* The reader, and Close.                                                  *)

\* filterIterator.Next: chunks the filter does not let through are passed over,
\* and mapIterator.Next over it applies the mapper, which keeps the chunk.
Next(c) ==
    /\ Calm /\ ~readerErr /\ output # <<>> /\ c = Head(output)
    /\ output' = Tail(output)
    /\ IF c[2] \in Passes THEN read' = Append(read, c) /\ UNCHANGED dropped
       ELSE dropped' = dropped \cup {c} /\ UNCHANGED read
    /\ UNCHANGED <<buffer, sourceClosed, producer, forwarder, outputClosed, closing, readerErr,
                   channelPanic>>

\* The end of the stream, or of the context of one call: both are kept.
NextFails ==
    /\ Calm /\ ~readerErr /\ readerErr' = TRUE
    /\ UNCHANGED <<buffer, sourceClosed, producer, forwarder, output, outputClosed, closing,
                   read, dropped, channelPanic>>

CloseCancels ==
    /\ Calm /\ closing = "no" /\ closing' = "wait"
    /\ UNCHANGED <<buffer, sourceClosed, producer, forwarder, output, outputClosed, readerErr,
                   read, dropped, channelPanic>>

\* Mutant: the goroutines are not waited for.
CloseWaited_Early ==
    /\ Calm /\ closing = "wait" /\ closing' = "closed"
    /\ sourceClosed' = Source /\ outputClosed' = TRUE
    /\ UNCHANGED <<buffer, producer, forwarder, output, readerErr, read, dropped, channelPanic>>

\* wg.Wait, and the streams and the output are closed.
CloseWaited ==
    /\ Calm /\ closing = "wait" /\ (\A s \in Source : forwarder[s].pc = "ended")
    /\ closing' = "closed"
    /\ sourceClosed' = Source /\ outputClosed' = TRUE
    /\ UNCHANGED <<buffer, producer, forwarder, output, readerErr, read, dropped, channelPanic>>

DuplexNext ==
    \/ \E s \in Source :
         \/ EmitLooks(s) \/ EmitSends(s) \/ EmitCancelled(s) \/ CloseSource(s)
         \/ ForwarderTakes(s) \/ ForwarderEnds(s) \/ ForwarderLooks(s)
         \/ ForwarderEmits(s)
    \/ \E c \in Source \X (1 .. MaxEmits) : Next(c)
    \/ NextFails \/ CloseCancels \/ CloseWaited

-----------------------------------------------------------------------------
(* Properties.                                                             *)

Numbers(s, q) == {q[i][2] : i \in {j \in 1 .. Len(q) : q[j][1] = s}}
Held(s) == forwarder[s].pc \in {"emit", "send"}

\* The reader gets the chunks of a source in the order they were emitted, each
\* once; until Close is called each is read, held back by the filter, or still
\* under way; nothing is sent on the closed output, and on a closed source only
\* by an Emit that overlaps the Close.
DuplexSound ==
    /\ channelPanic # "output"
    /\ channelPanic \in Source => producer[channelPanic].pc = "send"
    /\ \A i, j \in 1 .. Len(read) : i < j /\ read[i][1] = read[j][1] => read[i][2] < read[j][2]
    /\ closing = "no" => \A s \in Source :
         1 .. producer[s].made =
           Numbers(s, read) \cup {c[2] : c \in {d \in dropped : d[1] = s}}
           \cup (IF Held(s) THEN {forwarder[s].chunk} ELSE {})
           \cup Numbers(s, output) \cup ToSet(buffer[s])
=============================================================================
