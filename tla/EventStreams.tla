---------------------------- MODULE EventStreams ----------------------------
(***************************************************************************)
(* The rest of graphengine/pregel/stream.go: which events a StreamManager  *)
(* lets through in each mode, its emit functions and StreamWriter, which   *)
(* several goroutines call; EventStream, whose Cancel closes its channels; *)
(* and StreamProcessor, which handles the events of a channel until one    *)
(* fails.  The number of an event is its place among those emitted.        *)
(***************************************************************************)
EXTENDS Integers, Sequences, SequencesExt

CONSTANTS
    Emitter,        \* goroutines that emit
    StreamRoom,     \* capacity of the channel
    MaxEvents       \* bound: events emitted

VARIABLES
    streamKind,     \* "manager" or "stream"
    streamMode,     \* the mode of the manager
    eventCh, eventClosed,
    eventCtx,       \* the context of the stream has ended
    emitter,        \* emitter -> the event it is about to send
    events,         \* history: the number of events emitted
    lost,           \* history: events the channel had no room for
    processor,      \* "running", "ended" or "failed"
    handled,        \* history: the events handled
    eventPanic      \* a send on a closed channel, or a second close

eventVars == <<streamKind, streamMode, eventCh, eventClosed, eventCtx, emitter, events, lost,
               processor, handled, eventPanic>>

EventType == {"checkpoint", "task_start", "task_end", "update", "values", "interrupt",
              "error", "final", "debug"}
Mode == {"values", "updates", "tasks", "checkpoints", "debug", "custom"}

\* setupIncludeFilter: a mode it does not know is that of values.
includeFilter(mode) ==
    CASE mode = "updates" -> {"update", "final"}
      [] mode = "tasks" -> {"task_start", "task_end", "error", "final"}
      [] mode = "checkpoints" -> {"checkpoint", "final"}
      [] mode = "debug" -> EventType
      [] OTHER -> {"values", "final"}

shouldEmit(type) == type \in includeFilter(streamMode)

\* The type of the event of each emit function; what a node writes itself is a
\* debug event.
TypeOf(method) == IF method = "Write" THEN "debug" ELSE method

NoEvent == [type |-> "none", no |-> 0]

EventsInit ==
    /\ streamKind \in {"manager", "stream"}
    /\ streamMode \in IF streamKind = "manager" THEN Mode ELSE {"debug"}
    /\ eventCh = <<>> /\ eventClosed = FALSE /\ eventCtx = FALSE
    /\ emitter = [e \in Emitter |-> NoEvent]
    /\ events = 0 /\ lost = {} /\ processor = "running" /\ handled = <<>> /\ eventPanic = FALSE

-----------------------------------------------------------------------------
(* StreamManager: the send and the look at closed under one lock.          *)

Event(method) == [type |-> TypeOf(method), no |-> events + 1]

ManagerEmits(method) ==
    /\ streamKind = "manager" /\ events < MaxEvents
    /\ events' = events + 1
    /\ IF ~shouldEmit(TypeOf(method)) \/ eventClosed THEN UNCHANGED <<eventCh, lost>>
       ELSE IF Len(eventCh) < StreamRoom
         THEN eventCh' = Append(eventCh, Event(method)) /\ UNCHANGED lost
         ELSE lost' = lost \cup {events + 1} /\ UNCHANGED eventCh
    /\ UNCHANGED <<streamKind, streamMode, eventClosed, eventCtx, emitter, processor, handled,
                   eventPanic>>

ManagerCloses ==
    /\ streamKind = "manager" /\ ~eventClosed /\ eventClosed' = TRUE
    /\ UNCHANGED <<streamKind, streamMode, eventCh, eventCtx, emitter, events, lost, processor,
                   handled, eventPanic>>

-----------------------------------------------------------------------------
(* EventStream: nothing but the context protects a send from the close.    *)

EmitBegins(e) ==
    /\ streamKind = "stream" /\ ~eventPanic /\ emitter[e] = NoEvent /\ events < MaxEvents
    /\ events' = events + 1
    /\ emitter' = [emitter EXCEPT ![e] = [type |-> "update", no |-> events + 1]]
    /\ UNCHANGED <<streamKind, streamMode, eventCh, eventClosed, eventCtx, lost, processor,
                   handled, eventPanic>>

\* select: the send, which panics on a closed channel, or the context's end.
EmitEnds(e) ==
    /\ ~eventPanic /\ emitter[e] # NoEvent
    /\ \/ /\ eventClosed /\ eventPanic' = TRUE /\ UNCHANGED <<eventCh, emitter, lost>>
       \/ /\ ~eventClosed /\ Len(eventCh) < StreamRoom
          /\ eventCh' = Append(eventCh, emitter[e])
          /\ emitter' = [emitter EXCEPT ![e] = NoEvent] /\ UNCHANGED <<lost, eventPanic>>
       \/ /\ eventCtx /\ lost' = lost \cup {emitter[e].no}
          /\ emitter' = [emitter EXCEPT ![e] = NoEvent] /\ UNCHANGED <<eventCh, eventPanic>>
    /\ UNCHANGED <<streamKind, streamMode, eventClosed, eventCtx, events, processor, handled>>

\* Cancel: the context, then the channels; a second one closes them again.
CancelContext ==
    /\ streamKind = "stream" /\ ~eventPanic /\ ~eventCtx /\ eventCtx' = TRUE
    /\ UNCHANGED <<streamKind, streamMode, eventCh, eventClosed, emitter, events, lost,
                   processor, handled, eventPanic>>
CancelCloses ==
    /\ streamKind = "stream" /\ ~eventPanic /\ eventCtx
    /\ eventPanic' = eventClosed /\ eventClosed' = TRUE
    /\ UNCHANGED <<streamKind, streamMode, eventCh, eventCtx, emitter, events, lost, processor,
                   handled>>

-----------------------------------------------------------------------------
(* StreamProcessor.                                                        *)

\* Filter, transform and handler; an error of transform ends the processing.
Process(ok) ==
    /\ processor = "running" /\ eventCh # <<>>
    /\ eventCh' = Tail(eventCh)
    /\ IF ok THEN handled' = Append(handled, Head(eventCh).no) /\ UNCHANGED processor
       ELSE processor' = "failed" /\ lost' = lost \cup {Head(eventCh).no} /\ UNCHANGED handled
    /\ ok => UNCHANGED lost
    /\ UNCHANGED <<streamKind, streamMode, eventClosed, eventCtx, emitter, events, eventPanic>>

\* Mutant: a closed channel ends it with events still in the channel.
ProcessEnds_Early ==
    /\ processor = "running" /\ eventClosed /\ processor' = "ended"
    /\ UNCHANGED <<streamKind, streamMode, eventCh, eventClosed, eventCtx, emitter, events,
                   lost, handled, eventPanic>>

\* The channel is closed and empty, or the processor's context ends.
ProcessEnds ==
    /\ processor = "running"
    /\ \/ eventClosed /\ eventCh = <<>> /\ processor' = "ended"
       \/ processor' = "failed"
    /\ UNCHANGED <<streamKind, streamMode, eventCh, eventClosed, eventCtx, emitter, events,
                   lost, handled, eventPanic>>

EventsNext ==
    \/ \E method \in EventType \cup {"Write"} : ManagerEmits(method)
    \/ \E e \in Emitter : EmitBegins(e) \/ EmitEnds(e)
    \/ \E ok \in BOOLEAN : Process(ok)
    \/ ManagerCloses \/ CancelContext \/ CancelCloses \/ ProcessEnds

-----------------------------------------------------------------------------
(* Properties.                                                             *)

Kept == handled \o [i \in 1 .. Len(eventCh) |-> eventCh[i].no]

\* The events of a manager are handled in the order they were emitted, and only
\* those of its mode; no event is handled twice or after one that failed; a
\* processor that ends has handled every event that was not lost; and a stream
\* panics only when an Emit overlaps its Cancel or it is cancelled twice.
EventsSound ==
    /\ streamKind = "manager" =>
         \A i, j \in 1 .. Len(Kept) : i < j => Kept[i] < Kept[j]
    /\ \A i \in 1 .. Len(eventCh) : shouldEmit(eventCh[i].type)
    /\ \A i, j \in 1 .. Len(Kept) : i # j => Kept[i] # Kept[j]
    /\ ToSet(handled) \cap lost = {}
    /\ streamKind = "stream" /\ processor = "ended" =>
         1 .. events = ToSet(handled) \cup lost \cup ({emitter[e].no : e \in Emitter} \ {0})
    /\ eventPanic => eventCtx
=============================================================================
