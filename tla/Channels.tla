------------------------------ MODULE Channels ------------------------------
(***************************************************************************)
(* One channel (graphengine/channels) of each kind through supersteps: it  *)
(* is updated with the writes of a step, read, consumed, finished, copied, *)
(* checkpointed, and a channel is made from a checkpoint.  The kinds are   *)
(* the plain values and topics, the barriers and AfterFinish channels      *)
(* (barrier.go), the aggregates (binop.go), the reducer around another     *)
(* channel (reducer.go), and the channels of a schema, which               *)
(* CreateReducerChannel makes from the type of a struct's field.           *)
(*                                                                         *)
(* Values are names, lists of names, or numbers that may be wrapped in an  *)
(* Overwrite.  A field of a numeric type starts as the zero of reflect's   *)
(* description of the type, TypeValue, because createZeroValue is given    *)
(* the description where it expects a value.                               *)
(***************************************************************************)
EXTENDS Integers, Sequences, FiniteSets, SequencesExt

CONSTANTS
    Name,           \* what the barriers wait for
    Stranger,       \* a name they do not wait for
    Missing,        \* no value
    TypeValue,      \* the zero of the description of a type
    MaxUpdatesMade  \* bound: updates

AllKinds == {"last", "any", "untracked", "ephemeral", "topic", "accumulate",
             "barrier", "barrierAfter", "lastAfter", "sum", "reduced", "schema"}

Barriers == {"barrier", "barrierAfter"}
Numbers == {"sum", "reduced", "schema"}

VARIABLES
    kind,
    channel,        \* its value, the names seen, and whether it has finished
    checkpoint,     \* what Checkpoint returned last
    shared,         \* a barrierAfter and its checkpoint have one map of names
    restored,       \* the channel was just made from that checkpoint
    atCheckpoint,   \* history: the channel when the checkpoint was taken
    arrived,        \* history: names since the barrier was last empty
    total,          \* history: what the updates come to
    updates

channelVars == <<kind, channel, checkpoint, shared, restored, atCheckpoint, arrived,
                 total, updates>>

-----------------------------------------------------------------------------
(* What each kind does, as a record: the channel it starts as; whether it  *)
(* is available; and what it becomes by an update with vs, by Get, Copy,   *)
(* Consume and Finish; and what Checkpoint returns of it.                  *)

New(v) == [value |-> v, seen |-> {}, finished |-> FALSE]
Set(ch, v) == [ch EXCEPT !.value = v]

Plain(ch, updated) ==
    [start |-> New(Missing), available |-> ch.value # Missing, updated |-> updated,
     read |-> ch, copied |-> ch, consumed |-> ch, ended |-> ch, saved |-> ch]

\* More than one value in a step is refused.
LastValue(ch, vs) == Plain(ch, IF Len(vs) = 1 THEN Set(ch, vs[1]) ELSE ch)

AnyValue(ch, vs) == Plain(ch, IF vs = <<>> THEN ch ELSE Set(ch, Last(vs)))

UntrackedValue(ch, vs) ==
    [AnyValue(ch, vs) EXCEPT !.copied = New(Missing), !.saved = New(Missing)]

EphemeralValue(ch, vs) == [AnyValue(ch, vs) EXCEPT !.read = Set(ch, Missing)]

flatten(vs) ==
    FoldLeft(LAMBDA all, v : IF v \in Name \cup {Stranger} THEN Append(all, v) ELSE all \o v,
             <<>>, vs)

Topic(accumulate, ch, vs) ==
    [Plain(ch, Set(ch, (IF accumulate THEN ch.value ELSE <<>>) \o flatten(vs))) EXCEPT
        !.start = New(<<>>), !.available = ch.value # <<>>]

namesMatchSeen(ch) == ch.seen = Name

\* The names before one that the barrier does not wait for, with which the
\* update is refused.
Taken(vs) ==
    IF Stranger \in ToSet(vs)
      THEN ToSet(SubSeq(vs, 1, SelectInSeq(vs, LAMBDA v : v = Stranger) - 1))
      ELSE ToSet(vs)

Forget(ch) == [ch EXCEPT !.seen = {}, !.finished = FALSE]

\* The end of a run empties also a barrier that still waits.
NamedBarrierValue(ch, vs) ==
    [Plain(ch, [ch EXCEPT !.seen = @ \cup Taken(vs)]) EXCEPT
        !.available = namesMatchSeen(ch),
        !.consumed = IF namesMatchSeen(ch) THEN Forget(ch) ELSE ch,
        !.ended = Forget(ch)]

NamedBarrierValueAfterFinish(ch, vs) ==
    [NamedBarrierValue(ch, vs) EXCEPT
        !.available = ch.finished /\ namesMatchSeen(ch),
        !.consumed = IF ch.finished /\ namesMatchSeen(ch) THEN Forget(ch) ELSE ch,
        !.ended = [ch EXCEPT !.finished = @ \/ namesMatchSeen(ch)]]

\* Its checkpoint does not say that it has finished.
LastValueAfterFinish(ch, vs) ==
    [LastValue(ch, vs) EXCEPT
        !.available = ch.finished /\ ch.value # Missing,
        !.ended = [ch EXCEPT !.finished = TRUE],
        !.saved = [ch EXCEPT !.finished = FALSE]]

\* The operators degrade on values of other types.
IntAdd(a, b) == IF a # TypeValue /\ b # TypeValue THEN a + b ELSE a
AddReducer(current, update) ==
    IF current # TypeValue /\ update # TypeValue THEN current + update ELSE update

\* The first Overwrite replaces the value and the values after it do not
\* count; a second one is refused, with the value as it is then.
BinaryOperatorAggregate(zero, ch, vs) ==
    LET overwrites == {i \in DOMAIN vs : vs[i].overwrite}
        result == IF overwrites = {}
                    THEN FoldLeft(LAMBDA a, v : IntAdd(a, v.number), ch.value, vs)
                    ELSE vs[CHOOSE i \in overwrites : \A j \in overwrites : i <= j].number
    IN  [Plain(ch, Set(ch, result)) EXCEPT !.start = New(zero)]

\* The values are combined with what the channel has, and the wrapped channel
\* is updated with the one value that comes out.
Combined(current, vs) ==
    FoldLeft(LAMBDA a, v : AddReducer(a, v.number),
             IF current = Missing THEN vs[1].number ELSE AddReducer(current, vs[1].number),
             Tail(vs))

ReducerChannel(ch, vs) ==
    LastValue(ch, IF vs = <<>> THEN <<>> ELSE <<Combined(ch.value, vs)>>)

\* The channel of a numeric field with AddReducer as its reducer.
CreateReducerChannel(ch, vs) ==
    LET combined == [overwrite |-> FALSE, number |-> Combined(ch.value, vs)]
    IN  BinaryOperatorAggregate(TypeValue, ch, IF vs = <<>> THEN <<>> ELSE <<combined>>)

Behaviour(k, ch, vs) ==
    CASE k = "last" -> LastValue(ch, vs)
      [] k = "any" -> AnyValue(ch, vs)
      [] k = "untracked" -> UntrackedValue(ch, vs)
      [] k = "ephemeral" -> EphemeralValue(ch, vs)
      [] k = "topic" -> Topic(FALSE, ch, vs)
      [] k = "accumulate" -> Topic(TRUE, ch, vs)
      [] k = "barrier" -> NamedBarrierValue(ch, vs)
      [] k = "barrierAfter" -> NamedBarrierValueAfterFinish(ch, vs)
      [] k = "lastAfter" -> LastValueAfterFinish(ch, vs)
      [] k = "sum" -> BinaryOperatorAggregate(0, ch, vs)
      [] k = "reduced" -> ReducerChannel(ch, vs)
      [] k = "schema" -> CreateReducerChannel(ch, vs)

-----------------------------------------------------------------------------
(* The channel's life.                                                     *)

Now == Behaviour(kind, channel, <<>>)
Start(k) == Behaviour(k, New(<<>>), <<>>).start

ChannelsInit ==
    /\ kind \in AllKinds
    /\ channel = Start(kind)
    /\ checkpoint = New(Missing) /\ atCheckpoint = New(Missing)
    /\ shared = FALSE /\ restored = FALSE
    /\ arrived = {} /\ total = 0 /\ updates = 0

Values ==
    CASE kind \in Numbers -> {[overwrite |-> o, number |-> n] :
                                 o \in IF kind = "sum" THEN BOOLEAN ELSE {FALSE}, n \in {1, 2}}
      [] kind \in Barriers -> Name \cup {Stranger}
      [] kind \in {"topic", "accumulate"} -> Name \cup {SetToSeq(Name)}
      [] OTHER -> Name

\* What numbers come to: their sum, or the first that is an Overwrite.
Reference(vs) ==
    LET overwrites == SelectSeq(vs, LAMBDA v : v.overwrite)
    IN  IF overwrites # <<>> THEN overwrites[1].number
        ELSE total + FoldLeft(LAMBDA a, v : a + v.number, 0, vs)

\* A map of names that the checkpoint shares takes the new ones, too.
Update(vs) ==
    /\ updates < MaxUpdatesMade
    /\ updates' = updates + 1 /\ restored' = FALSE
    /\ channel' = Behaviour(kind, channel, vs).updated
    /\ arrived' = IF kind \in Barriers THEN arrived \cup Taken(vs) ELSE arrived
    /\ total' = IF kind \in Numbers THEN Reference(vs) ELSE total
    /\ checkpoint' = IF shared THEN [checkpoint EXCEPT !.seen = channel'.seen] ELSE checkpoint
    /\ UNCHANGED <<kind, shared, atCheckpoint>>

Become(ch) ==
    /\ ch # channel
    /\ channel' = ch /\ restored' = FALSE
    /\ arrived' = IF ch.seen = {} THEN {} ELSE arrived
    /\ shared' = (shared /\ ch.seen # {})
    /\ UNCHANGED <<kind, checkpoint, atCheckpoint, total, updates>>

Get == Become(Now.read)
Consume == Become(Now.consumed)
Finish == Become(Now.ended)

Copy ==
    /\ channel' = Now.copied
    /\ shared' = FALSE
    /\ UNCHANGED <<kind, checkpoint, restored, atCheckpoint, arrived, total, updates>>

Checkpoint ==
    /\ checkpoint' = Now.saved
    /\ atCheckpoint' = channel
    /\ shared' = (kind = "barrierAfter" /\ channel # New(Missing))
    /\ UNCHANGED <<kind, channel, restored, arrived, total, updates>>

\* Mutant: the names are not restored.
FromCheckpoint_NoNames ==
    /\ channel' = IF checkpoint = New(Missing) THEN Start(kind) ELSE Set(New(Missing), checkpoint.value)
    /\ arrived' = {}
    /\ restored' = (checkpoint # New(Missing)) /\ shared' = FALSE
    /\ UNCHANGED <<kind, checkpoint, atCheckpoint, total, updates>>

FromCheckpoint ==
    /\ channel' = IF checkpoint = New(Missing) THEN Start(kind) ELSE checkpoint
    /\ arrived' = channel'.seen
    /\ restored' = (checkpoint # New(Missing)) /\ shared' = FALSE
    /\ total' = IF kind \in {"sum", "reduced"} /\ channel'.value # Missing
                  THEN channel'.value ELSE 0
    /\ UNCHANGED <<kind, checkpoint, atCheckpoint, updates>>

ChannelsNext ==
    \/ Update(<<>>)
    \/ \E v, w \in Values : Update(<<v>>) \/ Update(<<v, w>>)
    \/ Get \/ Consume \/ Finish \/ Copy \/ Checkpoint \/ FromCheckpoint

-----------------------------------------------------------------------------
(* Properties.                                                             *)

\* A channel that is restored is the channel that was saved, whatever came in
\* between.  Not so for a LastValueAfterFinish, which must be finished again,
\* for a barrier that waits for the end, whose checkpoint goes on collecting
\* names, and for a value that is not tracked.  A barrier opens only when every
\* name it waits for has arrived since it was last emptied or restored, also if
\* updates with strangers were refused half way.  Channels that add hold the
\* sum of what they were given, and one Overwrite in a step counts alone,
\* wherever it stands among the writes of the tasks.
ChannelsAsPromised ==
    /\ restored /\ kind \notin {"lastAfter", "barrierAfter"} => channel = atCheckpoint
    /\ kind \in Barriers /\ Now.available => Name \subseteq arrived
    /\ kind \in {"sum", "reduced"} => channel.value \in {total, Missing}
=============================================================================
