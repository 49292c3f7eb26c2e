---------------------------- MODULE GraphMessages ----------------------------
(***************************************************************************)
(* The messages of a message graph (graphengine/graph/message.go): the     *)
(* reducer that merges new messages into those there are, by their IDs,    *)
(* the plain append of AddMessagesToState, and MessagesFilter.  A message  *)
(* is its ID, NoID for none, its role and a number of its own, for its     *)
(* content.                                                                *)
(***************************************************************************)
EXTENDS Integers, Sequences, FiniteSets, SequencesExt

CONSTANTS
    NoID,           \* the ID of a message that has none
    Sort,           \* the messages that are made: records of an ID and a role
    MaxBatch,       \* bound: messages in one update
    MaxMessages     \* bound: messages made

VARIABLES
    messages,       \* the value of the channel; <<>>: nil
    made,           \* history: the number of messages made
    merged,         \* history: the last merge: before, the update, after
    filtered        \* history: the last Filter: its settings, from and to

messageGraphVars == <<messages, made, merged, filtered>>

NoMerge == [old |-> <<>>, updates |-> <<>>, new |-> <<>>]
NoFilter == [role |-> "any", offset |-> 0, limit |-> 0, reverse |-> FALSE,
             from |-> <<>>, to |-> <<>>]

MessageGraphInit == messages = <<>> /\ made = 0 /\ merged = NoMerge /\ filtered = NoFilter

-----------------------------------------------------------------------------
(* AddMessagesReducer.                                                     *)

Ids(q) == {q[i].id : i \in 1 .. Len(q)} \ {NoID}

\* The update of a message that is there already: the first with its ID.
UpdateOf(m, updates) ==
    IF m.id = NoID \/ m.id \notin Ids(updates) THEN m
    ELSE updates[SelectInSeq(updates, LAMBDA u : u.id = m.id)]

\* Mutant: every update is appended, those of messages there are, too.
New_All(old, updates) == updates

New(old, updates) == SelectSeq(updates, LAMBDA u : u.id = NoID \/ u.id \notin Ids(old))

AddMessagesReducer(old, updates) ==
    IF old = <<>> THEN updates
    ELSE [i \in 1 .. Len(old) |-> UpdateOf(old[i], updates)] \o New(old, updates)

-----------------------------------------------------------------------------
(* Filter: the roles, the offset, the limit, the order.                    *)

Skipped(q, offset) == IF offset > 0 /\ offset < Len(q) THEN SubSeq(q, offset + 1, Len(q)) ELSE q

\* Mutant: the limit is applied to the end of the list.
Limited_Last(q, limit) ==
    IF limit > 0 /\ limit < Len(q) THEN SubSeq(q, Len(q) - limit + 1, Len(q)) ELSE q

Limited(q, limit) == IF limit > 0 /\ limit < Len(q) THEN SubSeq(q, 1, limit) ELSE q

Filter(q, role, offset, limit, reverse) ==
    LET roles == SelectSeq(q, LAMBDA m : role = "any" \/ m.role = role)
        cut == Limited(Skipped(roles, offset), limit)
    IN  IF reverse THEN Reverse(cut) ELSE cut

-----------------------------------------------------------------------------
\* An update of messages of these sorts; their numbers are new.
Batch(sorts) ==
    [i \in 1 .. Len(sorts) |-> [id |-> sorts[i].id, role |-> sorts[i].role, no |-> made + i]]

Merge(u) ==
    /\ messages' = AddMessagesReducer(messages, u)
    /\ merged' = [old |-> messages, updates |-> u, new |-> messages']
    /\ made' = made + Len(u) /\ made' <= MaxMessages
    /\ UNCHANGED filtered

\* AddMessages of the state, and AddMessagesToState: without a look at IDs.
AddMessages(u) ==
    /\ messages' = messages \o u
    /\ made' = made + Len(u) /\ made' <= MaxMessages
    /\ merged' = NoMerge /\ UNCHANGED filtered

ApplyFilter(role, offset, limit, reverse) ==
    /\ messages # <<>>
    /\ filtered' = [role |-> role, offset |-> offset, limit |-> limit, reverse |-> reverse,
                    from |-> messages, to |-> Filter(messages, role, offset, limit, reverse)]
    /\ UNCHANGED <<messages, made, merged>>

MessageGraphNext ==
    \/ \E n \in 1 .. MaxBatch : \E sorts \in [1 .. n -> Sort] :
         Merge(Batch(sorts)) \/ (n = 1 /\ AddMessages(Batch(sorts)))
    \/ \E role \in {s.role : s \in Sort} \cup {"any"}, offset, limit \in 0 .. 2, reverse \in BOOLEAN :
         filtered = NoFilter /\ ApplyFilter(role, offset, limit, reverse)

-----------------------------------------------------------------------------
(* Properties.                                                             *)

Unique(q) == \A i, j \in 1 .. Len(q) : i # j /\ q[i].id # NoID => q[i].id # q[j].id
Numbers(q) == {q[i].no : i \in 1 .. Len(q)}
WithoutID(q) == SelectSeq(q, LAMBDA m : m.id = NoID)

\* A merge keeps the place of every message, loses none without an ID, leaves
\* every ID that was there or came, and as long as neither side has an ID
\* twice the result has it once, with what came last.  A filter returns
\* messages of the role in their order, or the reverse, from the offset on and
\* no more than the limit; an offset past the end counts for nothing.
MessagesMerge ==
    LET old == merged.old
        new == merged.new
        u == merged.updates
        of == SelectSeq(filtered.from, LAMBDA m : filtered.role \in {"any", m.role})
        to == IF filtered.reverse THEN Reverse(filtered.to) ELSE filtered.to
        skip == IF filtered.offset < Len(of) THEN filtered.offset ELSE 0
    IN  /\ \A i \in 1 .. Len(old) : new[i].id = old[i].id
        /\ WithoutID(new) = WithoutID(old) \o WithoutID(u)
        /\ Ids(new) = Ids(old) \cup Ids(u)
        /\ Unique(old) /\ Unique(u) =>
             /\ Unique(new)
             /\ Numbers(u) \subseteq Numbers(new)
        /\ filtered # NoFilter =>
             /\ \A i \in 1 .. Len(to) : to[i] = of[skip + i]
             /\ Len(to) = IF filtered.limit = 0 \/ filtered.limit > Len(of) - skip
                            THEN Len(of) - skip ELSE filtered.limit
==============================================================================
