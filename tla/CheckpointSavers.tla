-------------------------- MODULE CheckpointSavers --------------------------
(***************************************************************************)
(* The savers behind BaseCheckpointer (graphengine/checkpoint): MemorySaver *)
(* (memory.go), SqliteSaver (sqlite.go) and NATSSaver (nats.go) with its   *)
(* collector of idle threads.  A behaviour uses one of them.               *)
(*                                                                         *)
(* A checkpoint is the number of the Put that saved it.  Put is given a    *)
(* thread and an id, or makes an id.  Time is in seconds, the resolution   *)
(* of SQLite's CURRENT_TIMESTAMP.  The database and the key-value bucket   *)
(* are external.                                                           *)
(***************************************************************************)
EXTENDS Integers, Sequences, FiniteSets, SequencesExt

CONSTANTS
    SaverThread,
    CallerId,       \* ids callers give
    Savers,         \* a subset of {"memory", "sqlite", "nats"}
    History,        \* entries NATS keeps of a key
    MaxGraphIdle,   \* seconds
    MaxPuts,        \* bound: Puts
    MaxClock        \* bound: seconds

VARIABLES
    saver,
    versions,       \* MemorySaver: thread -> entries
    rows,           \* SqliteSaver: the table, in the order of its rowids
    stream,         \* NATSSaver: thread -> entries of its key
    gc,             \* collectGarbage: its cutoff, the keys left, the key read
    saverClosed,    \* NATSSaver: Close was called
    clock,
    put,            \* history: the number of Puts
    puts,           \* history: thread -> the Puts since a purge was asked for
    lostThreads     \* history: threads whose last Put the collector deleted

saverVars == <<saver, versions, rows, stream, gc, saverClosed, clock, put,
               puts, lostThreads>>

None == 0
GcIdle == [pc |-> "idle", cutoff |-> 0, keys |-> {}, key |-> None,
           seen |-> None]

SaversInit ==
    /\ saver \in Savers
    /\ versions = [t \in SaverThread |-> <<>>]
    /\ rows = <<>>
    /\ stream = [t \in SaverThread |-> <<>>]
    /\ gc = GcIdle /\ saverClosed = FALSE
    /\ clock = 0 /\ put = 0
    /\ puts = [t \in SaverThread |-> <<>>]
    /\ lostThreads = {}

\* uuid.New: an id of this Put that no caller gives.
Uuid(n) == <<"uuid", n>>

-----------------------------------------------------------------------------
(* MemorySaver.                                                            *)

MemoryPut(t, id, n) ==
    /\ versions' = [versions EXCEPT ![t] = Append(@, [id |-> id, cp |-> n])]
    /\ UNCHANGED <<rows, stream>>

\* The latest, or the first with the id.
MemoryGet(t) == IF versions[t] = <<>> THEN None ELSE Last(versions[t]).cp

MemoryGetById(t, id) ==
    LET i == SelectInSeq(versions[t], LAMBDA e : e.id = id)
    IN  IF i = 0 THEN None ELSE versions[t][i].cp

\* The newest first.
MemoryList(t) == [i \in DOMAIN versions[t] |-> Reverse(versions[t])[i].cp]

-----------------------------------------------------------------------------
(* SqliteSaver.  The id is the primary key of the table.                   *)

Taken(id) == \E i \in DOMAIN rows : rows[i].id = id

\* An INSERT with an id that is in the table fails.
SqlitePut(t, id, n) ==
    /\ rows' = IF Taken(id) THEN rows
               ELSE Append(rows, [id |-> id, thread |-> t, cp |-> n,
                                  at |-> clock])
    /\ UNCHANGED <<versions, stream>>

RowsOf(t) == {i \in DOMAIN rows : rows[i].thread = t}
LatestRows(t) ==
    {i \in RowsOf(t) : \A j \in RowsOf(t) : rows[j].at <= rows[i].at}

\* ORDER BY created_at DESC LIMIT 1 says nothing of rows of one second.
SqliteGets(t) ==
    IF RowsOf(t) = {} THEN {None} ELSE {rows[i].cp : i \in LatestRows(t)}

SqliteGetById(t, id) ==
    LET found == {i \in RowsOf(t) : rows[i].id = id}
    IN  IF found = {} THEN None ELSE rows[CHOOSE i \in found : TRUE].cp

\* The orders in which List may return the thread's rows.
SqliteLists(t) ==
    {s \in SetToSeqs({rows[i].cp : i \in RowsOf(t)}) :
        \A i, j \in RowsOf(t) : rows[i].at > rows[j].at =>
            \E x, y \in DOMAIN s :
                x < y /\ s[x] = rows[i].cp /\ s[y] = rows[j].cp}

-----------------------------------------------------------------------------
(* NATSSaver.  A key has the last History entries of its thread.           *)

KvAppend(t, e) ==
    LET s == Append(stream[t], e)
    IN  SubSeq(s, IF Len(s) > History THEN Len(s) - History + 1 ELSE 1, Len(s))

\* Deleted: its last entry is a marker; a missing key has none.
KvHas(t) == stream[t] # <<>> /\ Last(stream[t]).op = "put"

\* The id of the caller is not used.
NatsPut(t, n) ==
    /\ stream' = [stream EXCEPT
                    ![t] = KvAppend(t, [op |-> "put", cp |-> n, at |-> clock])]
    /\ UNCHANGED <<versions, rows>>

NatsGet(t) == IF KvHas(t) THEN Last(stream[t]).cp ELSE None

\* The newest first, without the markers.
KvPuts(t) == {i \in DOMAIN stream[t] : stream[t][i].op = "put"}
NatsLists(t) ==
    {s \in SetToSeqs({stream[t][i].cp : i \in KvPuts(t)}) :
        \A i, j \in KvPuts(t) : i > j =>
            \E x, y \in DOMAIN s :
                x < y /\ s[x] = stream[t][i].cp /\ s[y] = stream[t][j].cp}

KvDelete(t) ==
    KvAppend(t, [op |-> "delete", cp |-> None, at |-> clock])

\* runGC ticks: all keys, and the cutoff for them.
CollectStart ==
    /\ saver = "nats" /\ ~saverClosed /\ gc.pc = "idle" /\ put > 0
    /\ gc' = [pc |-> "key", cutoff |-> clock - MaxGraphIdle,
              keys |-> {t \in SaverThread : KvHas(t)}, key |-> None,
              seen |-> None]
    /\ UNCHANGED <<saver, versions, rows, stream, saverClosed, clock, put, puts,
                   lostThreads>>

\* Mutant: the entry's age is not looked at.
CollectRead_Always(t) ==
    /\ gc.pc = "key" /\ t \in gc.keys
    /\ gc' = IF KvHas(t)
               THEN [gc EXCEPT !.pc = "delete", !.key = t, !.keys = @ \ {t},
                               !.seen = Last(stream[t])]
               ELSE [gc EXCEPT !.keys = @ \ {t}]
    /\ UNCHANGED <<saver, versions, rows, stream, saverClosed, clock, put, puts,
                   lostThreads>>

\* Get of a key: it is kept, or its last entry is before the cutoff.
CollectRead(t) ==
    /\ gc.pc = "key" /\ t \in gc.keys
    /\ gc' = IF KvHas(t) /\ Last(stream[t]).at < gc.cutoff
               THEN [gc EXCEPT !.pc = "delete", !.key = t, !.keys = @ \ {t},
                               !.seen = Last(stream[t])]
               ELSE [gc EXCEPT !.keys = @ \ {t}]
    /\ UNCHANGED <<saver, versions, rows, stream, saverClosed, clock, put, puts,
                   lostThreads>>

\* Delete takes the key as it is now, with what was put since it was read.
CollectDelete ==
    /\ gc.pc = "delete"
    /\ stream' = [stream EXCEPT ![gc.key] = KvDelete(gc.key)]
    /\ gc' = [gc EXCEPT !.pc = "key", !.key = None, !.seen = None]
    /\ LET same == Last(stream[gc.key]) = gc.seen IN
       /\ puts' = IF same /\ gc.seen.at < gc.cutoff
                    THEN [puts EXCEPT ![gc.key] = <<>>] ELSE puts
       /\ lostThreads' = IF KvHas(gc.key) /\ ~same
                           THEN lostThreads \cup {gc.key} ELSE lostThreads
    /\ UNCHANGED <<saver, versions, rows, saverClosed, clock, put>>

CollectEnd ==
    /\ gc.pc = "key" /\ gc.keys = {}
    /\ gc' = GcIdle
    /\ UNCHANGED <<saver, versions, rows, stream, saverClosed, clock, put, puts,
                   lostThreads>>

\* PurgeThread, and PurgeTenant for the keys of a tenant.
Purge(ts) ==
    /\ saver = "nats" /\ ts # {}
    /\ \E t \in ts : KvHas(t)
    /\ stream' = [t \in SaverThread |-> IF t \in ts /\ KvHas(t) THEN KvDelete(t)
                                                        ELSE stream[t]]
    /\ puts' = [t \in SaverThread |-> IF t \in ts THEN <<>> ELSE puts[t]]
    /\ lostThreads' = lostThreads \ ts
    /\ UNCHANGED <<saver, versions, rows, gc, saverClosed, clock, put>>

\* Close ends the collector, after the keys it is at.
NatsClose ==
    /\ saver = "nats" /\ ~saverClosed
    /\ saverClosed' = TRUE
    /\ UNCHANGED <<saver, versions, rows, stream, gc, clock, put, puts,
                   lostThreads>>

-----------------------------------------------------------------------------
Refused(id) == saver = "sqlite" /\ Taken(id)

\* The caller of Put gives an id or none.
PutWith(t, id) ==
    /\ put < MaxPuts /\ ~saverClosed
    /\ put' = put + 1
    /\ \/ saver = "memory" /\ MemoryPut(t, id, put')
       \/ saver = "sqlite" /\ SqlitePut(t, id, put')
       \/ saver = "nats" /\ NatsPut(t, put')
    /\ puts' = IF Refused(id) THEN puts
               ELSE [puts EXCEPT ![t] = Append(@, put')]
    /\ lostThreads' = lostThreads \ {t}
    /\ UNCHANGED <<saver, gc, saverClosed, clock>>

SaverPut(t) == PutWith(t, Uuid(put + 1)) \/ \E id \in CallerId : PutWith(t, id)

ClockTick ==
    /\ clock < MaxClock /\ clock' = clock + 1
    /\ UNCHANGED <<saver, versions, rows, stream, gc, saverClosed, put, puts,
                   lostThreads>>

SaversNext ==
    \/ \E t \in SaverThread : SaverPut(t) \/ CollectRead(t)
    \/ CollectStart \/ CollectDelete \/ CollectEnd \/ NatsClose \/ ClockTick
    \/ \E ts \in SUBSET SaverThread : Purge(ts)

-----------------------------------------------------------------------------
(* Properties.                                                             *)

Gets(t) == CASE saver = "memory" -> {MemoryGet(t)}
             [] saver = "sqlite" -> SqliteGets(t)
             [] saver = "nats" -> {NatsGet(t)}

Lists(t) == CASE saver = "memory" -> {MemoryList(t)}
              [] saver = "sqlite" -> SqliteLists(t)
              [] saver = "nats" -> NatsLists(t)

GetById(t, id) == CASE saver = "memory" -> MemoryGetById(t, id)
                    [] saver = "sqlite" -> SqliteGetById(t, id)
                    [] saver = "nats" -> None

\* The thread's newest row has its second to itself.
LastAlone(t) == saver = "sqlite" => \A i, j \in LatestRows(t) : i = j

\* What the thread was last given, as long as nobody purged it.
LastPut(t) == IF puts[t] = <<>> THEN None ELSE Last(puts[t])

\* A resumed execution gets the checkpoint its thread last saved, and it heads
\* the list of the thread's checkpoints and an id of its own finds it, also
\* when refused Puts, other threads, purges and the collector of idle threads
\* come in between.  Not so for SQLite if the thread saved twice in that
\* second, and for NATS if it saved between the collector's Get and its Delete
\* and not since.
GetIsLastPut ==
    \A t \in SaverThread \ lostThreads : LastAlone(t) =>
        /\ Gets(t) = {LastPut(t)}
        /\ \A l \in Lists(t) :
             l # <<>> /\ puts[t] # <<>> => Head(l) = LastPut(t)
        /\ \A n \in 1 .. put : GetById(t, Uuid(n)) \in {n, None}
=============================================================================
