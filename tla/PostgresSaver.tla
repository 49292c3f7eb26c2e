---------------------------- MODULE PostgresSaver ----------------------------
(***************************************************************************)
(* PostgresSaver (graphengine/checkpoint/postgres.go) on tables that exist *)
(* already (its own CREATE TABLE names two primary keys, which PostgreSQL  *)
(* refuses).  Put is one transaction on one connection of the pool; Get,   *)
(* GetTuple and List read the row on one connection and, still holding it, *)
(* the blobs on a second one.  Get and List return the map that has both;  *)
(* GetTuple converts it to a Checkpoint, without the channel values.       *)
(*                                                                         *)
(* A checkpoint is the number of its Put.  Its channels are primitive or   *)
(* blobs; blobs are kept per thread and channel, under version 1, so that  *)
(* each Put replaces those of the Puts before.                             *)
(***************************************************************************)
EXTENDS Integers, FiniteSets

CONSTANTS
    PgThread, PgChannel, PgClient,
    PgId,           \* ids callers give
    PoolSize,       \* connections of the pool
    MaxPgPuts       \* bound: Puts

VARIABLES
    table,          \* checkpoints: a set of rows
    blobs,          \* checkpoint_blobs: thread -> channel -> Put
    pgWrites,       \* checkpoint_writes: (thread, id, task, channel) -> value
    reads,          \* client -> what it has read so far, and whether for
                    \* GetTuple; history: the thread was deleted meanwhile
    pgPut           \* history: the number of Puts

pgVars == <<table, blobs, pgWrites, reads, pgPut>>

Absent == 0
AtRest == [pc |-> "rest", row |-> Absent, blob |-> {}, thread |-> Absent,
           tuple |-> FALSE, deleted |-> FALSE, values |-> [c \in PgChannel |-> Absent]]

PgInit ==
    /\ table = {}
    /\ blobs = [t \in PgThread |-> [c \in PgChannel |-> Absent]]
    /\ pgWrites = {}
    /\ reads = [k \in PgClient |-> AtRest]
    /\ pgPut = 0

InUse == Cardinality({k \in PgClient : reads[k].pc = "blobs"})
Free == InUse < PoolSize

RowOf(t, id) == {r \in table : r.thread = t /\ r.id = id}
RowsOfThread(t) == {r \in table : r.thread = t}

\* INSERT ... ON CONFLICT DO UPDATE keeps created_at of the row it changes.
\* prim and the rest of chans: what isPrimitive tells apart.
Upsert(t, id, n, prim, chans) ==
    (table \ RowOf(t, id)) \cup
      {[thread |-> t, id |-> id, cp |-> n, prim |-> prim, blob |-> chans \ prim,
        created |-> m] :
          m \in IF RowOf(t, id) = {} THEN {n} ELSE {r.created : r \in RowOf(t, id)}}

\* An upsert per blob, always with version 1.
saveBlobs(t, new, n) ==
    [blobs EXCEPT ![t] = [c \in PgChannel |-> IF c \in new THEN n ELSE @[c]]]

\* Mutant: the blobs are not part of the transaction and may fail.
PutRow_NoBlobs(t, id, prim, chans) ==
    LET n == pgPut + 1
    IN  /\ Free /\ pgPut < MaxPgPuts
        /\ pgPut' = n
        /\ table' = Upsert(t, id, n, prim, chans)
        /\ UNCHANGED <<blobs, pgWrites, reads>>

\* The row and its blobs; COMMIT.
PutRow(t, id, prim, chans) ==
    LET n == pgPut + 1
    IN  /\ Free /\ pgPut < MaxPgPuts
        /\ pgPut' = n
        /\ table' = Upsert(t, id, n, prim, chans)
        /\ blobs' = saveBlobs(t, chans \ prim, n)
        /\ UNCHANGED <<pgWrites, reads>>

\* A row is read, with the connection kept.
ReadRow(k, r, tuple) ==
    /\ reads[k].pc = "rest" /\ Free
    /\ reads' = [reads EXCEPT ![k] =
                   [pc |-> "blobs", row |-> r.cp, blob |-> r.blob,
                    thread |-> r.thread, tuple |-> tuple, deleted |-> FALSE,
                    values |-> [c \in PgChannel |->
                                  IF c \in r.prim THEN r.cp ELSE Absent]]]
    /\ UNCHANGED <<table, blobs, pgWrites, pgPut>>

\* Get: the latest row of the thread.  GetTuple: the row of an id, or the
\* latest.  List: each row.
NewestRows(t) == {r \in RowsOfThread(t) : \A q \in RowsOfThread(t) : q.created <= r.created}
GetLatest(k, t) == \E r \in NewestRows(t) : ReadRow(k, r, FALSE)
GetRow(k, t, id) == \E r \in RowOf(t, id) \cup NewestRows(t) : ReadRow(k, r, TRUE)
ListRows(k, t) == \E r \in RowsOfThread(t) : ReadRow(k, r, FALSE)

\* What a Checkpoint has of the channel values of a map: FromMap takes the ids,
\* the versions, "state", the pending writes and the metadata, and nothing else.
FromMap(values) == [c \in PgChannel |-> Absent]

\* On a second connection: every blob of the thread, over what the row has.
loadBlobs(k) ==
    LET merged == [c \in PgChannel |-> IF blobs[reads[k].thread][c] # Absent
                                         THEN blobs[reads[k].thread][c]
                                         ELSE reads[k].values[c]] IN
    /\ reads[k].pc = "blobs" /\ Free
    /\ reads' = [reads EXCEPT
                   ![k].pc = "done",
                   ![k].values = IF reads[k].tuple THEN FromMap(merged) ELSE merged]
    /\ UNCHANGED <<table, blobs, pgWrites, pgPut>>

Forget(k) ==
    /\ reads[k].pc = "done"
    /\ reads' = [reads EXCEPT ![k] = AtRest]
    /\ UNCHANGED <<table, blobs, pgWrites, pgPut>>

\* One row per checkpoint, task and channel; a later write replaces it.
PutRowWrites(t, id, c) ==
    /\ Free /\ RowOf(t, id) # {}
    /\ pgWrites' = {w \in pgWrites : ~(w.thread = t /\ w.id = id /\ w.channel = c)}
                   \cup {[thread |-> t, id |-> id, channel |-> c, value |-> pgPut]}
    /\ UNCHANGED <<table, blobs, reads, pgPut>>

DeleteThread(t) ==
    /\ Free
    /\ table' = table \ RowsOfThread(t)
    /\ blobs' = [blobs EXCEPT ![t] = [c \in PgChannel |-> Absent]]
    /\ pgWrites' = {w \in pgWrites : w.thread # t}
    /\ reads' = [k \in PgClient |->
                   IF reads[k].pc = "blobs" /\ reads[k].thread = t
                     THEN [reads[k] EXCEPT !.deleted = TRUE] ELSE reads[k]]
    /\ UNCHANGED pgPut

PgNext ==
    \/ \E t \in PgThread, id \in PgId : \E chans \in SUBSET PgChannel :
         \E prim \in SUBSET chans : PutRow(t, id, prim, chans)
    \/ \E k \in PgClient, t \in PgThread :
         GetLatest(k, t) \/ ListRows(k, t) \/ \E id \in PgId : GetRow(k, t, id)
    \/ \E k \in PgClient : loadBlobs(k) \/ Forget(k)
    \/ \E t \in PgThread, id \in PgId, c \in PgChannel : PutRowWrites(t, id, c)
    \/ \E t \in PgThread : DeleteThread(t)

PgSpec == PgInit /\ [][PgNext]_pgVars

-----------------------------------------------------------------------------
(* Properties.                                                             *)

\* A row never lacks a blob that was saved with it: Put commits both or none,
\* and DeleteThread takes both.  A reader that is overtaken by a Put between
\* its two queries, or lists an older checkpoint, gets newer blobs than its
\* row, never older ones, and no blob is missing unless the thread was deleted
\* in between; that is of Get and List, a tuple has no channel values at all.
\* While a reader waits for its second connection there is one, as long as
\* there are more connections than readers.
ReadsNeverOlder ==
    /\ \A r \in table : \A c \in r.blob : blobs[r.thread][c] >= r.cp
    /\ \A k \in PgClient :
         /\ reads[k].pc = "blobs" /\ Cardinality(PgClient) < PoolSize => Free
         /\ reads[k].pc = "done" /\ ~reads[k].tuple => \A c \in reads[k].blob :
              \/ reads[k].values[c] >= reads[k].row
              \/ reads[k].values[c] = Absent /\ reads[k].deleted
==============================================================================
