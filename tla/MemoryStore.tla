----------------------------- MODULE MemoryStore -----------------------------
(***************************************************************************)
(* InMemoryStore (graphengine/store/memory.go): values by namespace and    *)
(* key with an expiry time each, an index of embeddings, and the goroutine *)
(* that removes expired values every minute.  Every operation holds the    *)
(* store's lock, which is not reentrant.                                   *)
(*                                                                         *)
(* A namespace is a sequence of parts.  A value is the number of the Put   *)
(* that stored it and the type of the field that filters look at; its      *)
(* embedding is known by the same number.                                  *)
(***************************************************************************)
EXTENDS Integers, Sequences, SequencesExt

CONSTANTS
    Namespace,      \* sequences of parts
    StoreKey,
    ColonKey,       \* the keys with a ':' in them
    FieldType,      \* Go types of the field filters look at
    MaxStorePuts,   \* bound: Puts
    MaxStoreTime    \* bound: time

VARIABLES
    data,           \* namespace -> key -> value, where present
    ttl,            \* expiry by namespace and key, where set
    indexes,        \* namespace -> key -> the Put of its embedding
    closed,
    locked,         \* a Batch waits for the lock it holds itself
    storeTime,
    storePuts,      \* history: the number of Puts
    expired         \* history: values whose time passed and that were not
                    \* written since

storeVars == <<data, ttl, indexes, closed, locked, storeTime, storePuts, expired>>

Places == Namespace \X StoreKey
NoEntry == [x \in {} |-> x]     \* the function with no entries

StoreInit ==
    /\ data = NoEntry /\ ttl = NoEntry /\ indexes = NoEntry
    /\ closed = FALSE /\ locked = FALSE
    /\ storeTime = 0 /\ storePuts = 0
    /\ expired = {}

\* f with x mapped to y, and f without the members of S.
WithEntry(f, x, y) == [z \in DOMAIN f \cup {x} |-> IF z = x THEN y ELSE f[z]]
WithoutKeys(f, S) == [z \in DOMAIN f \ S |-> f[z]]

HasKey(ns, k) == ns \in DOMAIN data /\ k \in DOMAIN data[ns]

-----------------------------------------------------------------------------
(* Reads.                                                                  *)

checkTTL(ns, k) == <<ns, k>> \in DOMAIN ttl => storeTime < ttl[<<ns, k>>]

\* Get and GetItem.
Get(ns, k) == IF HasKey(ns, k) /\ checkTTL(ns, k) THEN {data[ns][k]} ELSE {}

\* List, Search without a query.
Keys(ns) == {k \in StoreKey : HasKey(ns, k) /\ checkTTL(ns, k)}

\* == of two interface values: types are compared too.
equal(v, w) == v = w
greaterThan(v, w) == v.type = w.type /\ v.put > w.put
lessThan(v, w) == v.type = w.type /\ v.put < w.put

compare(v, op, w) ==
    \/ op \in {"$eq", "$gte", "$lte"} /\ equal(v, w)
    \/ op = "$ne" /\ ~equal(v, w)
    \/ op \in {"$gt", "$gte"} /\ greaterThan(v, w)
    \/ op \in {"$lt", "$lte"} /\ lessThan(v, w)

\* SearchItems with a filter on the field.
SearchItems(ns, op, w) == {k \in Keys(ns) : compare(data[ns][k], op, w)}

\* The items of the index that are still there, each with the embedding it
\* was indexed with.
searchByEmbedding(ns) ==
    IF ns \notin DOMAIN indexes THEN {}
    ELSE {[value |-> data[ns][k], embedding |-> indexes[ns][k]] :
            k \in {k \in DOMAIN indexes[ns] : HasKey(ns, k) /\ checkTTL(ns, k)}}

matchNamespaceConditions(ns, path, type) ==
    \/ type = "prefix" /\ IsPrefix(path, ns)
    \/ type = "suffix" /\ IsSuffix(path, ns)

\* Every prefix of a namespace there is that matches the condition.
ListNamespaces(path, type) ==
    {n \in UNION {{SubSeq(ns, 1, i) : i \in 1 .. Len(ns)} : ns \in DOMAIN data} :
        matchNamespaceConditions(n, path, type)}

-----------------------------------------------------------------------------
(* Writes.                                                                 *)

Open == ~closed /\ ~locked

Store(d, ns, k, v) ==
    WithEntry(d, ns, WithEntry(IF ns \in DOMAIN d THEN d[ns] ELSE NoEntry, k, v))

Value(ty) == [put |-> storePuts + 1, type |-> ty]

\* PutValue (Put) keeps the expiry the key has.
PutValue(ns, k, ty) ==
    /\ Open /\ storePuts < MaxStorePuts
    /\ data' = Store(data, ns, k, Value(ty))
    /\ storePuts' = storePuts + 1
    /\ expired' = expired \ {<<ns, k>>}
    /\ UNCHANGED <<ttl, indexes, closed, locked, storeTime>>

\* PutItem, and PutOp of Batch: an expiry of its own, an embedding.
PutItem(ns, k, ty, lives, indexed) ==
    /\ Open /\ storePuts < MaxStorePuts
    /\ data' = Store(data, ns, k, Value(ty))
    /\ ttl' = WithEntry(ttl, <<ns, k>>, storeTime + lives)
    /\ indexes' = IF indexed THEN Store(indexes, ns, k, storePuts + 1)
                             ELSE indexes
    /\ storePuts' = storePuts + 1
    /\ expired' = expired \ {<<ns, k>>}
    /\ UNCHANGED <<closed, locked, storeTime>>

\* BatchPut, and Batch of PutOps: all under one lock.
BatchPut(ns, ks, ty) ==
    LET old == IF ns \in DOMAIN data THEN data[ns] ELSE NoEntry
    IN  /\ Open /\ storePuts < MaxStorePuts
        /\ data' = WithEntry(data, ns, [k \in DOMAIN old \cup ks |->
                                     IF k \in ks THEN Value(ty) ELSE old[k]])
        /\ storePuts' = storePuts + 1
        /\ expired' = expired \ {<<ns, k>> : k \in ks}
        /\ UNCHANGED <<ttl, indexes, closed, locked, storeTime>>

\* Batch with a ListNamespacesOp asks for the read lock while it holds the
\* write lock.
BatchListNamespaces ==
    /\ Open
    /\ locked' = TRUE
    /\ UNCHANGED <<data, ttl, indexes, closed, storeTime, storePuts, expired>>

\* Also of a key that is not there.
SetTTL(ns, k, lives) ==
    /\ Open
    /\ ttl' = WithEntry(ttl, <<ns, k>>, storeTime + lives)
    /\ expired' = expired \ {<<ns, k>>}
    /\ UNCHANGED <<data, indexes, closed, locked, storeTime, storePuts>>

\* DeleteKey (Delete): the embedding stays.
DeleteKey(ns, k) ==
    /\ Open /\ ns \in DOMAIN data
    /\ data' = [data EXCEPT ![ns] = WithoutKeys(@, {k})]
    /\ ttl' = WithoutKeys(ttl, {<<ns, k>>})
    /\ expired' = expired \ {<<ns, k>>}
    /\ UNCHANGED <<indexes, closed, locked, storeTime, storePuts>>

\* ClearStore (Clear) works on a closed store too, and leaves the indexes.
ClearStore ==
    /\ ~locked
    /\ data' = NoEntry /\ ttl' = NoEntry
    /\ expired' = {}
    /\ UNCHANGED <<indexes, closed, locked, storeTime, storePuts>>

Overdue == {p \in DOMAIN ttl : storeTime > ttl[p]}

\* Mutant: the expiry is forgotten and the value is not.
cleanupExpired_KeepsData ==
    /\ ~locked /\ ~closed /\ Overdue # {}
    /\ ttl' = WithoutKeys(ttl, Overdue)
    /\ UNCHANGED <<data, indexes, closed, locked, storeTime, storePuts, expired>>

\* A full key splits into two parts only if neither has a ':': otherwise the
\* expiry is deleted and the value is not.  An empty namespace goes.  The
\* embedding is looked for under the full key and stays.
cleanupExpired ==
    LET gone == {p \in Overdue : p[2] \notin ColonKey}
        left == [ns \in DOMAIN data |->
                   WithoutKeys(data[ns], {k \in StoreKey : <<ns, k>> \in gone})]
    IN  /\ ~locked /\ ~closed /\ Overdue # {}
        /\ data' = WithoutKeys(left, {ns \in DOMAIN left : DOMAIN left[ns] = {}
                                    /\ \E p \in gone : p[1] = ns})
        /\ ttl' = WithoutKeys(ttl, Overdue)
        /\ UNCHANGED <<indexes, closed, locked, storeTime, storePuts, expired>>

\* CloseStore (Close); the ticker's goroutine ends.
CloseStore ==
    /\ Open
    /\ closed' = TRUE
    /\ UNCHANGED <<data, ttl, indexes, locked, storeTime, storePuts, expired>>

StoreTick ==
    /\ storeTime < MaxStoreTime
    /\ storeTime' = storeTime + 1
    /\ expired' = expired \cup {p \in DOMAIN ttl : HasKey(p[1], p[2])
                                                   /\ storeTime' >= ttl[p]}
    /\ UNCHANGED <<data, ttl, indexes, closed, locked, storePuts>>

StoreNext ==
    \/ \E ns \in Namespace, k \in StoreKey, ty \in FieldType :
         \/ PutValue(ns, k, ty)
         \/ \E indexed \in BOOLEAN : PutItem(ns, k, ty, 1, indexed)
    \/ \E ns \in Namespace, ty \in FieldType :
         \E ks \in (SUBSET StoreKey) \ {{}} : BatchPut(ns, ks, ty)
    \/ \E ns \in Namespace, k \in StoreKey : SetTTL(ns, k, 1) \/ DeleteKey(ns, k)
    \/ BatchListNamespaces \/ ClearStore \/ cleanupExpired \/ CloseStore \/ StoreTick

-----------------------------------------------------------------------------
(* Properties.                                                             *)

\* A value whose time has passed is seen by no read until it is written again
\* or given a new time, before and after the cleanup, whatever is deleted,
\* cleared or put beside it (keys with a ':' excepted, which the cleanup gives
\* back).  The reads agree: a key that is listed can be read, its namespace
\* is listed (unless it has no parts), "$gte" finds what "$gt" and "$eq" find,
\* and no embedding is newer than the value it finds.
ExpiredStaysHidden ==
    /\ \A p \in expired : p[2] \notin ColonKey =>
         Get(p[1], p[2]) = {} /\ p[2] \notin Keys(p[1])
    /\ \A ns \in Namespace :
         /\ \A k \in Keys(ns) :
              /\ Get(ns, k) # {}
              /\ ns # <<>> => ns \in ListNamespaces(ns, "suffix")
              /\ SearchItems(ns, "$gte", data[ns][k]) =
                   SearchItems(ns, "$gt", data[ns][k])
                     \cup SearchItems(ns, "$eq", data[ns][k])
              /\ k \notin SearchItems(ns, "$ne", data[ns][k])
                         \cup SearchItems(ns, "$lt", data[ns][k])
         /\ \A r \in searchByEmbedding(ns) : r.embedding <= r.value.put

==============================================================================
