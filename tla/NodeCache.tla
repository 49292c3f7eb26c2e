------------------------------ MODULE NodeCache ------------------------------
(***************************************************************************)
(* The cache of node outputs: MemoryCache and CachedExecutor               *)
(* (graphengine/pregel/cache.go), AsyncMemoryCache with its workers and    *)
(* AsyncCachedExecutor (cache_async.go).  A value is the pair of the key   *)
(* it was computed for and the time at which that call of Execute returned *)
(* it; what the function computes is external.                             *)
(***************************************************************************)
EXTENDS Integers, Sequences, FiniteSets

CONSTANTS
    CacheKey, CacheClient, CacheWorker,
    maxSize,        \* of the MemoryCache
    Ttl,            \* time to live of a policy; 0: none
    Room,           \* capacity of workerCh
    MaxCacheTime,   \* bound: the clock
    MaxWork         \* bound: calls of Execute, Delete and Clear

VARIABLES
    eviction,       \* "LRU", "LFU" or "Random"
    async,          \* the executor is the asynchronous one
    cacheTtl,
    now,
    cached,         \* key -> entry
    client,         \* client -> where its Execute is
    workerCh,
    cacheWorker,    \* worker -> the operation in its hands
    stopped,        \* stopCh is closed
    cacheCtx,       \* the callers' context has ended
    work            \* history: the number of calls

settings == <<eviction, async, cacheTtl>>
cacheVars == <<settings, now, cached, client, workerCh, cacheWorker, stopped,
               cacheCtx, work>>

Nobody == [type |-> "none"]
Resting == [pc |-> "idle", key |-> "none", value |-> <<>>, at |-> 0, hits |-> 0]

CacheInit ==
    /\ eviction \in {"LRU", "LFU", "Random"} /\ async \in BOOLEAN /\ cacheTtl \in Ttl
    /\ now = 1 /\ cached = <<>>
    /\ client = [c \in CacheClient |-> Resting]
    /\ workerCh = <<>> /\ cacheWorker = [w \in CacheWorker |-> Nobody]
    /\ stopped = FALSE /\ cacheCtx = FALSE /\ work = 0

-----------------------------------------------------------------------------
(* MemoryCache.                                                            *)

\* Mutant: an entry is never too old.
Expired_Never(e) == e.expiration < 0

Expired(e) == e.expiration # 0 /\ now > e.expiration
Found(k) == k \in DOMAIN cached /\ ~Expired(cached[k])

\* The keys evict may choose: map iteration is in any order.
evict ==
    {k \in DOMAIN cached : \A j \in DOMAIN cached :
        /\ eviction = "LRU" => cached[k].lastAccess <= cached[j].lastAccess
        /\ eviction = "LFU" => cached[k].hits <= cached[j].hits}

WithoutEntry(k) == [j \in DOMAIN cached \ {k} |-> cached[j]]
WithNew(d, k, v) ==
    [j \in DOMAIN d \cup {k} |->
        IF j = k THEN [value |-> v, hits |-> 0, lastAccess |-> now,
                       expiration |-> IF cacheTtl > 0 THEN now + cacheTtl ELSE 0]
        ELSE d[j]]

\* Readers hold the lock together; a writer waits for them.
NoReader == \A c \in CacheClient : client[c].pc # "reading"

SetEntry(k, v) ==
    /\ NoReader
    /\ IF Cardinality(DOMAIN cached) >= maxSize /\ cached # <<>>
         THEN \E gone \in evict : cached' = WithNew(WithoutEntry(gone), k, v)
         ELSE cached' = WithNew(cached, k, v)

-----------------------------------------------------------------------------
(* Execute.                                                                *)

Step(c, pc) == client' = [client EXCEPT ![c].pc = pc]

ExecuteNode(c, k) ==
    /\ client[c].pc \in {"idle", "done"} /\ work < MaxWork /\ work' = work + 1
    /\ client' = [client EXCEPT ![c] = [Resting EXCEPT !.pc = "look", !.key = k]]
    /\ UNCHANGED <<settings, now, cached, workerCh, cacheWorker, stopped,
                   cacheCtx>>

\* Get, under the read lock: the entry is looked up, and
GetReads(c) ==
    LET k == client[c].key IN
    /\ ~async /\ client[c].pc = "look"
    /\ client' = IF Found(k)
                   THEN [client EXCEPT ![c].pc = "reading", ![c].value = cached[k].value,
                                       ![c].at = now, ![c].hits = cached[k].hits]
                   ELSE [client EXCEPT ![c].pc = "compute"]
    /\ UNCHANGED <<settings, now, cached, workerCh, cacheWorker, stopped,
                   cacheCtx, work>>

\* its hits and its last access are written, which another reader may do, too.
GetCounts(c) ==
    LET k == client[c].key IN
    /\ client[c].pc = "reading"
    /\ cached' = [cached EXCEPT ![k].hits = client[c].hits + 1, ![k].lastAccess = now]
    /\ Step(c, "done")
    /\ UNCHANGED <<settings, now, workerCh, cacheWorker, stopped, cacheCtx,
                   work>>

\* AGet: into the channel, or the context ends first.
AGet(c) ==
    /\ async /\ client[c].pc = "look"
    /\ \/ /\ Len(workerCh) < Room
          /\ workerCh' = Append(workerCh, [type |-> "get", key |-> client[c].key, by |-> c])
          /\ Step(c, "waits")
       \/ cacheCtx /\ Step(c, "done") /\ UNCHANGED workerCh
    /\ UNCHANGED <<settings, now, cached, cacheWorker, stopped, cacheCtx, work>>

AGetCancelled(c) ==
    /\ client[c].pc = "waits" /\ cacheCtx /\ Step(c, "gone")
    /\ UNCHANGED <<settings, now, cached, workerCh, cacheWorker, stopped,
                   cacheCtx, work>>

\* The function returns a value, or an error.
FnReturns(c) ==
    /\ client[c].pc = "compute"
    /\ Step(c, "store")
    /\ UNCHANGED <<settings, now, cached, workerCh, cacheWorker, stopped,
                   cacheCtx, work>>
FnFails(c) ==
    /\ client[c].pc = "compute" /\ client' = [client EXCEPT ![c] = Resting]
    /\ UNCHANGED <<settings, now, cached, workerCh, cacheWorker, stopped,
                   cacheCtx, work>>

\* Set, or ASet, which nobody waits for, with a context that never ends.
StoreResult(c) ==
    LET value == <<client[c].key, now>> IN
    /\ client[c].pc = "store"
    /\ client' = [client EXCEPT ![c].pc = "done", ![c].value = value, ![c].at = now]
    /\ IF async
         THEN /\ Len(workerCh) < Room
              /\ workerCh' = Append(workerCh, [type |-> "set", key |-> client[c].key,
                                               value |-> value])
              /\ UNCHANGED cached
         ELSE SetEntry(client[c].key, value) /\ UNCHANGED workerCh
    /\ UNCHANGED <<settings, now, cacheWorker, stopped, cacheCtx, work>>

-----------------------------------------------------------------------------
(* The other operations, and the workers.                                  *)

DeleteEntry(k) ==
    /\ work < MaxWork /\ work' = work + 1
    /\ NoReader /\ cached' = WithoutEntry(k)
    /\ UNCHANGED <<settings, now, client, workerCh, cacheWorker, stopped,
                   cacheCtx>>

ADelete(k) ==
    /\ work < MaxWork /\ work' = work + 1
    /\ async /\ Len(workerCh) < Room
    /\ workerCh' = Append(workerCh, [type |-> "delete", key |-> k])
    /\ UNCHANGED <<settings, now, cached, client, cacheWorker, stopped,
                   cacheCtx>>

ClearCache ==
    /\ work < MaxWork /\ work' = work + 1 /\ NoReader /\ cached' = <<>>
    /\ UNCHANGED <<settings, now, client, workerCh, cacheWorker, stopped,
                   cacheCtx>>

WorkerTakes(w) ==
    /\ cacheWorker[w] = Nobody /\ workerCh # <<>>
    /\ cacheWorker' = [cacheWorker EXCEPT ![w] = Head(workerCh)] /\ workerCh' = Tail(workerCh)
    /\ UNCHANGED <<settings, now, cached, client, stopped, cacheCtx, work>>

WorkerStops(w) ==
    /\ cacheWorker[w] = Nobody /\ stopped
    /\ cacheWorker' = [cacheWorker EXCEPT ![w] = [type |-> "ended"]]
    /\ UNCHANGED <<settings, now, cached, client, workerCh, stopped, cacheCtx,
                   work>>

processOp(w) ==
    LET op == cacheWorker[w]
        found == Found(op.key)
    IN
    /\ op.type \in {"get", "set", "delete"}
    /\ cacheWorker' = [cacheWorker EXCEPT ![w] = Nobody]
    /\ CASE op.type = "get" ->
              /\ cached' = IF found
                           THEN [cached EXCEPT ![op.key].hits = @ + 1, ![op.key].lastAccess = now]
                           ELSE cached
              /\ client' = IF client[op.by].pc # "waits" THEN client
                           ELSE IF found
                             THEN [client EXCEPT ![op.by].pc = "done", ![op.by].at = now,
                                                 ![op.by].value = cached[op.key].value]
                             ELSE [client EXCEPT ![op.by].pc = "compute"]
         [] op.type = "set" -> SetEntry(op.key, op.value) /\ UNCHANGED client
         [] op.type = "delete" -> cached' = WithoutEntry(op.key) /\ UNCHANGED client
    /\ UNCHANGED <<settings, now, workerCh, stopped, cacheCtx, work>>

Stop ==
    /\ async /\ ~stopped /\ stopped' = TRUE
    /\ UNCHANGED <<settings, now, cached, client, workerCh, cacheWorker,
                   cacheCtx, work>>

CallersEnd ==
    /\ ~cacheCtx /\ cacheCtx' = TRUE
    /\ UNCHANGED <<settings, now, cached, client, workerCh, cacheWorker,
                   stopped, work>>

Tick ==
    /\ now < MaxCacheTime /\ now' = now + 1
    /\ UNCHANGED <<settings, cached, client, workerCh, cacheWorker, stopped,
                   cacheCtx, work>>

CacheNext ==
    \/ \E c \in CacheClient :
         \/ \E k \in CacheKey : ExecuteNode(c, k)
         \/ GetReads(c) \/ GetCounts(c) \/ AGet(c) \/ AGetCancelled(c)
         \/ FnReturns(c) \/ FnFails(c) \/ StoreResult(c)
    \/ \E k \in CacheKey : DeleteEntry(k) \/ ADelete(k)
    \/ \E w \in CacheWorker : WorkerTakes(w) \/ WorkerStops(w) \/ processOp(w)
    \/ ClearCache \/ Stop \/ CallersEnd \/ Tick

-----------------------------------------------------------------------------
(* Properties.                                                             *)

InHands(op) == op \in {cacheWorker[w] : w \in CacheWorker}
               \/ \E i \in 1 .. Len(workerCh) : workerCh[i] = op

\* What Execute returns was computed for its key, and, in the synchronous
\* executor, returned no longer ago than the time to live; the cache never
\* holds more than its size, except one entry in a cache of size zero; no entry
\* has been counted more often than it was read; and a caller that waits for a
\* worker has its operation in the queue or in a worker's hands.
CacheSound ==
    /\ \A c \in CacheClient : client[c].pc = "done" /\ client[c].value # <<>> =>
         /\ client[c].value[1] = client[c].key
         /\ ~async /\ cacheTtl > 0 => client[c].at <= client[c].value[2] + cacheTtl
    /\ Cardinality(DOMAIN cached) <= IF maxSize = 0 THEN 1 ELSE maxSize
    /\ \A k \in DOMAIN cached : cached[k].hits <= work /\ cached[k].value[1] = k
    /\ \A c \in CacheClient : client[c].pc = "waits" =>
         InHands([type |-> "get", key |-> client[c].key, by |-> c])
==============================================================================
