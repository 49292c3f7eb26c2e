----------------------------- MODULE MCServices -----------------------------
(***************************************************************************)
(* Instances of the components that share no state with one another: the   *)
(* stores, the server, the graph builder, the executors and the streams.   *)
(* A behaviour is one of one component, the one part names, and the        *)
(* variables of the server stay as they begin in the others.  The          *)
(* variables of the other components are v1, v2, ... in turn, so that a    *)
(* state is no larger than that of the largest component; a variable a     *)
(* component does not use is 0.                                            *)
(***************************************************************************)
EXTENDS Server

CONSTANTS
    n1, n2, n3, missing, typeValue,     \* values of the channels
    CpThread, CpClient, CpChannel, MaxVersions, VersionSteps, MaxId,  \* CheckpointManager
    SaverThread, CallerId, Savers, History, MaxGraphIdle, MaxPuts, MaxClock,
    PgThread, PgChannel, PgClient, PgId, PoolSize, MaxPgPuts,
    Namespace, StoreKey, ColonKey, FieldType, MaxStorePuts, MaxStoreTime,
    AsyncTask, maxConcurrency,          \* AsyncExecutor
    Caller, Limit, EventRoom, MaxLimits, MaxStarts,
    BgTask, Worker, QueueSize, Priority, MaxStops, MaxHeap,
    Task, MaxObjects, MaxWrites, MaxPad,    \* RuntimeValues
    Emitter, StreamRoom, MaxEvents,     \* EventStreams
    Call, Kinds, ChanRoom, MaxConnects, MaxChanges, \* RemoteGraph
    Source, MaxEmits, BufferSize, Passes,   \* ChannelStreams
    Word, NetworkWord, TemporaryWord, Attempts, InitialInterval, MaxInterval,
    MaxPower, powFloat, Wide,           \* NodeRetry
    CacheKey, CacheClient, CacheWorker, maxSize, Ttl, Room, MaxCacheTime, MaxWork

Sorts == {[id |-> "x", role |-> "user"], [id |-> "y", role |-> "tool"],
          [id |-> "", role |-> "user"]}
Entry(c, v, o) == [channel |-> c, value |-> v, overwrite |-> o]
Written == {Entry("f", "good", FALSE), Entry("s", "good", TRUE),
            Entry("s", "odd", FALSE), Entry("u", "nil", FALSE)}

Namespaces == {<<"a", "b">>}

\* A call of Invoke with one of Stream or one over HTTP.
OtherKind == {"stream", "http"}
CallKinds == {[c \in Call |-> IF c = CHOOSE d \in Call : TRUE THEN "invoke" ELSE k] : k \in OtherKind}

\* A BackoffFactor of two.
Powers == [n \in 0 .. 7 |-> 2 ^ n]

VARIABLES
    part,           \* the component this behaviour is of
    v1, v2, v3, v4, v5, v6, v7, v8, v9, v10, v11, v12, v13, v14, v15, v16

partVars == <<v1, v2, v3, v4, v5, v6, v7, v8, v9, v10, v11, v12, v13, v14,
              v15, v16>>
vars == <<part, serverVars, partVars>>

\* The variables from the k-th on are not used.
Unused(k) ==
    /\ k <= 1 => v1 = 0 /\ v2 = 0 /\ v3 = 0
    /\ k <= 4 => v4 = 0
    /\ k <= 5 => v5 = 0
    /\ k <= 6 => v6 = 0
    /\ k <= 7 => v7 = 0
    /\ k <= 8 => v8 = 0
    /\ k <= 9 => v9 = 0
    /\ k <= 10 => v10 = 0
    /\ k <= 11 => v11 = 0
    /\ k <= 12 => v12 = 0
    /\ k <= 13 => v13 = 0
    /\ k <= 14 => v14 = 0
    /\ k <= 15 => v15 = 0
    /\ k <= 16 => v16 = 0
UnusedStay(k) ==
    /\ k <= 4 => UNCHANGED v4
    /\ k <= 5 => UNCHANGED v5
    /\ k <= 6 => UNCHANGED v6
    /\ k <= 7 => UNCHANGED v7
    /\ k <= 8 => UNCHANGED v8
    /\ k <= 9 => UNCHANGED v9
    /\ k <= 10 => UNCHANGED v10
    /\ k <= 11 => UNCHANGED v11
    /\ k <= 12 => UNCHANGED v12
    /\ k <= 13 => UNCHANGED v13
    /\ k <= 14 => UNCHANGED v14
    /\ k <= 15 => UNCHANGED v15
    /\ k <= 16 => UNCHANGED v16

Ch == INSTANCE Channels WITH
    kind <- v1, channel <- v2, checkpoint <- v3, shared <- v4, restored <- v5,
    atCheckpoint <- v6, arrived <- v7, total <- v8, updates <- v9,
    Name <- {n1, n2}, Stranger <- n3, Missing <- missing,
    TypeValue <- typeValue, MaxUpdatesMade <- 3

Gr == INSTANCE StateGraph WITH
    nodes <- v1, edges <- v2, conds <- v3, entryPoint <- v4,
    finishPoints <- v5, compiled <- v6, pc <- v7, step <- v8,
    completedTasks <- v9, lastCompletedNode <- v10, tasks <- v11,
    channel <- v12, saved <- v13, result <- v14, ran <- v15, invokes <- v16,
    Node <- {"a", "b"}, Interrupts <- {"b"}, RecursionLimit <- 2,
    MaxEdges <- 1, MaxConds <- 1, MaxInvokes <- 2

Gf == INSTANCE StateGraph WITH
    nodes <- v1, edges <- v2, conds <- v3, entryPoint <- v4,
    finishPoints <- v5, compiled <- v6, pc <- v7, step <- v8,
    completedTasks <- v9, lastCompletedNode <- v10, tasks <- v11,
    channel <- v12, saved <- v13, result <- v14, ran <- v15, invokes <- v16,
    Node <- {"a", "b"}, Interrupts <- {}, RecursionLimit <- 2, MaxEdges <- 3,
    MaxConds <- 0, MaxInvokes <- 1

Gm == INSTANCE GraphMessages WITH
    messages <- v1, made <- v2, merged <- v3, filtered <- v4, NoID <- "",
    Sort <- Sorts, MaxBatch <- 2, MaxMessages <- 3

Ex == INSTANCE ComponentProofs WITH
    form <- v1, where <- v2, slots <- v3, activeTasks <- v4,
    asyncResults <- v5, resultClosed <- v6, ctxDone <- v7, told <- v8,
    waiter <- v9,
    pipelineRunning <- v1, channelsClosed <- v2, buffered <- v3,
    pipelinePanic <- v4, starts <- v5, tokens <- v6, caller <- v7,
    moved <- v8, limitNow <- v9,
    running <- v1, stopping <- v2, stopCh <- v3, queuesClosed <- v4,
    taskQueue <- v5, bgActive <- v6, submit <- v7, worker <- v8,
    taskResult <- v9, globalResults <- v10, executed <- v11, bgPanic <- v12,
    heap <- v13, popped <- v14,
    objects <- v1, maps <- v2, views <- v3, aliased <- v4, mapPanic <- v5,
    writes <- v6, shared <- v7, reading <- v8, padData <- v9, stacks <- v10,
    padTask <- v11, counter <- v12, increments <- v13, reference <- v14,
    overlapped <- v15, padOps <- v16,
    streamKind <- v1, streamMode <- v2, eventCh <- v3, eventClosed <- v4,
    eventCtx <- v5, emitter <- v6, events <- v7, lost <- v8, processor <- v9,
    handled <- v10, eventPanic <- v11,
    conn <- v1, broken <- v2, closer <- v3, atServer <- v4, loop <- v5,
    messageChan <- v6, chanClosed <- v7, call <- v8, remotePanic <- v9,
    begun <- v10,
    buffer <- v1, sourceClosed <- v2, producer <- v3, forwarder <- v4,
    output <- v5, outputClosed <- v6, closing <- v7, readerErr <- v8,
    read <- v9, dropped <- v10, channelPanic <- v11,
    run <- v1, outcome <- v2, outputs <- v3, outputsClosed <- v4,
    failures <- v5, failuresClosed <- v6, ctxEnded <- v7, written <- v8,
    checkpoints <- v1, held <- v2, nextId <- v3,
    saver <- v1, versions <- v2, rows <- v3, stream <- v4, gc <- v5,
    saverClosed <- v6, clock <- v7, put <- v8, puts <- v9, lostThreads <- v10,
    table <- v1, blobs <- v2, pgWrites <- v3, reads <- v4, pgPut <- v5,
    data <- v1, ttl <- v2, indexes <- v3, closed <- v4, locked <- v5,
    storeTime <- v6, storePuts <- v7, expired <- v8,
    executor <- v1, policies <- v2, retryPc <- v3, inner <- v4, policy <- v5,
    attempt <- v6, retryCtx <- v7, backoff <- v8, result <- v9, calls <- v10,
    last <- v11, fatal <- v12,
    eviction <- v1, async <- v2, cacheTtl <- v3, now <- v4, cached <- v5,
    client <- v6, workerCh <- v7, cacheWorker <- v8, stopped <- v9,
    cacheCtx <- v10, work <- v11

ASSUME ServicesAssumption ==
    /\ Ex!ManagerConstants /\ Ex!SaversConstants /\ Ex!PgConstants /\ Ex!StoreConstants
    /\ Ex!AsyncConstants /\ Ex!LimiterConstants /\ Ex!RemoteConstants /\ Ex!DuplexConstants
    /\ Ex!RetryConstants /\ Ex!CacheConstants

Ms == INSTANCE MessageStreams WITH
    flushTrigger <- v1, streams <- v2, chunks <- v3, current <- v4,
    streamClosed <- v5, messages <- v6, flushing <- v7, emitNext <- v8,
    handlerLock <- v9, parts <- v10, emitted <- v11, flushFailed <- v12,
    MsgNode <- {"a", "b"}, MaxParts <- 2, MaxFailures <- 1

Ac == INSTANCE ChannelAccess WITH
    transformer <- v1, validator <- v2, entries <- v3, entry <- v4,
    batch <- v5, flush <- v6, channel <- v7, written <- v8, added <- v9,
    failures <- v10, flushes <- v11, version <- v12, lastVersion <- v13,
    executions <- v14, quiet <- v15, Context <- {"a", "b"}, First <- "f",
    Second <- "s", Unknown <- "u", Entries <- Written, MaxEntries <- 2,
    MaxFlushes <- 2, MaxApplied <- 2

Init ==
  /\ ServerInit
  /\ \/ part = "manager" /\ Ex!ManagerInit /\ Unused(4)
     \/ part = "saver" /\ Ex!SaversInit /\ Unused(11)
     \/ part = "postgres" /\ Ex!PgInit /\ Unused(6)
     \/ part = "store" /\ Ex!StoreInit /\ Unused(9)
     \/ part = "server" /\ Unused(1)
     \/ part = "graphStream" /\ Ex!StreamInit /\ Unused(9)
     \/ part = "channels" /\ Ch!ChannelsInit /\ Unused(10)
     \/ part = "graph" /\ Gr!GraphInit
     \/ part = "fan" /\ Gf!GraphInit
     \/ part = "messages" /\ Gm!MessageGraphInit /\ Unused(5)
     \/ part = "async" /\ Ex!AsyncInit /\ Unused(10)
     \/ part = "background" /\ Ex!BgInit /\ Unused(15)
     \/ part = "heap" /\ Ex!BgInit /\ Unused(15)
     \/ part = "pipeline" /\ Ex!PipelineInit /\ Unused(10)
     \/ part = "limiter" /\ Ex!PipelineInit /\ Unused(10)
     \/ part = "retry" /\ Ex!RetryInit /\ Unused(13)
     \/ part = "cache" /\ Ex!CacheInit /\ Unused(12)
     \/ part = "remote" /\ Ex!RemoteInit /\ Unused(11)
     \/ part = "messageStream" /\ Ms!MessagesInit /\ Unused(13)
     \/ part = "duplex" /\ Ex!DuplexInit /\ Unused(12)
     \/ part = "events" /\ Ex!EventsInit /\ Unused(12)
     \/ part = "config" /\ Ex!ValuesInit
     \/ part = "managed" /\ Ex!ValuesInit
     \/ part = "scratchpad" /\ Ex!ValuesInit
     \/ part = "write" /\ Ac!AccessInit /\ Unused(16)
     \/ part = "read" /\ Ac!AccessInit /\ v1 = "identity" /\ v2 = "none" /\ Unused(16)

Alone == UNCHANGED <<part, serverVars>>

Manager == part = "manager" /\ Ex!ManagerNext /\ Alone /\ UnusedStay(4)
Saver == part = "saver" /\ Ex!SaversNext /\ Alone /\ UnusedStay(11)
Postgres == part = "postgres" /\ Ex!PgNext /\ Alone /\ UnusedStay(6)
Store == part = "store" /\ Ex!StoreNext /\ Alone /\ UnusedStay(9)
HttpServer == part = "server" /\ ServerNext /\ UNCHANGED <<part, partVars>>
CompiledStream == part = "graphStream" /\ Ex!StreamNext /\ Alone /\ UnusedStay(9)
Channel == part = "channels" /\ Ch!ChannelsNext /\ Alone /\ UnusedStay(10)
Graph == part = "graph" /\ Gr!GraphNext /\ Alone
FanGraph == part = "fan" /\ Gf!GraphNext /\ Alone
Messages == part = "messages" /\ Gm!MessageGraphNext /\ Alone /\ UnusedStay(5)
Async == part = "async" /\ Ex!AsyncNext /\ Alone /\ UnusedStay(10)
Background == part = "background" /\ Ex!BgNext /\ Alone /\ UnusedStay(15)
Heap == part = "heap" /\ Ex!HeapNext /\ Alone /\ UnusedStay(15)
Pipeline == part = "pipeline" /\ Ex!PipelineNext /\ Alone /\ UnusedStay(10)
Limiter == part = "limiter" /\ Ex!LimiterNext /\ Alone /\ UnusedStay(10)
Retry == part = "retry" /\ Ex!RetryNext /\ Alone /\ UnusedStay(13)
Cache == part = "cache" /\ Ex!CacheNext /\ Alone /\ UnusedStay(12)
Remote == part = "remote" /\ Ex!RemoteNext /\ Alone /\ UnusedStay(11)
MessageStream == part = "messageStream" /\ Ms!MessagesNext /\ Alone /\ UnusedStay(13)
Duplex == part = "duplex" /\ Ex!DuplexNext /\ Alone /\ UnusedStay(12)
Events == part = "events" /\ Ex!EventsNext /\ Alone /\ UnusedStay(12)
Config == part = "config" /\ Ex!ConfigNext /\ Alone
Managed == part = "managed" /\ Ex!ManagedNext /\ Alone
Scratchpad == part = "scratchpad" /\ Ex!PadNext /\ Alone
Writer == part = "write" /\ Ac!WriteNext /\ Alone /\ UnusedStay(16)
Reader == part = "read" /\ Ac!ReadNext /\ Alone /\ UnusedStay(16)

Next ==
    \/ Manager \/ Saver \/ Postgres \/ Store \/ HttpServer 
    \/ CompiledStream \/ Channel \/ Graph \/ FanGraph \/ Messages \/ Async 
    \/ Background \/ Heap \/ Pipeline \/ Limiter \/ Retry \/ Cache \/ Remote
    \/ MessageStream \/ Duplex \/ Events \/ Config \/ Managed 
    \/ Scratchpad \/ Writer \/ Reader

Spec == Init /\ [][Next]_vars

-----------------------------------------------------------------------------
(* Properties.                                                             *)

\* What is saved is what is found: a checkpoint of the manager is one write
\* ahead of its parent, and one saved behind the latest its next version,
\* whoever saves at the same time; a saver returns the last checkpoint that was
\* put, a reader of Postgres never goes back to an older one, and a value of
\* the store stays hidden once its time is over.
StorageSound ==
    /\ part = "manager" => Ex!VersionsFollowParents
    /\ part = "saver" => Ex!GetIsLastPut
    /\ part = "postgres" => Ex!ReadsNeverOlder
    /\ part = "store" => Ex!ExpiredStaysHidden

\* Channels hold what was written to them as their kind promises, also after
\* they have been restored from a checkpoint, and a ChannelWrite, whose
\* contexts flush at the same time and whose writes may fail, loses nothing;
\* a trigger misses no version.
ChannelsSound ==
    /\ part = "channels" => Ch!ChannelsAsPromised
    /\ part = "write" => Ac!WritesAreKept
    /\ part = "read" => Ac!TriggersMissNothing

\* A graph runs only nodes that an edge leads to from its entry point, its
\* messages are merged by their IDs and streamed whole, and its queue hands out
\* the task of the highest priority.
GraphsSound ==
    /\ part = "graph" => Gr!RunStaysReachable
    /\ part = "fan" => Gf!RunStaysReachable
    /\ part = "messages" => Gm!MessagesMerge
    /\ part = "messageStream" => Ms!MessagesAreWhole
    /\ part = "heap" => Ex!PopTakesHighest

\* The executors keep their limits, run a task once and tell everyone its
\* result.
ExecutorsSound ==
    /\ part = "async" => Ex!AsyncSound
    /\ part = "background" => Ex!BackgroundSound
    /\ part \in {"pipeline", "limiter"} => Ex!PipelineSound

\* Retries are bounded, each wait is between half of its interval and all of
\* it, and a cache returns neither what has expired nor what belongs to another
\* key.
RetryAndCacheSound ==
    /\ part = "retry" => Ex!RetriesAreBounded
    /\ part = "cache" => Ex!CacheSound

\* Streams lose, double and reorder nothing as long as nobody closes them
\* early, a failure of a streamed run is there before the stream ends, no two
\* calls of a remote graph return one answer, also after it was connected again,
\* and a configuration or a task's values change with nobody else's writes.
StreamsSound ==
    /\ part = "graphStream" => Ex!FailureBeforeDone
    /\ part = "duplex" => Ex!DuplexSound
    /\ part = "events" => Ex!EventsSound
    /\ part = "remote" => Ex!AnswersAreSound
    /\ part \in {"config", "managed", "scratchpad"} => Ex!ValuesAreOwn
=============================================================================
