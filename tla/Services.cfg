SPECIFICATION Spec
CONSTANTS
    n1 = n1
    n2 = n2
    n3 = n3
    missing = missing
    typeValue = typeValue
    CpThread = {t, u}
    CpClient = {c, d}
    CpChannel = {x}
    MaxVersions = 3
    VersionSteps = {1, 2}
    MaxId = 4
    SaverThread = {t, u}
    CallerId = {callerId}
    Savers = {"memory", "sqlite", "nats"}
    History = 2
    MaxGraphIdle = 0
    MaxPuts = 3
    MaxClock = 1
    PgThread = {t}
    PgChannel = {x}
    PgClient = {c, d}
    PgId = {1, 2}
    PoolSize = 3
    MaxPgPuts = 2
    Namespace <- Namespaces
    StoreKey = {k, l}
    ColonKey = {l}
    FieldType = {"int", "string"}
    MaxStorePuts = 2
    MaxStoreTime = 2
    AsyncTask = {a, b}
    maxConcurrency = 1
    Caller = {a, b, c}
    Limit = {1, 2}
    EventRoom = 1
    MaxLimits = 2
    MaxStarts = 2
    BgTask = {a, b}
    Worker = {w}
    QueueSize = 1
    Priority = {1, 2, 3}
    MaxStops = 2
    MaxHeap = 4
    Task = {a, b}
    MaxObjects = 3
    MaxWrites = 2
    MaxPad = 3
    Emitter = {a, b}
    StreamRoom = 1
    MaxEvents = 3
    Call = {a, b}
    Kinds <- CallKinds
    ChanRoom = 1
    MaxConnects = 2
    MaxChanges = 3
    Source = {a, b}
    MaxEmits = 2
    BufferSize = 1
    Passes = {1}
    Word = {"timeout", "429"}
    NetworkWord = {"timeout"}
    TemporaryWord = {"429"}
    Attempts = {0, 2, 4}
    InitialInterval = 1
    MaxInterval = 3
    MaxPower = 7
    powFloat <- Powers
    Wide = 8
    CacheKey = {k, l}
    CacheClient = {c, d}
    CacheWorker = {w}
    maxSize = 2
    Ttl = {1}
    Room = 1
    MaxCacheTime = 3
    MaxWork = 2
    GraphId = {"g"}
    RunId = {1, 2}
    Handler = {"h"}
    MaxServerIds = 1
    MaxPolls = 1
    MaxUpdates = 1
INVARIANTS
    StorageSound ThreadStateIsWhole ChannelsSound GraphsSound ExecutorsSound
    RetryAndCacheSound StreamsSound
PROPERTY RunsImplementLifecycle
CHECK_DEADLOCK FALSE
