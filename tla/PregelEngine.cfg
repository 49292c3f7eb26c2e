\* Every graph, with every way of saving.
SPECIFICATION Spec
CONSTANTS
    a = a
    b = b
    c = c
    d = d
    msgs = msgs
    last = last
    signal = signal
    End = End
    None = None
    Node = {a, b, c, d}
    NodeNames <- Names
    Channel = {msgs, last, signal}
    Graphs <- AllGraphs
    Durabilities = {"none", "sync", "async", "exit"}
    RecursionLimit = 4
    MaxAttempts = 2
    CtxMayEnd = TRUE
INVARIANTS ChannelsReflectResults StoreHoldsSteps DagRunsInOrder
PROPERTIES CancelEndsRun RunEnds ImplementsSupersteps
\* An execution ends.
CHECK_DEADLOCK FALSE
