\* Two loops on one store; callbacks, agents, the store and the context fail.
SPECIFICATION Spec
CONSTANTS
    a = a
    b = b
    s1 = s1
    s2 = s2
    Items = {a}
    MaxTurns = 2
    PushModes <- StratMode
    Stoppers = {s1}
    StopOptions <- CheckpointStops
    AgentOutcomes = {"err", "cancel", "internal", "interrupt"}
    Persist = TRUE
    CtxMayEnd = TRUE
    CallbacksMayFail = TRUE
    EarlyReturn = TRUE
    MaxRuns = 2
INVARIANT ItemsConserved
PROPERTY CancelledTurnIsSaved
\* A loop nobody stops waits for items, and a finished one does nothing.
CHECK_DEADLOCK FALSE
