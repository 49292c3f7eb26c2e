\* A Stop that cancels, and agents that only end when cancelled.
SPECIFICATION CancelSpec
CONSTANTS
    a = a
    b = b
    s1 = s1
    s2 = s2
    Items = {a, b}
    MaxTurns = 2
    PushModes <- PlainModes
    Stoppers = {s1}
    StopOptions <- OneCancel
    AgentOutcomes = {"ok", "cancel"}
    Persist = FALSE
    CtxMayEnd = FALSE
    CallbacksMayFail = FALSE
    EarlyReturn = FALSE
    MaxRuns = 1
PROPERTY CancellingStopTerminates
\* A loop nobody stops waits for items, and a finished one does nothing.
CHECK_DEADLOCK FALSE
