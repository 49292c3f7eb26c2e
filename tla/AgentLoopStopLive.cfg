\* Liveness of every kind of stop; every agent ends.
SPECIFICATION CancelSpec
CONSTANTS
    a = a
    b = b
    s1 = s1
    s2 = s2
    Items = {a}
    MaxTurns = 1
    PushModes <- OneMode
    Stoppers = {s1, s2}
    StopOptions <- LiveStops
    AgentOutcomes = {"ok", "cancel"}
    Persist = FALSE
    CtxMayEnd = FALSE
    CallbacksMayFail = FALSE
    EarlyReturn = FALSE
    MaxRuns = 1
PROPERTIES StopTerminates StopPreventsNewTurns
\* A loop nobody stops waits for items, and a finished one does nothing.
CHECK_DEADLOCK FALSE
