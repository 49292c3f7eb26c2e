\* Liveness of preempting pushes; agents need not end.
SPECIFICATION CancelSpec
CONSTANTS
    a = a
    b = b
    s1 = s1
    s2 = s2
    Items = {a, b}
    MaxTurns = 2
    PushModes <- LiveModes
    Stoppers = {}
    StopOptions <- NoStop
    AgentOutcomes = {"ok", "cancel"}
    Persist = FALSE
    CtxMayEnd = FALSE
    CallbacksMayFail = FALSE
    EarlyReturn = FALSE
    MaxRuns = 1
PROPERTIES AckEventually EveryItemServed
\* A loop nobody stops waits for items, and a finished one does nothing.
CHECK_DEADLOCK FALSE
