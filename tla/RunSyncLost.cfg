\* RunSync, with a context that nobody cancels.
SPECIFICATION Spec
CONSTANTS
    Callers = {"sync"}
    MaxSteps = 1
    EventCap = 2
    OutputCap = 2
    CtxMayEnd = FALSE
INVARIANT RunSyncReturnsState
\* An execution ends, and its caller with it.
CHECK_DEADLOCK FALSE
