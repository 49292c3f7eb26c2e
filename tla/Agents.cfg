\* RunStream with both callers; its channels fill up.
SPECIFICATION MCSpec
CONSTANTS
    Callers = {"drain", "sync"}
    MaxSteps = 5
    EventCap = 2
    OutputCap = 2
    CtxMayEnd = TRUE
    Requests <- MCRequests
    MaxTime = 2
    ReadOnly = {"r"}
    Writing = {"w"}
    Unknown = {"u"}
    ReturnDirectly = {"w"}
    Responses <- ToolCalls
    MaxIterations = 2
    maxConcurrency = 2
    MaxSame = 4
    MaxRuns = 2
    MaxRetries = 2
    Models = 2
    Chunks = 3
    Capacity = 2
INVARIANTS
    NoSendOnClosed StreamInOrder OutcomeIsTrue TakenHonoursAll TakenInventsNothing
    ToolCallsSound ConversationsSound ModelCallsSound
PROPERTY ExecutionEnds
\* Executions and runs end.
CHECK_DEADLOCK FALSE
