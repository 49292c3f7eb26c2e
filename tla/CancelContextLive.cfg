SPECIFICATION LiveSpec
CONSTANTS
    root = root
    c1 = c1
    c2 = c2
    k1 = k1
    k2 = k2
    Root = root
    Children = {}
    Parent <- NoChild
    Callers = {k1, k2}
    CallOptions <- MixedCalls
    SubAgents = 2
    CtxMayEnd = TRUE
    MaxTime = 0
PROPERTIES TimeoutEscalates WaitsReturn
CHECK_DEADLOCK FALSE
