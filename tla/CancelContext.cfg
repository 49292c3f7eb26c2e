SPECIFICATION Spec
CONSTANTS
    root = root
    c1 = c1
    c2 = c2
    k1 = k1
    k2 = k2
    Root = root
    Children = {c1, c2}
    Parent <- Chain
    Callers = {k1, k2}
    CallOptions <- SafeCalls
    SubAgents = 2
    CtxMayEnd = FALSE
    MaxTime = 0
INVARIANTS ErrorCoversRequests HandledMeansError ShallowStays RecursiveReaches
CHECK_DEADLOCK FALSE
