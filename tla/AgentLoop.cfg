\* A cancelling or an idle stop and a delayed preempt race two turns.
SPECIFICATION Spec
CONSTANTS
    a = a
    b = b
    s1 = s1
    s2 = s2
    Items = {a, b}
    MaxTurns = 2
    PushModes <- SafeModes
    Stoppers = {s1}
    StopOptions <- EitherStop
    AgentOutcomes = {"ok", "cancel"}
    Persist = FALSE
    CtxMayEnd = FALSE
    CallbacksMayFail = FALSE
    EarlyReturn = FALSE
    MaxRuns = 1
INVARIANTS NoPanic PendingTargetsTurn AckHasOneHolder ItemsConserved PushReportsItem
\* A loop nobody stops waits for items, and a finished one does nothing.
CHECK_DEADLOCK FALSE
