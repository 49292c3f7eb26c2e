---------------------------- MODULE MCAgentLoop ----------------------------
(***************************************************************************)
(* Instances of AgentLoop for TLC: values for its option constants.        *)
(***************************************************************************)
EXTENDS AgentLoop, TLC

CONSTANTS a, b, s1, s2

Plain        == [strategy |-> FALSE, preempt |-> FALSE, delay |-> FALSE]
Preempt      == [Plain EXCEPT !.preempt = TRUE]
Delayed      == [Preempt EXCEPT !.delay = TRUE]
StratPlain   == [Plain EXCEPT !.strategy = TRUE]
StratPreempt == [Preempt EXCEPT !.strategy = TRUE]

BareStop    == [kind |-> "bare", idleFor |-> 1, skipCheckpoint |-> FALSE,
                timeout |-> FALSE]
CancelStop  == [BareStop EXCEPT !.kind = "cancel"]
IdleStop    == [BareStop EXCEPT !.kind = "idle"]
TimedIdle   == [IdleStop EXCEPT !.timeout = TRUE]
SkipStop    == [BareStop EXCEPT !.skipCheckpoint = TRUE]

\* The first item opens a turn; the second preempts, with a delay, at once or
\* from a strategy.
SafeModes == a :> {Plain} @@ b :> {Delayed}
LiveModes == a :> {Plain} @@ b :> {Preempt, StratPreempt, Delayed}
OneMode == a :> {Plain}
StratMode == a :> {StratPlain}
PlainModes == a :> {Plain} @@ b :> {Plain}

NoStop == [s \in {} |-> {}]
LiveStops == s1 :> {IdleStop} @@ s2 :> {CancelStop, TimedIdle, BareStop}
EitherStop == s1 :> {CancelStop, IdleStop}
OneCancel == s1 :> {CancelStop}
SaveStops == s1 :> {CancelStop, SkipStop}
CheckpointStops == s1 :> {CancelStop, SkipStop, BareStop}
============================================================================
