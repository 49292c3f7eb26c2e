---------------------------- MODULE CancelRequest ----------------------------
(***************************************************************************)
(* The cancel request that waits in the preempt or in the stop controller  *)
(* (cancelRequestState, agentcore/agent_loop_config.go): callers of Push   *)
(* and Stop merge their options into it under the controller's lock, each  *)
(* at its own time, until a watcher takes it and turns it back into        *)
(* options for the agent's cancel function.                                *)
(*                                                                         *)
(* A mode is the set of safe points at which the agent may stop, and       *)
(* CancelImmediate, the zero of the bit mask, is the empty set.  Time is a *)
(* natural number; 0 stands for no timeout and for no deadline.  No option *)
(* constructor leaves the options of a request nil, so merge's early       *)
(* return for nil options does not happen.                                 *)
(***************************************************************************)
EXTENDS Integers

CONSTANTS
    Requests,    \* the options callers may pass
    MaxTime      \* bound: the last instant

SafePoints == {"chat", "tool"}
CancelImmediate == {}
CancelOptions == [mode : SUBSET SafePoints, recursive : BOOLEAN, timeout : Nat]

ASSUME RequestsAssumption == Requests \subseteq CancelOptions /\ MaxTime \in Nat

VARIABLES
    request,     \* the pending cancelRequestState, or NoRequest
    now,
    sent,        \* history: what the pending request was merged from
    taken,       \* the options the last watcher made of its request
    takenAt,     \* when it did
    answered     \* history: what that request had been merged from

requestVars == <<request, now, sent, taken, takenAt, answered>>

NoRequest == [mode |-> {}, recursive |-> FALSE, deadline |-> -1]

-----------------------------------------------------------------------------
\* Only a graceful request has a deadline.
newCancelRequestState(opts, t) ==
    [mode |-> opts.mode, recursive |-> opts.recursive,
     deadline |-> IF opts.timeout > 0 /\ opts.mode # CancelImmediate
                    THEN t + opts.timeout ELSE 0]

\* Mutant: the last deadline wins.
Earliest_Last(d, e) == IF e = 0 THEN d ELSE e

Earliest(d, e) == IF e # 0 /\ (d = 0 \/ e < d) THEN e ELSE d

\* cancelRequestState.merge
merge(s, opts, t) ==
    LET next == newCancelRequestState(opts, t)
        immediate == s.mode = CancelImmediate \/ next.mode = CancelImmediate
    IN  [mode |-> IF immediate THEN CancelImmediate ELSE s.mode \cup next.mode,
         recursive |-> s.recursive \/ next.recursive,
         deadline |-> IF immediate THEN 0 ELSE Earliest(s.deadline, next.deadline)]

\* Mutant: a deadline that has not passed yet counts as passed.
Expired_Early(s, t) == s.mode # CancelImmediate /\ s.deadline # 0

Expired(s, t) == s.mode # CancelImmediate /\ s.deadline # 0 /\ s.deadline <= t

\* cancelRequestState.cancelOptions: what is left of the time, or an immediate
\* cancel if nothing is.
cancelOptions(s, t) ==
    [mode |-> IF Expired(s, t) THEN CancelImmediate ELSE s.mode,
     recursive |-> s.recursive,
     timeout |-> IF s.mode = CancelImmediate \/ s.deadline = 0 \/ Expired(s, t)
                   THEN 0 ELSE s.deadline - t]

-----------------------------------------------------------------------------
RequestInit ==
    /\ request = NoRequest
    /\ now = 0
    /\ sent = {}
    /\ taken = [mode |-> {}, recursive |-> FALSE, timeout |-> 0]
    /\ takenAt = 0
    /\ answered = {}

\* The tail of requestPreempt and of requestStop.
Ask(opts) ==
    /\ request' = IF request = NoRequest THEN newCancelRequestState(opts, now)
                  ELSE merge(request, opts, now)
    /\ sent' = sent \cup {[opts |-> opts, at |-> now]}
    /\ UNCHANGED <<now, taken, takenAt, answered>>

\* receivePreempt or receiveCancel, and the watcher's use of the request.
Take ==
    /\ request # NoRequest
    /\ taken' = cancelOptions(request, now)
    /\ takenAt' = now
    /\ answered' = sent
    /\ request' = NoRequest
    /\ sent' = {}
    /\ UNCHANGED now

Tick ==
    /\ now < MaxTime
    /\ now' = now + 1
    /\ UNCHANGED <<request, sent, taken, takenAt, answered>>

RequestNext == Take \/ Tick \/ \E opts \in Requests : Ask(opts)

RequestSpec == RequestInit /\ [][RequestNext]_requestVars

-----------------------------------------------------------------------------
Deadline(r) == newCancelRequestState(r.opts, r.at).deadline

\* Merging weakens no request: the agent is told to stop at least as soon as
\* each caller asked.  An immediate request, or one whose time is over, makes
\* the whole immediate; otherwise each one's safe points are among those asked
\* for, and the time left ends no later than its deadline.
TakenHonoursAll ==
    \A r \in answered :
        /\ r.opts.recursive => taken.recursive
        /\ \/ taken.mode = CancelImmediate
           \/ /\ r.opts.mode # CancelImmediate
              /\ r.opts.mode \subseteq taken.mode
              /\ Deadline(r) # 0 => /\ taken.timeout > 0
                                    /\ takenAt + taken.timeout <= Deadline(r)

\* Merging invents nothing: an immediate cancel is due to a caller that asked
\* for one or whose time is over, every safe point and the recursion are what
\* some caller asked for, and the time left is that of a caller's deadline.
TakenInventsNothing ==
    answered # {} =>
        /\ taken.mode = CancelImmediate =>
             \E r \in answered : \/ r.opts.mode = CancelImmediate
                                 \/ Deadline(r) # 0 /\ Deadline(r) <= takenAt
        /\ \A p \in taken.mode : \E r \in answered : p \in r.opts.mode
        /\ taken.recursive => \E r \in answered : r.opts.recursive
        /\ taken.timeout > 0 =>
             \E r \in answered : takenAt + taken.timeout = Deadline(r)
==============================================================================
