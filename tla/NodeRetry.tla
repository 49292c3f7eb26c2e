------------------------------ MODULE NodeRetry ------------------------------
(***************************************************************************)
(* The retries of a node: RetryExecutor (graphengine/pregel/retry.go),     *)
(* MultiPolicyRetryExecutor (retry_multi.go) and TaskDecorator             *)
(* (graphengine/task/decorator.go), with the backoff of RetryPolicy        *)
(* (graphengine/types/types.go).  What the function returns is external.   *)
(***************************************************************************)
EXTENDS Integers, Sequences

CONSTANTS
    Word,           \* keywords an error may have
    NetworkWord,    \* those of RetryPredicates.NetworkErrors
    TemporaryWord,  \* those of RetryPredicates.TemporaryErrors
    Attempts,       \* values of MaxAttempts
    InitialInterval, MaxInterval,
    MaxPower,
    powFloat,       \* the powers 0 .. MaxPower of BackoffFactor, at least 1
    Wide            \* durations are below Wide; a larger one turns negative

\* A BackoffFactor of two.
Doubling == [n \in 0 .. 7 |-> 2 ^ n]

VARIABLES
    executor,       \* "single", "multi" or "task"
    policies,       \* a sequence; one policy unless executor = "multi"
    retryPc,        \* "call", "wait" or "done"
    inner,          \* multi: the attempts of the RetryExecutor it runs, 0: none
    policy,         \* multi: the policy that one has
    attempt,        \* the executor's own count
    retryCtx,       \* the context has ended
    backoff,        \* the last wait
    result,         \* the outcome
    calls,          \* history: how often the function was called
    last,           \* history: what it returned last
    fatal           \* history: an error that may not be retried was followed by a call

retryVars == <<executor, policies, retryPc, inner, policy, attempt, retryCtx,
               backoff, result, calls, last, fatal>>

-----------------------------------------------------------------------------
(* Errors and policies.                                                    *)

Errors == [word : Word, at : {"start", "inside"}]
NotError(word) == [word |-> word, at |-> "none"]

\* contains compares the first characters only.
contains(err, word) == err.word = word /\ err.at = "start"

Predicate == {"nil", "Network", "Temporary", "Never"}

RetryOn(on, err) ==
    CASE on = "nil" -> TRUE
      [] on = "Network" -> \E w \in NetworkWord : contains(err, w)
      [] on = "Temporary" -> \E w \in TemporaryWord : contains(err, w)
      [] on = "Never" -> FALSE

Policy == [MaxAttempts : Attempts, on : Predicate, Jitter : BOOLEAN]
NoPolicy == [MaxAttempts |-> 0, on |-> "Never", Jitter |-> FALSE]

\* Converted to a signed duration and capped.
Capped(n) ==
    LET raw == InitialInterval * powFloat[n - 1]
        duration == IF raw >= Wide THEN -Wide ELSE raw
    IN  IF duration > MaxInterval THEN MaxInterval ELSE duration

\* What is left when a random part, less than half, is taken off.
Shortened(d) == {d - j : j \in {k \in 0 .. d : k = 0 \/ 2 * k < d}}

\* The waits that are possible after n attempts.  The jitter leaves a negative
\* one negative; types.go makes it zero then, the decorator does not.
CalculateBackoff(p, n) ==
    LET d == Capped(n)
    IN  IF ~p.Jitter THEN {d}
        ELSE IF d >= 0 THEN Shortened(d)
        ELSE IF executor = "task" THEN {-w : w \in Shortened(-d)}
        ELSE {0}

\* The first policy for an error: its index, 0 for none.
findMatchingPolicy(err) ==
    LET matching == {i \in 1 .. Len(policies) : RetryOn(policies[i].on, err)}
    IN  IF matching = {} THEN 0 ELSE CHOOSE i \in matching : \A j \in matching : i <= j

RetryInit ==
    /\ executor \in {"single", "multi", "task"}
    /\ policies \in {<<p>> : p \in Policy} \cup
         IF executor = "multi" THEN {<<p, q>> : p \in Policy, q \in Policy} \cup {<<>>} ELSE {}
    /\ inner = 0 /\ policy = NoPolicy /\ attempt = 0
    /\ retryCtx = FALSE /\ backoff = 0 /\ calls = 0 /\ last = NotError("none") /\ fatal = FALSE
    /\ IF executor # "multi" /\ policies[1].MaxAttempts = 0
         THEN retryPc = "done" /\ result = [kind |-> "exhausted", attempts |-> 0]
         ELSE retryPc = "call" /\ result = [kind |-> "none", attempts |-> 0]

-----------------------------------------------------------------------------
(* The function returns.                                                   *)

Called(res) ==
    /\ calls' = calls + 1 /\ last' = res
    /\ fatal' = (fatal \/ (last \in Errors /\ policies # <<>> /\ ~RetryOn(policies[1].on, last)))

End(kind, n) ==
    /\ retryPc' = "done" /\ result' = [kind |-> kind, attempts |-> n]

Success ==
    /\ retryPc = "call" /\ Called(NotError("value")) /\ End("value", attempt)
    /\ UNCHANGED <<executor, policies, inner, policy, attempt, retryCtx,
                   backoff>>

\* One policy: the two loops are the same.
Failed(err) ==
    LET p == policies[1] IN
    /\ retryPc = "call" /\ Called(err)
    /\ attempt' = attempt + 1
    /\ IF ~RetryOn(p.on, err) THEN End("nonretryable", 0) /\ UNCHANGED backoff
       ELSE IF attempt' >= p.MaxAttempts THEN End("exhausted", p.MaxAttempts) /\ UNCHANGED backoff
       ELSE retryPc' = "wait" /\ backoff' \in CalculateBackoff(p, attempt') /\ UNCHANGED result
    /\ UNCHANGED <<executor, policies, inner, policy, retryCtx>>

Fails(err) == executor = "single" /\ Failed(err)
executeWithRetry(err) == executor = "task" /\ Failed(err)

\* Several: the executor's own call.  The rest goes to a RetryExecutor with
\* one attempt more than remain.
OuterFails(err) ==
    LET i == findMatchingPolicy(err) IN
    /\ retryPc = "call" /\ executor = "multi" /\ inner = 0 /\ Called(err)
    /\ IF policies = <<>> THEN End("error", 0) /\ UNCHANGED <<inner, policy,
                                                              attempt>>
       ELSE /\ attempt' = attempt + 1
            /\ IF i = 0 THEN End("nonretryable", 0) /\ UNCHANGED <<inner,
                                                                   policy>>
               ELSE IF attempt' >= policies[i].MaxAttempts
                      THEN End("exhausted", attempt') /\ UNCHANGED <<inner,
                                                                     policy>>
                      ELSE /\ inner' = 1 /\ UNCHANGED <<retryPc, result>>
                           /\ policy' = [policies[i] EXCEPT
                                           !.MaxAttempts = @ - attempt' + 1]
    /\ UNCHANGED <<executor, policies, retryCtx, backoff>>

\* The RetryExecutor is over without success, whatever it was: the loop goes on.
InnerOver ==
    /\ attempt' = attempt + policy.MaxAttempts - 1
    /\ inner' = 0 /\ policy' = NoPolicy
    /\ retryPc' = "call" /\ UNCHANGED result

InnerFails(err) ==
    /\ retryPc = "call" /\ executor = "multi" /\ inner > 0 /\ Called(err)
    /\ IF RetryOn(policy.on, err) /\ inner < policy.MaxAttempts
         THEN /\ retryPc' = "wait" /\ backoff' \in CalculateBackoff(policy, inner)
              /\ UNCHANGED <<result, attempt, inner, policy>>
         ELSE InnerOver /\ UNCHANGED backoff
    /\ UNCHANGED <<executor, policies, retryCtx>>

\* RetryExecutor recovers a panic of the function; the others do not.
Panics ==
    /\ retryPc = "call" /\ Called(NotError("panic"))
    /\ IF inner > 0 THEN InnerOver
       ELSE /\ End(IF executor = "single" THEN "recovered" ELSE "panic", 0)
            /\ UNCHANGED <<inner, policy, attempt>>
    /\ UNCHANGED <<executor, policies, retryCtx, backoff>>

-----------------------------------------------------------------------------
(* The wait.                                                               *)

\* Mutant: the count of the attempts begins again.
WaitEnds_FromStart ==
    /\ retryPc = "wait" /\ retryPc' = "call"
    /\ inner' = IF inner > 0 THEN inner + 1 ELSE 0
    /\ attempt' = IF last.at = "start" THEN attempt ELSE 0
    /\ UNCHANGED <<executor, policies, policy, retryCtx, backoff, result, calls,
                   last, fatal>>

WaitEnds ==
    /\ retryPc = "wait" /\ retryPc' = "call"
    /\ inner' = IF inner > 0 THEN inner + 1 ELSE 0
    /\ UNCHANGED <<executor, policies, policy, attempt, retryCtx, backoff,
                   result, calls, last, fatal>>

WaitCancelled ==
    /\ retryPc = "wait" /\ retryCtx
    /\ IF inner > 0 THEN InnerOver
       ELSE End("cancelled", 0) /\ UNCHANGED <<inner, policy, attempt>>
    /\ UNCHANGED <<executor, policies, retryCtx, backoff, calls, last, fatal>>

ContextEnds ==
    /\ ~retryCtx /\ retryPc # "done" /\ retryCtx' = TRUE
    /\ UNCHANGED <<executor, policies, retryPc, inner, policy, attempt, backoff,
                   result, calls, last, fatal>>

RetryNext ==
    \/ Success \/ Panics \/ WaitEnds \/ WaitCancelled \/ ContextEnds
    \/ \E err \in Errors : Fails(err) \/ executeWithRetry(err) \/ OuterFails(err) \/ InnerFails(err)

-----------------------------------------------------------------------------
(* Properties.                                                             *)

Allowed(i) == policies[i].MaxAttempts
Larger(a, b) == IF a > b THEN a ELSE b

\* The attempt that a wait follows.
Awaited == IF inner > 0 THEN inner ELSE attempt

\* One policy: the function is called no more often than it allows, every error
\* but the last may be retried, and the count in the error is the number of the
\* calls.  Several policies: the executor makes at most two calls more than
\* its limit, three with two policies.  No wait is longer than the policy's
\* maximum.  As long as the numbers fit, a wait is between half of the interval
\* of its attempt and all of it, and these intervals do not get shorter: a wait
\* is at least half of any before it.
RetriesAreBounded ==
    /\ executor # "multi" =>
         /\ calls <= Allowed(1)
         /\ ~fatal
         /\ result.kind = "exhausted" => result.attempts = calls
    /\ executor = "multi" /\ Len(policies) = 1 =>
         calls <= IF Allowed(1) <= 1 THEN 1 ELSE Allowed(1) + 2
    /\ executor = "multi" /\ Len(policies) = 2 =>
         calls <= Larger(1, Larger(Allowed(1), Allowed(2)) + 3)
    /\ result.kind = "value" => last.word = "value"
    /\ backoff <= MaxInterval
    /\ retryPc = "wait" /\ InitialInterval * powFloat[Awaited - 1] < Wide =>
         backoff <= Capped(Awaited) /\ Capped(Awaited) <= 2 * backoff
    /\ \A n \in 1 .. calls :
         InitialInterval * powFloat[n] < Wide => Capped(n) <= Capped(n + 1)

\* "MaxAttempts is the maximum number of attempts to make before giving up,
\* including the first": RetryPolicy, for every executor that has one.
AttemptsAsConfigured ==
    Len(policies) = 1 => calls <= Larger(1, Allowed(1))
==============================================================================
