--------------------------- MODULE ComponentProofs ---------------------------
(***************************************************************************)
(* Proofs about components that MCServices takes together: of each, an     *)
(* inductive invariant, that it holds at first, that every step keeps it,  *)
(* and that the component's property follows from it.                      *)
(***************************************************************************)
EXTENDS AsyncExecutor, BackgroundExecutor, RuntimeValues, EventStreams, RemoteGraph,
        ChannelStreams, GraphStream, CheckpointManager, CheckpointSavers,
        PostgresSaver, MemoryStore, NodeRetry, NodeCache,
        FiniteSetTheorems, WellFoundedInduction, TLAPS

\* A counter of what is free and a finite set of holders add up to the same
\* after one element has joined or left the set.
LEMMA OneJoins ==
    ASSUME NEW S, NEW T, NEW x, IsFiniteSet(S), x \notin S, T = S \cup {x}
    PROVE  IsFiniteSet(T) /\ Cardinality(T) = Cardinality(S) + 1
  BY FS_AddElement
LEMMA OneLeaves ==
    ASSUME NEW S, NEW T, NEW x, IsFiniteSet(S), x \in S, T = S \ {x}
    PROVE  IsFiniteSet(T) /\ Cardinality(T) = Cardinality(S) - 1
  BY FS_RemoveElement

\* A set of numbers has a least one, and one between two numbers is finite.
LEMMA FirstOf ==
    ASSUME NEW I \in SUBSET Nat, I # {}
    PROVE  Min(I) \in I /\ \A i \in I : Min(I) <= i
<1>2. PICK m \in I : \A i \in I : <<i, m>> \notin OpToRel(<, Nat)
  BY NatLessThanWellFounded, WFMin
<1>3. \A i \in I : m <= i
  <2> SUFFICES ASSUME NEW i \in I PROVE m <= i
    OBVIOUS
  <2>1. i \in Nat /\ m \in Nat
    OBVIOUS
  <2>2. ~(i < m)
    BY <1>2, <2>1 DEF OpToRel
  <2> QED BY <2>1, <2>2
<1> QED BY <1>2, <1>3 DEF Min

LEMMA FiniteRange ==
    ASSUME NEW a \in Int, NEW b \in Int, NEW S \in SUBSET (a .. b) PROVE IsFiniteSet(S)
<1>1. IsFiniteSet(a .. b)
  BY FS_Interval
<1> QED BY <1>1, FS_Subset

-----------------------------------------------------------------------------
(* AsyncExecutor: the goroutine of a task says whether it has a slot, its  *)
(* result and its place among the active tasks.                            *)

AsyncConstants == IsFiniteSet(AsyncTask) /\ maxConcurrency \in Nat

AsyncTypeOK ==
    /\ form \in [AsyncTask -> {"none", "execute", "batch", "retry"}]
    /\ where \in [AsyncTask -> {"new", "waiting", "running", "sending", "deleting",
                                "releasing", "closing", "ended"}]
    /\ slots \in Int
    /\ activeTasks \subseteq AsyncTask /\ told \subseteq AsyncTask
    /\ asyncResults \in [AsyncTask -> Nat] /\ resultClosed \subseteq AsyncTask
    /\ ctxDone \in BOOLEAN
    /\ waiter \in [pc : {"idle", "poll", "nil", "error"}, for : SUBSET AsyncTask]

Sent(t) == \/ where[t] \in {"releasing", "closing", "ended"}
           \/ where[t] = "deleting" /\ form[t] = "batch"
Forgotten(t) == \/ where[t] \in {"releasing", "closing", "ended"}
                \/ where[t] = "sending" /\ form[t] # "batch"
SlotHolders ==
    {t \in AsyncTask : form[t] # "retry" /\
        where[t] \in {"running", "sending", "deleting", "releasing"}}

\* One task.
TaskInv(t) ==
    /\ form[t] = "none" <=> where[t] = "new"
    /\ where[t] = "waiting" => form[t] # "retry"
    /\ asyncResults[t] = IF Sent(t) THEN 1 ELSE 0
    /\ t \in resultClosed => where[t] = "ended"
    /\ where[t] \in {"waiting", "running"} => t \in activeTasks \cup told
    /\ t \in activeTasks => where[t] # "new" /\ (Forgotten(t) => ctxDone)
    /\ t \in waiter.for => where[t] # "new"
    /\ t \in waiter.for /\ waiter.pc = "nil" =>
         t \in told \/ where[t] \notin {"waiting", "running"}

AsyncTasksInv == AsyncTypeOK /\ \A t \in AsyncTask : TaskInv(t)
AsyncInv == AsyncTasksInv /\ slots + Cardinality(SlotHolders) = maxConcurrency

\* At first no task has a slot.
LEMMA AsyncInvInit == ASSUME AsyncConstants PROVE AsyncInit => AsyncInv
<1> SUFFICES ASSUME AsyncInit PROVE AsyncInv
  OBVIOUS
<1>1. AsyncTasksInv
  <2>1. AsyncTypeOK
    <3>1. waiter = [pc |-> "idle", for |-> {}] /\ {} \in SUBSET AsyncTask
      BY DEF AsyncInit
    <3>2. waiter \in [pc : {"idle", "poll", "nil", "error"}, for : SUBSET AsyncTask]
      BY <3>1
    <3>3. /\ form \in [AsyncTask -> {"none", "execute", "batch", "retry"}]
          /\ where \in [AsyncTask -> {"new", "waiting", "running", "sending", "deleting",
                                      "releasing", "closing", "ended"}]
          /\ asyncResults \in [AsyncTask -> Nat]
      BY DEF AsyncInit
    <3>4. slots \in Int
      <4>1. maxConcurrency \in Nat /\ slots = maxConcurrency
        BY DEF AsyncInit, AsyncConstants
      <4> QED BY <4>1
    <3>5. ctxDone \in BOOLEAN /\ activeTasks = {} /\ told = {} /\ resultClosed = {}
      BY DEF AsyncInit
    <3> QED BY <3>2, <3>3, <3>4, <3>5 DEF AsyncTypeOK
  <2>2. \A t \in AsyncTask : TaskInv(t)
    BY DEF AsyncInit, TaskInv, Sent, Forgotten
  <2> QED BY <2>1, <2>2 DEF AsyncTasksInv
<1>2. SlotHolders = {}
  BY DEF AsyncInit, SlotHolders
<1>3. Cardinality(SlotHolders) = 0
  BY <1>2, FS_EmptySet
<1> QED BY <1>1, <1>3 DEF AsyncInv, AsyncInit, AsyncConstants

\* Every step keeps what is known of each task.
LEMMA AsyncTasksNext == ASSUME AsyncConstants
                        PROVE  AsyncTasksInv /\ [AsyncNext]_asyncVars => AsyncTasksInv'
<1> SUFFICES ASSUME AsyncTasksInv, [AsyncNext]_asyncVars PROVE AsyncTasksInv'
  OBVIOUS
<1> USE DEF AsyncTasksInv, AsyncTypeOK, TaskInv, Sent, Forgotten
<1>1. ASSUME NEW S \in SUBSET AsyncTask, NEW f \in {"execute", "batch", "retry"},
             Start(S, f)
      PROVE  AsyncTasksInv'
  BY <1>1 DEF Start
<1>2. ASSUME NEW t \in AsyncTask, AcquireSlot(t) PROVE AsyncTasksInv'
  BY <1>2 DEF AcquireSlot, Move
<1>3. ASSUME NEW t \in AsyncTask, GiveUp(t) PROVE AsyncTasksInv'
  BY <1>3 DEF GiveUp, Move
<1>4. ASSUME NEW t \in AsyncTask, FuncReturns(t) PROVE AsyncTasksInv'
  BY <1>4 DEF FuncReturns, Move
<1>5. ASSUME NEW t \in AsyncTask, SendResult(t) PROVE AsyncTasksInv'
  BY <1>5 DEF SendResult, Move
<1>6. ASSUME NEW t \in AsyncTask, DeleteActive(t) PROVE AsyncTasksInv'
  BY <1>6 DEF DeleteActive, Move
<1>7. ASSUME NEW t \in AsyncTask, ReleaseSlot(t) PROVE AsyncTasksInv'
  BY <1>7 DEF ReleaseSlot, Move
<1>8. ASSUME NEW t \in AsyncTask, CloseResult(t) PROVE AsyncTasksInv'
  <2> DEFINE group == IF form[t] = "batch" THEN {u \in AsyncTask : form[u] = "batch"}
                                           ELSE {t}
  <2>1. /\ group \subseteq AsyncTask /\ \A u \in group : where[u] = "closing"
        /\ resultClosed' = resultClosed \cup group
        /\ where' = [u \in AsyncTask |-> IF u \in group THEN "ended" ELSE where[u]]
        /\ UNCHANGED <<form, slots, activeTasks, asyncResults, ctxDone, told, waiter>>
    BY <1>8 DEF CloseResult
  <2> HIDE DEF group
  <2>2. AsyncTypeOK'
    BY <2>1
  <2>3. \A u \in AsyncTask : TaskInv(u)'
    BY <2>1
  <2> QED BY <2>2, <2>3
<1>9. CASE EndOfContext \/ Cancel \/ UNCHANGED asyncVars
  BY <1>9 DEF EndOfContext, Cancel, asyncVars
<1>10. CASE Wait
  BY <1>10 DEF Wait
<1>11. CASE WaitReturns
  BY <1>11 DEF WaitReturns
<1> QED
  BY <1>1, <1>2, <1>3, <1>4, <1>5, <1>6, <1>7, <1>8, <1>9, <1>10, <1>11
     DEF AsyncNext, Execute, ExecuteBatch, ExecuteWithRetry

\* Every step keeps the number of slots: the pool's and the goroutines'.
LEMMA AsyncInvNext == ASSUME AsyncConstants
                      PROVE  AsyncInv /\ [AsyncNext]_asyncVars => AsyncInv'
<1> SUFFICES ASSUME AsyncInv, [AsyncNext]_asyncVars PROVE AsyncInv'
  OBVIOUS
<1>1. AsyncTasksInv'
  BY AsyncTasksNext DEF AsyncInv
<1>2. AsyncTypeOK /\ \A t \in AsyncTask : TaskInv(t)
  BY DEF AsyncInv, AsyncTasksInv
<1>3. /\ IsFiniteSet(SlotHolders) /\ Cardinality(SlotHolders) \in Nat
      /\ slots \in Int /\ slots + Cardinality(SlotHolders) = maxConcurrency
  <2>1. SlotHolders \subseteq AsyncTask
    BY DEF SlotHolders
  <2>2. IsFiniteSet(SlotHolders) /\ Cardinality(SlotHolders) \in Nat
    BY <2>1, FS_Subset, FS_CardinalityType DEF AsyncConstants
  <2> QED BY <1>2, <2>2 DEF AsyncInv, AsyncTypeOK
<1>4. CASE slots' = slots /\ SlotHolders' = SlotHolders
  BY <1>1, <1>3, <1>4 DEF AsyncInv
<1>5. CASE \E t \in SlotHolders : slots' = slots + 1 /\ SlotHolders' = SlotHolders \ {t}
  <2>1. Cardinality(SlotHolders') = Cardinality(SlotHolders) - 1
    BY <1>3, <1>5, OneLeaves
  <2> QED BY <1>1, <1>3, <1>5, <2>1 DEF AsyncInv
<1>6. CASE \E t \in AsyncTask \ SlotHolders :
              slots' = slots - 1 /\ SlotHolders' = SlotHolders \cup {t}
  <2>1. Cardinality(SlotHolders') = Cardinality(SlotHolders) + 1
    BY <1>3, <1>6, OneJoins
  <2> QED BY <1>1, <1>3, <1>6, <2>1 DEF AsyncInv
<1> USE <1>2 DEF AsyncTypeOK, SlotHolders
<1>7. ASSUME NEW S \in SUBSET AsyncTask, NEW f \in {"execute", "batch", "retry"},
             Start(S, f)
      PROVE  AsyncInv'
  <2>1. \A t \in AsyncTask : t \in SlotHolders' <=> t \in SlotHolders
    BY <1>7 DEF Start
  <2> QED BY <1>4, <1>7, <2>1 DEF Start
<1>8. ASSUME NEW t \in AsyncTask, AcquireSlot(t) PROVE AsyncInv'
  BY <1>6, <1>8 DEF AcquireSlot, Move, TaskInv
<1>9. ASSUME NEW t \in AsyncTask, GiveUp(t) \/ FuncReturns(t) \/ SendResult(t) \/ DeleteActive(t)
      PROVE  AsyncInv'
  BY <1>4, <1>9 DEF GiveUp, FuncReturns, SendResult, DeleteActive, Move
<1>10. ASSUME NEW t \in AsyncTask, ReleaseSlot(t) PROVE AsyncInv'
  BY <1>4, <1>5, <1>10 DEF ReleaseSlot, Move
<1>11. ASSUME NEW t \in AsyncTask, CloseResult(t) PROVE AsyncInv'
  BY <1>4, <1>11 DEF CloseResult
<1>12. CASE EndOfContext \/ Cancel \/ Wait \/ WaitReturns \/ UNCHANGED asyncVars
  BY <1>4, <1>12 DEF EndOfContext, Cancel, Wait, WaitReturns, asyncVars
<1> QED
  BY <1>7, <1>8, <1>9, <1>10, <1>11, <1>12
     DEF AsyncNext, Execute, ExecuteBatch, ExecuteWithRetry

\* What is known of the tasks gives the property.
LEMMA AsyncInvSound == AsyncInv => AsyncSound
  BY DEF AsyncInv, AsyncTasksInv, AsyncTypeOK, TaskInv, Sent, Forgotten,
         AsyncSound, SlotHolders

-----------------------------------------------------------------------------
(* The pipeline and the limiter.  What moved says is needed: a release      *)
(* after SetLimit gives its token to another channel.                      *)

LimiterConstants == IsFiniteSet(Caller) /\ Limit \subseteq Nat

PipelineTypeOK ==
    /\ pipelineRunning \in BOOLEAN /\ channelsClosed \in BOOLEAN
    /\ pipelinePanic \in BOOLEAN /\ starts \in Nat
LimiterTypeOK ==
    /\ tokens \in Seq(Int) /\ limitNow \in Nat /\ moved \in BOOLEAN
    /\ caller \in [Caller -> [pc : {"out", "waits", "in", "free"}, channel : Nat]]
    /\ \A c \in Caller : caller[c].pc \in {"waits", "in"} => caller[c].channel \in 1 .. Current

\* The channels are closed only by a Stop, and run again only after a start.
PipelineInv ==
    /\ PipelineTypeOK
    /\ pipelineRunning => starts >= 1
    /\ channelsClosed => starts >= 1 /\ (pipelineRunning => starts >= 2)
    /\ pipelinePanic => starts > 1

\* As long as no limit is set while a caller is in or waits, every caller has
\* the current channel, and its tokens and its holders are the limit.
LimiterCallers ==
    \A c \in Caller : /\ caller[c].pc \in {"waits", "in"} => caller[c].channel = Current
                      /\ caller[c].pc = "free" => Current = 0
LimiterInv ==
    /\ LimiterTypeOK
    /\ ~moved => LimiterCallers
    /\ ~moved /\ Current > 0 =>
         tokens[Current] >= 0 /\ tokens[Current] + Cardinality(Holders) = limitNow

LEMMA PipelineInvInit == PipelineInit => PipelineInv /\ LimiterInv
<1> SUFFICES ASSUME PipelineInit PROVE PipelineInv /\ LimiterInv
  OBVIOUS
<1>1. PipelineInv
  BY DEF PipelineInit, PipelineInv, PipelineTypeOK
<1>2. tokens = <<>> /\ Current = 0 /\ <<>> \in Seq(Int)
  BY DEF PipelineInit, Current
<1>3. LimiterTypeOK
  BY <1>2 DEF PipelineInit, LimiterTypeOK
<1>4. LimiterCallers
  BY <1>2 DEF PipelineInit, LimiterCallers
<1> QED BY <1>1, <1>2, <1>3, <1>4 DEF LimiterInv

LEMMA PipelineInvNext ==
    PipelineInv /\ [PipelineNext \/ LimiterNext]_<<pipelineVars, limiterVars>> => PipelineInv'
<1> SUFFICES ASSUME PipelineInv, [PipelineNext \/ LimiterNext]_<<pipelineVars, limiterVars>>
             PROVE  PipelineInv'
  OBVIOUS
<1>1. CASE PipelineStart
  BY <1>1 DEF PipelineStart, PipelineInv, PipelineTypeOK
<1>2. CASE PipelineStop
  <2>1. CASE channelsClosed
    BY <1>2, <2>1 DEF PipelineStop, PipelineInv, PipelineTypeOK
  <2>2. CASE ~channelsClosed
    BY <1>2, <2>2 DEF PipelineStop, PipelineInv, PipelineTypeOK
  <2> QED BY <2>1, <2>2
<1>3. CASE EmitEvent
  <2>1. CASE channelsClosed
    BY <1>3, <2>1 DEF EmitEvent, PipelineInv, PipelineTypeOK
  <2>2. CASE ~channelsClosed
    BY <1>3, <2>2 DEF EmitEvent, PipelineInv, PipelineTypeOK
  <2> QED BY <2>1, <2>2
<1>4. CASE Receive \/ UNCHANGED pipelineVars
  BY <1>4 DEF Receive, pipelineVars, PipelineInv, PipelineTypeOK
<1>5. LimiterNext => UNCHANGED pipelineVars
  BY DEF LimiterNext, SetLimit, AcquireLooks, AcquireTakes, Release
<1> QED BY <1>1, <1>2, <1>3, <1>4, <1>5 DEF PipelineNext

\* A limiter's step keeps the tokens and the holders together at the limit.
LEMMA LimiterInvNext ==
    ASSUME LimiterConstants
    PROVE  LimiterInv /\ [PipelineNext \/ LimiterNext]_<<pipelineVars, limiterVars>>
             => LimiterInv'
<1> SUFFICES ASSUME LimiterInv, [PipelineNext \/ LimiterNext]_<<pipelineVars, limiterVars>>
             PROVE  LimiterInv'
  OBVIOUS
<1>1. /\ LimiterTypeOK /\ tokens \in Seq(Int) /\ Current \in Nat /\ Current = Len(tokens)
      /\ \A i \in 1 .. Current : tokens[i] \in Int
  BY DEF LimiterInv, LimiterTypeOK, Current
<1>2. IsFiniteSet(Holders) /\ Cardinality(Holders) \in Nat
  <2>1. Holders \subseteq Caller
    BY DEF Holders
  <2> QED BY <2>1, FS_Subset, FS_CardinalityType DEF LimiterConstants
<1>3. CASE UNCHANGED limiterVars
  BY <1>3
    DEF LimiterInv, LimiterTypeOK, LimiterCallers, Current, Holders, limiterVars
<1>4. ASSUME NEW n \in Limit, SetLimit(n) PROVE LimiterInv'
  <2>1. /\ tokens' \in Seq(Int) /\ Current' = Current + 1 /\ tokens'[Current'] = n
        /\ n \in Nat /\ limitNow' = n /\ caller' = caller
    <3>1. n \in Nat /\ n \in Int /\ tokens' = Append(tokens, n)
      <4>1. n \in Nat
        BY DEF LimiterConstants
      <4>2. tokens' = Append(tokens, n)
        BY <1>4 DEF SetLimit
      <4> QED BY <4>1, <4>2
    <3>2. /\ tokens' \in Seq(Int) /\ Len(tokens') = Len(tokens) + 1
          /\ tokens'[Len(tokens) + 1] = n
      BY <1>1, <3>1
    <3> QED BY <1>4, <3>1, <3>2 DEF SetLimit, Current
  <2>2. LimiterTypeOK'
    BY <1>1, <1>4, <2>1 DEF SetLimit, LimiterTypeOK
  <2>3. ~moved' => (\A c \in Caller : caller'[c].pc = "out") /\ Holders' = {}
    BY <1>4, <2>1 DEF SetLimit, Holders
  <2>4. Cardinality({}) = 0
    BY FS_EmptySet
  <2>5. ~moved' => LimiterCallers'
    BY <2>3 DEF LimiterCallers
  <2>6. ASSUME ~moved'
        PROVE  tokens'[Current'] >= 0 /\ tokens'[Current'] + Cardinality(Holders') = limitNow'
    <3>1. Cardinality(Holders') = 0
      BY <2>3, <2>4, <2>6
    <3> QED BY <2>1, <3>1
  <2> QED BY <2>2, <2>5, <2>6 DEF LimiterInv
<1>5. ASSUME NEW c \in Caller, AcquireLooks(c) PROVE LimiterInv'
  <2>1. tokens' = tokens /\ Current' = Current /\ limitNow' = limitNow /\ moved' = moved
    BY <1>5 DEF AcquireLooks, Current
  <2>2. \A b \in Caller : b \in Holders' <=> b \in Holders
    BY <1>1, <1>5 DEF AcquireLooks, Holders, LimiterTypeOK
  <2>3. Holders' = Holders
    BY <2>2 DEF Holders
  <2>4. LimiterTypeOK'
    BY <1>1, <1>5, <2>1 DEF AcquireLooks, LimiterTypeOK
  <2>5. ~moved' => LimiterCallers'
    BY <1>1, <1>5, <2>1
      DEF AcquireLooks, LimiterTypeOK, LimiterInv, LimiterCallers
  <2> QED BY <2>1, <2>3, <2>4, <2>5 DEF LimiterInv
<1>6. ASSUME NEW c \in Caller, AcquireTakes(c) PROVE LimiterInv'
  <2> DEFINE ch == caller[c].channel
  <2>1. ch \in 1 .. Current /\ tokens[ch] \in Int
    BY <1>1, <1>6 DEF AcquireTakes, LimiterTypeOK
  <2>2. CASE tokens' = tokens /\ caller' = [caller EXCEPT ![c].pc = "out"]
    <3>1. Current' = Current /\ limitNow' = limitNow /\ moved' = moved
      BY <1>6, <2>2 DEF AcquireTakes, Current
    <3>2. \A b \in Caller : b \in Holders' <=> b \in Holders
      BY <1>1, <1>6, <2>2 DEF AcquireTakes, Holders, LimiterTypeOK
    <3>3. Holders' = Holders
      BY <3>2 DEF Holders
    <3>4. LimiterTypeOK'
      BY <1>1, <2>2, <3>1 DEF LimiterTypeOK
    <3>5. ~moved' => LimiterCallers'
      BY <1>1, <2>2, <3>1 DEF LimiterTypeOK, LimiterInv, LimiterCallers
    <3> QED BY <2>2, <3>1, <3>3, <3>4, <3>5 DEF LimiterInv
  <2>3. CASE /\ tokens[ch] > 0 /\ tokens' = [tokens EXCEPT ![ch] = @ - 1]
             /\ caller' = [caller EXCEPT ![c].pc = "in"]
    <3>1. /\ tokens' \in Seq(Int) /\ Current' = Current /\ tokens'[ch] = tokens[ch] - 1
          /\ limitNow' = limitNow /\ moved' = moved
      BY <1>1, <1>6, <2>1, <2>3 DEF AcquireTakes, Current
    <3>2. c \notin Holders /\ Holders' = Holders \cup {c}
      BY <1>1, <1>6, <2>3 DEF AcquireTakes, Holders, LimiterTypeOK
    <3>3. Cardinality(Holders') = Cardinality(Holders) + 1
      BY <1>2, <3>2, OneJoins
    <3>4. LimiterTypeOK'
      BY <1>1, <2>1, <2>3, <3>1 DEF LimiterTypeOK
    <3>5. ~moved' => LimiterCallers'
      BY <1>1, <1>6, <2>3, <3>1
        DEF LimiterTypeOK, LimiterInv, LimiterCallers, AcquireTakes
    <3>6. ~moved' => ch = Current
      BY <1>6, <3>1 DEF LimiterInv, LimiterCallers, AcquireTakes
    <3> HIDE DEF ch
    <3> QED BY <1>2, <2>1, <2>3, <3>1, <3>3, <3>4, <3>5, <3>6 DEF LimiterInv
  <2> QED BY <1>6, <2>2, <2>3 DEF AcquireTakes
<1>7. ASSUME NEW c \in Caller, Release(c) PROVE LimiterInv'
  <2>1. /\ Current' = Current /\ limitNow' = limitNow /\ tokens' \in Seq(Int)
        /\ caller' = [caller EXCEPT ![c].pc = "out"] /\ (moved => moved')
    <3>1. CASE tokens' = tokens
      BY <1>1, <1>7, <3>1 DEF Release, Current, LimiterTypeOK
    <3>2. CASE Current # 0 /\ tokens' = [tokens EXCEPT ![Current] = @ + 1]
      <4>1. tokens' \in Seq(Int) /\ Len(tokens') = Len(tokens)
        BY <1>1, <3>2
      <4> QED BY <1>1, <1>7, <4>1 DEF Release, Current, LimiterTypeOK
    <3> QED BY <1>7, <3>1, <3>2 DEF Release
  <2>2. LimiterTypeOK'
    <3>1. moved' \in BOOLEAN
      BY <1>1, <1>7 DEF Release, LimiterTypeOK
    <3> QED BY <1>1, <2>1, <3>1 DEF LimiterTypeOK
  <2>3. ~moved' => LimiterCallers'
    BY <1>1, <1>7, <2>1 DEF LimiterTypeOK, LimiterInv, LimiterCallers
  <2>4. ASSUME ~moved', Current > 0
        PROVE  tokens'[Current] >= 0 /\ tokens'[Current] + Cardinality(Holders') = limitNow
    <3>1. /\ caller[c].pc = "in" /\ tokens[Current] \in Int /\ tokens[Current] >= 0
          /\ tokens[Current] + Cardinality(Holders) = limitNow
      <4>1. moved' = (moved \/ (caller[c].pc = "free" /\ Current # 0))
        BY <1>7 DEF Release
      <4>2. ~moved /\ ~(caller[c].pc = "free" /\ Current # 0)
        BY <2>4, <4>1
      <4>3. Current # 0
        BY <1>1, <2>4
      <4>4. caller[c].pc = "in"
        BY <1>7, <4>2, <4>3 DEF Release
      <4>5. Current \in 1 .. Current
        BY <1>1, <2>4
      <4> QED BY <1>1, <2>4, <4>2, <4>4, <4>5 DEF LimiterInv
    <3>2. c \in Holders /\ Holders' = Holders \ {c}
      BY <1>1, <2>1, <3>1 DEF Holders, LimiterTypeOK
    <3>3. Cardinality(Holders') = Cardinality(Holders) - 1 /\ Cardinality(Holders') \in Nat
      <4>1. IsFiniteSet(Holders') /\ Cardinality(Holders') = Cardinality(Holders) - 1
        BY <1>2, <3>2, OneLeaves
      <4> QED BY <4>1, FS_CardinalityType
    <3>4. tokens[Current] < limitNow
      BY <1>1, <1>2, <3>1, <3>3
    <3>5. tokens'[Current] = tokens[Current] + 1
      BY <1>1, <1>7, <2>4, <3>4 DEF Release
    <3> QED BY <1>2, <3>1, <3>3, <3>5
  <2> QED BY <2>1, <2>2, <2>3, <2>4 DEF LimiterInv
<1>8. CASE PipelineNext
  BY <1>3, <1>8
    DEF PipelineNext, PipelineStart, PipelineStop, EmitEvent, Receive
<1> QED
  BY <1>3, <1>4, <1>5, <1>6, <1>7, <1>8 DEF LimiterNext

LEMMA PipelineInvSound ==
    ASSUME LimiterConstants PROVE PipelineInv /\ LimiterInv => PipelineSound
<1> SUFFICES ASSUME PipelineInv, LimiterInv PROVE PipelineSound
  OBVIOUS
<1>1. ASSUME ~moved PROVE {c \in Holders : caller[c].channel = Current} = Holders
  BY <1>1 DEF LimiterInv, LimiterCallers, Holders
<1>2. Cardinality(Holders) \in Nat
  <2>1. Holders \subseteq Caller
    BY DEF Holders
  <2> QED BY <2>1, FS_Subset, FS_CardinalityType DEF LimiterConstants
<1>3. ASSUME Current > 0 PROVE tokens[Current] \in Int /\ limitNow \in Nat
  BY <1>3 DEF LimiterInv, LimiterTypeOK, Current
<1>4. ASSUME ~moved, Current > 0
      PROVE  /\ tokens[Current] + Cardinality(Holders) = limitNow
             /\ Cardinality(Holders) <= limitNow
  <2>1. tokens[Current] >= 0 /\ tokens[Current] + Cardinality(Holders) = limitNow
    BY <1>4 DEF LimiterInv
  <2> QED BY <1>2, <1>3, <1>4, <2>1
<1> QED BY <1>1, <1>4 DEF PipelineSound, PipelineInv

-----------------------------------------------------------------------------
(* BackgroundExecutor: an accepted task is in the queue once, or with one  *)
(* worker, or was executed.                                                *)

BgTypeOK ==
    /\ taskQueue \in Seq(BgTask)
    /\ submit \in [BgTask -> {"new", "send", "accepted", "refused"}]
    /\ worker \in [Worker -> [pc : {"idle", "ended", "execute", "own", "global"},
                              task : BgTask \cup {"none"}]]
    /\ taskResult \in [BgTask -> Nat] /\ executed \in [BgTask -> Nat]
    /\ \A w \in Worker : worker[w].pc \in {"execute", "own"} => worker[w].task \in BgTask

\* What is in the queue.
QueueInv ==
    \A i \in 1 .. Len(taskQueue) :
        /\ submit[taskQueue[i]] = "accepted" /\ executed[taskQueue[i]] = 0
        /\ \A j \in 1 .. Len(taskQueue) : taskQueue[i] = taskQueue[j] => i = j
        /\ \A w \in Worker : worker[w] # [pc |-> "execute", task |-> taskQueue[i]]

\* What the workers have in their hands.
WorkersInv ==
    \A w \in Worker :
        /\ worker[w].pc = "execute" =>
             submit[worker[w].task] = "accepted" /\ executed[worker[w].task] = 0
        /\ worker[w].pc = "own" =>
             executed[worker[w].task] = 1 /\ taskResult[worker[w].task] = 0
        /\ worker[w].pc \in {"execute", "own"} =>
             \A x \in Worker : worker[x] = worker[w] => x = w

BgTaskInv(t) ==
    /\ executed[t] <= 1 /\ taskResult[t] <= executed[t]
    /\ executed[t] = 1 => submit[t] = "accepted"
    /\ submit[t] = "accepted" /\ executed[t] = 0 =>
         \/ \E i \in 1 .. Len(taskQueue) : taskQueue[i] = t
         \/ \E w \in Worker : worker[w] = [pc |-> "execute", task |-> t]
ActiveInv == bgActive = {t \in BgTask : submit[t] # "new" /\ executed[t] = 0}

BgInv == BgTypeOK /\ QueueInv /\ WorkersInv /\ (\A t \in BgTask : BgTaskInv(t)) /\ ActiveInv

LEMMA BgInvInit == BgInit => BgInv
<1> SUFFICES ASSUME BgInit PROVE BgInv
  OBVIOUS
<1>1. taskQueue = <<>> /\ <<>> \in Seq(BgTask) /\ Len(taskQueue) = 0
  BY DEF BgInit
<1>2. /\ worker = [w \in Worker |-> [pc |-> "ended", task |-> "none"]]
  BY DEF BgInit, Idle
<1>3. BgTypeOK
  BY <1>1, <1>2 DEF BgInit, BgTypeOK
<1> QED
  BY <1>1, <1>2, <1>3
    DEF BgInit, BgInv, QueueInv, WorkersInv, BgTaskInv, ActiveInv

\* A task is active from its Submit until it has been executed.
LEMMA ActiveNext == BgInv /\ [BgNext \/ HeapNext]_<<bgVars, heapVars>> => ActiveInv'
<1> SUFFICES ASSUME BgInv, [BgNext \/ HeapNext]_<<bgVars, heapVars>> PROVE ActiveInv'
  OBVIOUS
<1>0. BgTypeOK /\ WorkersInv /\ ActiveInv /\ \A t \in BgTask : BgTaskInv(t)
  BY DEF BgInv
<1>1. CASE UNCHANGED <<bgActive, submit, executed>>
  BY <1>0, <1>1 DEF ActiveInv
<1>2. ASSUME NEW t \in BgTask, SubmitLooks(t) PROVE ActiveInv'
  <2>1. /\ bgActive' = bgActive \cup {t} /\ executed' = executed /\ submit[t] = "new"
        /\ submit' = [submit EXCEPT ![t] = "send"]
    BY <1>2 DEF SubmitLooks
  <2>2. executed[t] = 0
    <3>1. executed[t] \in Nat
      BY <1>0 DEF BgTypeOK
    <3>2. executed[t] <= 1 /\ executed[t] # 1
      BY <1>0, <2>1 DEF BgTaskInv
    <3> QED BY <3>1, <3>2
  <2> QED BY <1>0, <2>1, <2>2 DEF ActiveInv, BgTypeOK
<1>3. ASSUME NEW t \in BgTask, SubmitSends(t) \/ SubmitFails(t) PROVE ActiveInv'
  <2>1. /\ UNCHANGED <<bgActive, executed>> /\ submit[t] = "send"
        /\ submit' = submit \/ \E s \in {"accepted", "refused"} : submit' = [submit EXCEPT ![t] = s]
    BY <1>3 DEF SubmitSends, SubmitFails
  <2>2. \A u \in BgTask : submit'[u] # "new" <=> submit[u] # "new"
    BY <1>0, <2>1 DEF BgTypeOK
  <2> QED BY <1>0, <2>1, <2>2 DEF ActiveInv
<1>4. ASSUME NEW w \in Worker, executeTask(w) PROVE ActiveInv'
  <2>1. PICK t : t = worker[w].task
    OBVIOUS
  <2>2. /\ bgActive' = bgActive \ {t} /\ submit' = submit /\ worker[w].pc = "execute"
        /\ executed' = [executed EXCEPT ![t] = @ + 1]
    BY <1>4, <2>1 DEF executeTask, At
  <2>3. t \in BgTask /\ executed[t] = 0 /\ executed \in [BgTask -> Nat]
    BY <1>0, <2>1, <2>2 DEF WorkersInv, BgTypeOK
  <2> QED BY <1>0, <2>2, <2>3 DEF ActiveInv
<1>5. CASE HeapNext
  BY <1>1, <1>5 DEF HeapNext, Pop, Push, bgVars
<1> QED
  BY <1>1, <1>2, <1>3, <1>4, <1>5
     DEF BgNext, bgVars, StartWorkers, StopBegins, StopCloses, ReadGlobal,
         TakeTask, WorkerEnds, SendOwnResult, SendGlobalResult

\* Every step keeps what is known of the queue, the workers and the tasks.
LEMMA BgInvNext == BgInv /\ [BgNext \/ HeapNext]_<<bgVars, heapVars>> => BgInv'
<1> SUFFICES ASSUME BgInv, [BgNext \/ HeapNext]_<<bgVars, heapVars>> PROVE BgInv'
  OBVIOUS
<1> DEFINE TasksInv == \A t \in BgTask : BgTaskInv(t)
<1>0. ActiveInv' /\ BgTypeOK /\ QueueInv /\ WorkersInv /\ TasksInv
  BY ActiveNext DEF BgInv
<1>q. Len(taskQueue) \in Nat /\ \A i \in 1 .. Len(taskQueue) : taskQueue[i] \in BgTask
  BY <1>0 DEF BgTypeOK
<1>1. CASE UNCHANGED <<taskQueue, submit, worker, taskResult, executed>>
  <2>1. BgTypeOK'
    BY <1>0, <1>1 DEF BgTypeOK
  <2>2. QueueInv' /\ WorkersInv'
    BY <1>0, <1>1 DEF QueueInv, WorkersInv
  <2>3. TasksInv'
    BY <1>0, <1>1 DEF BgTaskInv
  <2> QED BY <1>0, <2>1, <2>2, <2>3 DEF BgInv
<1>2. ASSUME \* workers that were idle or ended
             \A w \in Worker :
               \/ worker'[w] = worker[w]
               \/ worker[w].pc # "execute" /\ worker'[w].pc \in {"idle", "ended", "global"},
             worker' \in [Worker -> [pc : {"idle", "ended", "execute", "own", "global"},
                                     task : BgTask \cup {"none"}]],
             UNCHANGED <<taskQueue, submit, taskResult, executed>>
      PROVE  BgInv'
  <2>1. BgTypeOK'
    BY <1>0, <1>2 DEF BgTypeOK
  <2>2. \A w \in Worker : worker'[w].pc \in {"execute", "own"} => worker'[w] = worker[w]
    BY <1>2
  <2>3. QueueInv'
    <3>1. ASSUME NEW w \in Worker, NEW u, worker'[w] = [pc |-> "execute", task |-> u]
          PROVE  worker[w] = [pc |-> "execute", task |-> u]
      BY <1>2, <3>1
    <3>2. /\ taskQueue' = taskQueue /\ submit' = submit /\ executed' = executed
          /\ \A i \in 1 .. Len(taskQueue), w \in Worker :
               worker'[w] # [pc |-> "execute", task |-> taskQueue[i]]
      <4> SUFFICES ASSUME NEW i \in 1 .. Len(taskQueue), NEW w \in Worker,
                          worker'[w] = [pc |-> "execute", task |-> taskQueue[i]]
                   PROVE  FALSE
        BY <1>2
      <4>1. worker[w] = [pc |-> "execute", task |-> taskQueue[i]]
        BY <3>1
      <4> QED BY <1>0, <4>1 DEF QueueInv
    <3> QED BY <1>0, <3>2 DEF QueueInv
  <2>4. WorkersInv'
    BY <1>0, <1>2, <2>2 DEF WorkersInv
  <2>5. TasksInv'
    BY <1>0, <1>2 DEF BgTaskInv
  <2> QED BY <1>0, <2>1, <2>3, <2>4, <2>5 DEF BgInv
<1>3. CASE StartWorkers
  <2>1. /\ worker' = [w \in Worker |-> IF worker[w].pc = "ended"
                                         THEN [pc |-> "idle", task |-> "none"] ELSE worker[w]]
        /\ UNCHANGED <<taskQueue, submit, taskResult, executed>>
    BY <1>3 DEF StartWorkers, Idle
  <2>2. worker' \in [Worker -> [pc : {"idle", "ended", "execute", "own", "global"},
                                task : BgTask \cup {"none"}]]
    BY <1>0, <2>1 DEF BgTypeOK
  <2>3. \A w \in Worker :
          \/ worker'[w] = worker[w]
          \/ worker[w].pc # "execute" /\ worker'[w].pc \in {"idle", "ended", "global"}
    BY <2>1
  <2> QED BY <1>2, <2>1, <2>2, <2>3
<1>4. ASSUME NEW t \in BgTask, SubmitLooks(t) \/ SubmitFails(t) PROVE BgInv'
  <2>1. /\ UNCHANGED <<taskQueue, worker, taskResult, executed>>
        /\ submit[t] # "accepted"
        /\ \E s \in {"send", "refused"} : submit' = [submit EXCEPT ![t] = s]
    BY <1>4 DEF SubmitLooks, SubmitFails
  <2>2. \A u \in BgTask : submit'[u] = "accepted" <=> submit[u] = "accepted"
    BY <1>0, <2>1 DEF BgTypeOK
  <2>3. BgTypeOK'
    BY <1>0, <2>1 DEF BgTypeOK
  <2>4. QueueInv'
    BY <1>0, <1>q, <2>1, <2>2 DEF QueueInv
  <2>5. WorkersInv'
    BY <1>0, <2>1, <2>2 DEF WorkersInv, BgTypeOK
  <2>6. TasksInv'
    BY <1>0, <2>1, <2>2 DEF BgTaskInv
  <2> QED BY <1>0, <2>3, <2>4, <2>5, <2>6 DEF BgInv
<1>5. ASSUME NEW t \in BgTask, SubmitSends(t), ~queuesClosed PROVE BgInv'
  <2>1. /\ UNCHANGED <<worker, taskResult, executed>> /\ submit[t] = "send"
        /\ submit' = [submit EXCEPT ![t] = "accepted"]
        /\ taskQueue' = Append(taskQueue, t)
    BY <1>5 DEF SubmitSends
  <2>2. /\ taskQueue' \in Seq(BgTask) /\ Len(taskQueue') = Len(taskQueue) + 1
        /\ \A i \in 1 .. Len(taskQueue) : taskQueue'[i] = taskQueue[i]
        /\ taskQueue'[Len(taskQueue) + 1] = t
    BY <1>0, <2>1 DEF BgTypeOK
  <2>3. executed[t] = 0 /\ \A i \in 1 .. Len(taskQueue) : taskQueue[i] # t
    <3>1. executed[t] \in Nat /\ executed[t] <= 1 /\ executed[t] # 1
      BY <1>0, <2>1 DEF BgTaskInv, BgTypeOK
    <3>2. \A i \in 1 .. Len(taskQueue) : taskQueue[i] # t
      BY <1>0, <2>1 DEF QueueInv
    <3> QED BY <3>1, <3>2
  <2>4. \A w \in Worker : worker[w].pc \in {"execute", "own"} => worker[w].task # t
    BY <1>0, <2>1, <2>3 DEF WorkersInv
  <2>5. BgTypeOK'
    BY <1>0, <2>1, <2>2 DEF BgTypeOK
  <2>6. QueueInv'
    <3> SUFFICES ASSUME NEW i \in 1 .. Len(taskQueue')
                 PROVE  /\ submit'[taskQueue'[i]] = "accepted" /\ executed'[taskQueue'[i]] = 0
                        /\ \A j \in 1 .. Len(taskQueue') : taskQueue'[i] = taskQueue'[j] => i = j
                        /\ \A w \in Worker :
                             worker'[w] # [pc |-> "execute", task |-> taskQueue'[i]]
      BY DEF QueueInv
    <3>1. i \in 1 .. Len(taskQueue) \/ i = Len(taskQueue) + 1
      BY <1>q, <2>2
    <3>2. \A j \in 1 .. Len(taskQueue') :
             j \in 1 .. Len(taskQueue) \/ j = Len(taskQueue) + 1
      BY <1>q, <2>2
    <3>3. CASE i \in 1 .. Len(taskQueue)
      BY <1>0, <1>q, <2>1, <2>2, <2>3, <3>2, <3>3 DEF QueueInv, BgTypeOK
    <3>4. CASE i = Len(taskQueue) + 1
      <4>1. taskQueue'[i] = t
        BY <2>2, <3>4
      <4>2. \A j \in 1 .. Len(taskQueue') : t = taskQueue'[j] => i = j
        BY <2>2, <2>3, <3>2, <3>4
      <4>3. \A w \in Worker : worker'[w] # [pc |-> "execute", task |-> t]
        BY <2>1, <2>4
      <4>4. submit'[t] = "accepted" /\ executed'[t] = 0
        BY <1>0, <2>1, <2>3 DEF BgTypeOK
      <4> QED BY <4>1, <4>2, <4>3, <4>4
    <3> QED BY <3>1, <3>3, <3>4
  <2>7. WorkersInv'
    BY <1>0, <2>1 DEF WorkersInv, BgTypeOK
  <2>8. TasksInv'
    <3>1. \A i \in 1 .. Len(taskQueue) : i \in 1 .. Len(taskQueue')
      BY <1>q, <2>2
    <3>2. Len(taskQueue) + 1 \in 1 .. Len(taskQueue')
      BY <1>q, <2>2
    <3> QED BY <1>0, <2>1, <2>2, <2>3, <3>1, <3>2, SMTT(20) DEF BgTaskInv, BgTypeOK
  <2> QED BY <1>0, <2>5, <2>6, <2>7, <2>8 DEF BgInv
<1>6. ASSUME NEW w \in Worker, TakeTask(w) PROVE BgInv'
  <2> DEFINE t == taskQueue[1]
             n == Len(taskQueue)
  <2>1. /\ UNCHANGED <<submit, taskResult, executed>> /\ worker[w].pc = "idle"
        /\ worker' = [worker EXCEPT ![w] = [pc |-> "execute", task |-> t]]
        /\ taskQueue' = Tail(taskQueue) /\ taskQueue # <<>>
    BY <1>0, <1>6 DEF TakeTask, At, BgTypeOK
  <2>2. /\ n >= 1 /\ t \in BgTask /\ 1 \in 1 .. n
        /\ taskQueue' \in Seq(BgTask) /\ Len(taskQueue') = n - 1
        /\ \A i \in 1 .. n - 1 : taskQueue'[i] = taskQueue[i + 1]
    BY <1>0, <2>1 DEF BgTypeOK
  <2>3. \A i \in 1 .. Len(taskQueue') : i + 1 \in 1 .. n /\ taskQueue'[i] = taskQueue[i + 1]
    BY <1>q, <2>2
  <2>4. \A i \in 1 .. Len(taskQueue') : taskQueue'[i] # t
    <3> SUFFICES ASSUME NEW i \in 1 .. Len(taskQueue'), taskQueue[i + 1] = t PROVE FALSE
      BY <2>3
    <3>1. i + 1 # 1 /\ i + 1 \in 1 .. n
      BY <1>q, <2>2, <2>3
    <3> QED BY <1>0, <2>2, <3>1 DEF QueueInv
  <2>5. submit[t] = "accepted" /\ executed[t] = 0 /\ \A x \in Worker :
             worker[x] # [pc |-> "execute", task |-> t]
    BY <1>0, <2>2 DEF QueueInv
  <2> HIDE DEF t, n
  <2>6. BgTypeOK'
    BY <1>0, <2>1, <2>2 DEF BgTypeOK
  <2>7. QueueInv'
    BY <1>0, <1>q, <2>1, <2>3, <2>4 DEF QueueInv, n, BgTypeOK
  <2>8. WorkersInv'
    BY <1>0, <2>1, <2>2, <2>5 DEF WorkersInv, BgTypeOK
  <2>9. TasksInv'
    <3> SUFFICES ASSUME NEW u \in BgTask PROVE BgTaskInv(u)'
      OBVIOUS
    <3>1. CASE u = t
      BY <1>0, <2>1, <2>5, <3>1 DEF BgTaskInv, BgTypeOK
    <3>2. CASE u # t
      <4>1. ASSUME NEW i \in 1 .. Len(taskQueue), taskQueue[i] = u
            PROVE  \E j \in 1 .. Len(taskQueue') : taskQueue'[j] = u
        <5>1. i # 1
          BY <3>2, <4>1 DEF t
        <5>2. i - 1 \in 1 .. Len(taskQueue') /\ taskQueue'[i - 1] = u
          BY <1>q, <2>2, <2>3, <4>1, <5>1 DEF n
        <5> QED BY <5>2
      <4>2. ASSUME NEW x \in Worker, worker[x] = [pc |-> "execute", task |-> u]
            PROVE  worker'[x] = [pc |-> "execute", task |-> u]
        BY <1>0, <2>1, <4>2 DEF BgTypeOK
      <4> QED BY <1>0, <2>1, <4>1, <4>2 DEF BgTaskInv
    <3> QED BY <3>1, <3>2
  <2> QED BY <1>0, <2>6, <2>7, <2>8, <2>9 DEF BgInv
<1>7. ASSUME NEW w \in Worker, WorkerEnds(w) \/ SendGlobalResult(w) PROVE BgInv'
  <2>1. /\ UNCHANGED <<taskQueue, submit, taskResult, executed>>
        /\ worker[w].pc \in {"idle", "global"}
        /\ \E pc \in {"idle", "ended"} :
             worker' = [worker EXCEPT ![w] = [pc |-> pc, task |-> "none"]]
    BY <1>7 DEF WorkerEnds, SendGlobalResult, At, Idle
  <2>2. worker' \in [Worker -> [pc : {"idle", "ended", "execute", "own", "global"},
                                task : BgTask \cup {"none"}]]
    BY <1>0, <2>1 DEF BgTypeOK
  <2>3. \A x \in Worker :
          \/ worker'[x] = worker[x]
          \/ worker[x].pc # "execute" /\ worker'[x].pc \in {"idle", "ended", "global"}
    BY <1>0, <2>1 DEF BgTypeOK
  <2> QED BY <1>2, <2>1, <2>2, <2>3
<1>8. ASSUME NEW w \in Worker, executeTask(w) PROVE BgInv'
  <2> DEFINE t == worker[w].task
  <2>1. /\ UNCHANGED <<taskQueue, submit, taskResult>> /\ worker[w].pc = "execute"
        /\ worker' = [worker EXCEPT ![w].pc = "own"] /\ t \in BgTask
        /\ executed' = [executed EXCEPT ![t] = @ + 1]
    BY <1>0, <1>8 DEF executeTask, At, WorkerGoes, BgTypeOK
  <2>2. /\ worker[w] = [pc |-> "execute", task |-> t]
        /\ worker'[w] = [pc |-> "own", task |-> t]
        /\ \A x \in Worker \ {w} : worker'[x] = worker[x]
    BY <1>0, <2>1 DEF BgTypeOK
  <2>3. /\ submit[t] = "accepted" /\ executed[t] = 0 /\ executed'[t] = 1
        /\ taskResult[t] = 0
        /\ \A u \in BgTask \ {t} : executed'[u] = executed[u]
        /\ \A x \in Worker : worker[x] = worker[w] => x = w
    BY <1>0, <2>1 DEF WorkersInv, BgTypeOK, BgTaskInv
  <2>4. /\ \A i \in 1 .. Len(taskQueue) : taskQueue[i] # t
        /\ \A x \in Worker \ {w} : worker[x].pc \in {"execute", "own"} => worker[x].task # t
    <3>1. \A i \in 1 .. Len(taskQueue) : taskQueue[i] # t
      BY <1>0, <2>2 DEF QueueInv
    <3>2. ASSUME NEW x \in Worker, worker[x].pc = "execute", worker[x].task = t
          PROVE  x = w
      BY <1>0, <2>2, <2>3, <3>2 DEF BgTypeOK
    <3>3. ASSUME NEW x \in Worker, worker[x].pc = "own", worker[x].task = t
          PROVE  FALSE
      BY <1>0, <2>3, <3>3 DEF WorkersInv
    <3> QED BY <3>1, <3>2, <3>3
  <2> HIDE DEF t
  <2>5. BgTypeOK'
    <3>1. worker' \in [Worker -> [pc : {"idle", "ended", "execute", "own", "global"},
                                  task : BgTask \cup {"none"}]]
      BY <1>0, <2>1 DEF BgTypeOK
    <3>2. executed' \in [BgTask -> Nat]
      BY <1>0, <2>1 DEF BgTypeOK
    <3>3. \A x \in Worker : worker'[x].pc \in {"execute", "own"} => worker'[x].task \in BgTask
      BY <1>0, <2>1, <2>2 DEF BgTypeOK
    <3> QED BY <1>0, <2>1, <3>1, <3>2, <3>3 DEF BgTypeOK
  <2>6. QueueInv'
    BY <1>0, <1>q, <2>1, <2>2, <2>3, <2>4 DEF QueueInv
  <2>7. WorkersInv'
    BY <1>0, <2>1, <2>2, <2>3, <2>4 DEF WorkersInv, BgTypeOK
  <2>8. TasksInv'
    BY <1>0, <2>1, <2>2, <2>3 DEF BgTaskInv
  <2> QED BY <1>0, <2>5, <2>6, <2>7, <2>8 DEF BgInv
<1>9. ASSUME NEW w \in Worker, SendOwnResult(w) PROVE BgInv'
  <2> DEFINE t == worker[w].task
  <2>1. /\ UNCHANGED <<taskQueue, submit, executed>> /\ worker[w].pc = "own"
        /\ worker' = [worker EXCEPT ![w].pc = "global"] /\ t \in BgTask
        /\ taskResult' = [taskResult EXCEPT ![t] = @ + 1]
    BY <1>0, <1>9 DEF SendOwnResult, At, WorkerGoes, BgTypeOK
  <2>2. /\ worker'[w].pc = "global" /\ worker[w] = [pc |-> "own", task |-> t]
        /\ \A x \in Worker \ {w} : worker'[x] = worker[x]
    BY <1>0, <2>1 DEF BgTypeOK
  <2>3. /\ executed[t] = 1 /\ taskResult[t] = 0 /\ taskResult'[t] = 1
        /\ \A u \in BgTask \ {t} : taskResult'[u] = taskResult[u]
        /\ \A x \in Worker : worker[x] = worker[w] => x = w
    BY <1>0, <2>1 DEF WorkersInv, BgTypeOK
  <2>4. ASSUME NEW x \in Worker \ {w}, worker[x].pc = "own" PROVE worker[x].task # t
    BY <1>0, <2>2, <2>3, <2>4 DEF BgTypeOK
  <2> HIDE DEF t
  <2>5. BgTypeOK'
    <3>1. worker' \in [Worker -> [pc : {"idle", "ended", "execute", "own", "global"},
                                  task : BgTask \cup {"none"}]]
      BY <1>0, <2>1 DEF BgTypeOK
    <3>2. taskResult' \in [BgTask -> Nat]
      BY <1>0, <2>1 DEF BgTypeOK
    <3>3. \A x \in Worker : worker'[x].pc \in {"execute", "own"} => worker'[x].task \in BgTask
      BY <1>0, <2>1, <2>2 DEF BgTypeOK
    <3> QED BY <1>0, <2>1, <3>1, <3>2, <3>3 DEF BgTypeOK
  <2>6. QueueInv'
    BY <1>0, <1>q, <2>1, <2>2 DEF QueueInv
  <2>7. WorkersInv'
    BY <1>0, <2>1, <2>2, <2>3, <2>4 DEF WorkersInv, BgTypeOK
  <2>8. TasksInv'
    BY <1>0, <2>1, <2>2, <2>3 DEF BgTaskInv
  <2> QED BY <1>0, <2>5, <2>6, <2>7, <2>8 DEF BgInv
<1>10. ASSUME NEW t \in BgTask, SubmitSends(t) PROVE BgInv'
  BY <1>1, <1>5, <1>10 DEF SubmitSends
<1>11. CASE HeapNext \/ StopBegins \/ StopCloses \/ ReadGlobal
            \/ UNCHANGED <<bgVars, heapVars>>
  BY <1>1, <1>11
    DEF HeapNext, Pop, Push, bgVars, StopBegins, StopCloses, ReadGlobal
<1> QED
  BY <1>3, <1>4, <1>6, <1>7, <1>8, <1>9, <1>10, <1>11 DEF BgNext

LEMMA BgInvSound == BgInv => BackgroundSound
<1> SUFFICES ASSUME BgInv PROVE BackgroundSound
  OBVIOUS
<1>1. ASSUME NEW i \in 1 .. Len(taskQueue) PROVE taskQueue[i] \in ToSet(taskQueue)
  BY DEF BgInv, BgTypeOK, ToSet
<1>2. ASSUME NEW t \in BgTask
      PROVE  /\ executed[t] <= 1 /\ taskResult[t] <= executed[t]
             /\ executed[t] = 1 => submit[t] = "accepted"
             /\ submit[t] = "accepted" /\ executed[t] = 0 =>
                  \/ t \in ToSet(taskQueue)
                  \/ \E w \in Worker : worker[w] = [pc |-> "execute", task |-> t]
  BY <1>1 DEF BgInv, BgTaskInv
<1> QED BY <1>2 DEF BgInv, ActiveInv, BackgroundSound
-----------------------------------------------------------------------------
(* RuntimeValues: nobody shares a map, until a patch does; a managed value *)
(* was stored by a task that has it; and one operation on the stack at a   *)
(* time has read what it writes back.                                      *)

Values == Task \cup {"unset"}
ConfigTypeOK ==
    /\ objects \in Seq(Nat) /\ maps \in Seq(Values) /\ views \in Seq(Values)
    /\ Len(views) = Len(objects)
    /\ \A o \in 1 .. Len(objects) : objects[o] <= Len(maps)
    /\ aliased \in BOOLEAN /\ mapPanic \in BOOLEAN
ConfigInv ==
    /\ ConfigTypeOK
    /\ ~aliased => \A o, p \in 1 .. Len(objects) : objects[o] = objects[p] /\ o # p => objects[o] = 0
    /\ ~aliased /\ ~mapPanic => \A o \in 1 .. Len(objects) : View(o) = views[o]
    /\ mapPanic => \E o \in 1 .. Len(objects) : objects[o] = 0

ManagedInv ==
    /\ reading \in [Task -> [pc : {"idle", "stored", "done"}, has : BOOLEAN, spec : BOOLEAN,
                             got : Task \cup {"zero"}]]
    /\ shared = "zero" \/ (shared \in Task /\ reading[shared].has)
    /\ \A t \in Task :
         /\ reading[t].pc = "stored" => ~reading[t].spec
         /\ reading[t].pc = "done" =>
              IF reading[t].spec THEN reading[t].got \in {t, "zero"}
              ELSE reading[t].got = "zero" \/ reading[reading[t].got].has

PadTypeOK ==
    /\ stacks \in Seq(Seq(Task)) /\ reference \in Seq(Task)
    /\ padData \in 0 .. Len(stacks) /\ overlapped \in BOOLEAN
    /\ padTask \in [Task -> [pc : {"idle", "push", "pop", "set", "keep"}, stack : Nat,
                             items : Seq(Task)]]
    /\ \A t \in Task : padTask[t].pc # "idle" => padTask[t].stack \in 1 .. Len(stacks)
PadInv ==
    /\ PadTypeOK
    /\ counter = increments
    /\ ~overlapped =>
         /\ \A t, u \in Task : padTask[t].pc # "idle" /\ padTask[u].pc # "idle" => t = u
         /\ \A t \in Task : padTask[t].pc \in {"push", "pop"} => padTask[t].items = reference
         /\ \A t \in Task : padTask[t].pc \in {"set", "keep"} =>
              stacks[padTask[t].stack] = reference
         /\ (\A t \in Task : padTask[t].pc = "idle") =>
              reference = IF padData = 0 THEN <<>> ELSE stacks[padData]

ValuesInv == ConfigInv /\ ManagedInv /\ PadInv

LEMMA ValuesInvInit == ValuesInit => ValuesInv
<1> SUFFICES ASSUME ValuesInit PROVE ValuesInv
  OBVIOUS
<1>1. ConfigInv
  <2>1. PICK m \in {0, 1} : objects = <<m>>
    BY DEF ValuesInit
  <2>2. /\ maps = <<"unset">> /\ views = <<"unset">> /\ aliased = FALSE /\ mapPanic = FALSE
        /\ "unset" \in Values
    BY DEF ValuesInit, Values
  <2>3. /\ objects \in Seq(Nat) /\ Len(objects) = 1 /\ objects[1] = m
        /\ maps \in Seq(Values) /\ Len(maps) = 1 /\ maps[1] = "unset"
        /\ views \in Seq(Values) /\ Len(views) = 1 /\ views[1] = "unset"
    BY <2>1, <2>2
  <2>4. \A o \in 1 .. Len(objects) : o = 1
    BY <2>3
  <2>5. View(1) = "unset"
    BY <2>1, <2>3 DEF View, ValueOf
  <2>6. ConfigTypeOK
    <3>1. \A o \in 1 .. Len(objects) : objects[o] <= Len(maps)
      BY <2>1, <2>3, <2>4
    <3> QED BY <2>2, <2>3, <3>1 DEF ConfigTypeOK
  <2>7. \A o \in 1 .. Len(objects) : View(o) = views[o]
    BY <2>3, <2>4, <2>5
  <2> QED BY <2>2, <2>4, <2>6, <2>7 DEF ConfigInv
<1>2. ManagedInv
  <2>1. /\ reading \in [Task -> [pc : {"idle"}, has : BOOLEAN, spec : BOOLEAN, got : {"zero"}]]
        /\ shared = "zero"
    BY DEF ValuesInit
  <2>2. \A t \in Task :
          /\ reading[t] \in [pc : {"idle", "stored", "done"}, has : BOOLEAN, spec : BOOLEAN,
                             got : Task \cup {"zero"}]
          /\ reading[t].pc = "idle"
    BY <2>1
  <2>3. reading \in [Task -> [pc : {"idle", "stored", "done"}, has : BOOLEAN, spec : BOOLEAN,
                             got : Task \cup {"zero"}]]
    BY <2>1, <2>2
  <2> QED BY <2>1, <2>2, <2>3 DEF ManagedInv
<1>3. PadInv
  <2>1. /\ padData = 0 /\ stacks = <<>> /\ reference = <<>> /\ overlapped = FALSE
        /\ padTask = [t \in Task |-> Rest] /\ counter = increments
    BY DEF ValuesInit
  <2>2. \A t \in Task : padTask[t] = Rest /\ padTask[t].pc = "idle"
    BY <2>1 DEF Rest
  <2>3. Rest \in [pc : {"idle", "push", "pop", "set", "keep"}, stack : Nat, items : Seq(Task)]
    BY DEF Rest
  <2>4. padTask \in [Task -> [pc : {"idle", "push", "pop", "set", "keep"}, stack : Nat,
                             items : Seq(Task)]]
    BY <2>1, <2>3
  <2>5. stacks \in Seq(Seq(Task)) /\ reference \in Seq(Task) /\ padData \in 0 .. Len(stacks)
    BY <2>1
  <2>6. PadTypeOK
    BY <2>1, <2>2, <2>4, <2>5 DEF PadTypeOK
  <2> QED BY <2>1, <2>2, <2>6 DEF PadInv
<1> QED BY <1>1, <1>2, <1>3 DEF ValuesInv

\* A configuration that has a map of its own, or none, added to the others.
LEMMA ConfigAdds ==
    ASSUME ConfigInv, ~mapPanic, NEW r \in Nat, NEW value \in Values, NEW seen \in Values,
           objects' = Append(objects, r), views' = Append(views, seen),
           \/ r = 0 /\ maps' = maps
           \/ r = Len(maps) + 1 /\ maps' = Append(maps, value),
           ~aliased => seen = IF r = 0 THEN "unset" ELSE value,
           aliased' = aliased, mapPanic' = mapPanic
    PROVE  ConfigInv'
<1> DEFINE n == Len(objects)
           k == Len(maps)
<1>1. /\ objects \in Seq(Nat) /\ maps \in Seq(Values) /\ views \in Seq(Values)
      /\ n \in Nat /\ k \in Nat /\ Len(views) = n
      /\ \A o \in 1 .. n : objects[o] \in Nat /\ objects[o] <= k
  BY DEF ConfigInv, ConfigTypeOK
<1>2. /\ objects' \in Seq(Nat) /\ Len(objects') = n + 1 /\ objects'[n + 1] = r
      /\ \A o \in 1 .. n : objects'[o] = objects[o]
      /\ views' \in Seq(Values) /\ Len(views') = n + 1 /\ views'[n + 1] = seen
      /\ \A o \in 1 .. n : views'[o] = views[o]
  BY <1>1
<1>3. /\ maps' \in Seq(Values) /\ Len(maps') \in Nat /\ k <= Len(maps') /\ r <= Len(maps')
      /\ \A m \in 1 .. k : maps'[m] = maps[m]
      /\ r # 0 => r = k + 1 /\ maps'[r] = value
  <2>1. CASE r = 0 /\ maps' = maps
    BY <1>1, <2>1
  <2>2. CASE r = k + 1 /\ maps' = Append(maps, value)
    BY <1>1, <2>2
  <2> QED BY <2>1, <2>2
<1> HIDE DEF n, k
<1>4. \A o \in 1 .. n + 1 : o \in 1 .. n \/ o = n + 1
  BY <1>1
<1>5. ConfigTypeOK'
  BY <1>1, <1>2, <1>3, <1>4 DEF ConfigInv, ConfigTypeOK
<1>6. \A o \in 1 .. n : ValueOf(objects[o])' = ValueOf(objects[o])
  BY <1>1, <1>2, <1>3 DEF ValueOf
<1>7. ~aliased => \A o \in 1 .. n : objects[o] = r => r = 0
  BY <1>1, <1>3
<1>8. ~aliased' => \A o, p \in 1 .. Len(objects') : objects'[o] = objects'[p] /\ o # p => objects'[o] = 0
  BY <1>2, <1>4, <1>7 DEF ConfigInv, n
<1>9. ~aliased' => \A o \in 1 .. Len(objects') : View(o)' = views'[o]
  <2> SUFFICES ASSUME ~aliased', NEW o \in 1 .. Len(objects') PROVE View(o)' = views'[o]
    OBVIOUS
  <2>1. CASE o \in 1 .. n
    BY <1>2, <1>6, <2>1 DEF ConfigInv, View, n
  <2>2. CASE o = n + 1
    BY <1>2, <1>3, <2>2 DEF View, ValueOf
  <2> QED BY <1>2, <1>4, <2>1, <2>2
<1> QED BY <1>5, <1>8, <1>9 DEF ConfigInv

LEMMA Replaces ==
    ASSUME NEW S, NEW s \in Seq(S), NEW i \in 1 .. Len(s), NEW x \in S
    PROVE  /\ [s EXCEPT ![i] = x] \in Seq(S)
           /\ Len([s EXCEPT ![i] = x]) = Len(s)
           /\ [s EXCEPT ![i] = x][i] = x
           /\ \A j \in 1 .. Len(s) : j # i => [s EXCEPT ![i] = x][j] = s[j]
  OBVIOUS

\* The value of a configuration is set, in its own map or in a new one.
Stores(o, v) ==
    IF objects[o] = 0
      THEN objects' = [objects EXCEPT ![o] = Len(maps) + 1] /\ maps' = Append(maps, v)
      ELSE maps' = [maps EXCEPT ![objects[o]] = v] /\ UNCHANGED objects

LEMMA ConfigSets ==
    ASSUME ConfigInv, ~mapPanic, NEW o \in 1 .. Len(objects), NEW v \in Values,
           NEW seen \in Values,
           Stores(o, v),
           views' = [views EXCEPT ![o] = seen], ~aliased => seen = v,
           aliased' = aliased, mapPanic' = mapPanic
    PROVE  ConfigInv'
<1> DEFINE n == Len(objects)
           k == Len(maps)
           r == IF objects[o] = 0 THEN k + 1 ELSE objects[o]
<1>1. /\ objects \in Seq(Nat) /\ maps \in Seq(Values) /\ views \in Seq(Values)
      /\ n \in Nat /\ k \in Nat /\ Len(views) = n
      /\ \A p \in 1 .. n : objects[p] \in Nat /\ objects[p] <= k
  BY DEF ConfigInv, ConfigTypeOK
<1>2. /\ objects' \in Seq(Nat) /\ Len(objects') = n /\ objects'[o] = r
      /\ \A p \in 1 .. n : p # o => objects'[p] = objects[p]
      /\ views' \in Seq(Values) /\ Len(views') = n /\ views'[o] = seen
      /\ \A p \in 1 .. n : p # o => views'[p] = views[p]
  <2>1. /\ views' \in Seq(Values) /\ Len(views') = n /\ views'[o] = seen
        /\ \A p \in 1 .. n : p # o => views'[p] = views[p]
    BY <1>1, Replaces
  <2>3. r \in Nat /\ (r = objects[o] \/ r = k + 1)
    BY <1>1
  <2>4. objects' = [objects EXCEPT ![o] = r] \/ (r = objects[o] /\ objects' = objects)
    BY DEF Stores
  <2> HIDE DEF r
  <2>5. /\ objects' \in Seq(Nat) /\ Len(objects') = n /\ objects'[o] = r
        /\ \A p \in 1 .. n : p # o => objects'[p] = objects[p]
    <3>1. CASE objects' = [objects EXCEPT ![o] = r]
      BY <1>1, <2>3, <3>1, Replaces
    <3>2. CASE r = objects[o] /\ objects' = objects
      BY <1>1, <2>3, <3>2
    <3> QED BY <2>4, <3>1, <3>2
  <2> QED BY <2>1, <2>5
<1>3. /\ maps' \in Seq(Values) /\ Len(maps') \in Nat /\ k <= Len(maps')
      /\ r \in 1 .. Len(maps') /\ maps'[r] = v
      /\ \A m \in 1 .. k : m # r => maps'[m] = maps[m]
  <2>1. CASE objects[o] = 0
    <3>1. r = k + 1 /\ maps' = Append(maps, v)
      BY <2>1 DEF Stores
    <3> HIDE DEF r
    <3> QED BY <1>1, <3>1
  <2>2. CASE objects[o] # 0
    <3>1. r = objects[o] /\ maps' = [maps EXCEPT ![r] = v] /\ r \in 1 .. k
      BY <1>1, <2>2 DEF Stores
    <3> HIDE DEF r
    <3> QED BY <1>1, <3>1, Replaces
  <2> QED BY <2>1, <2>2
<1>4. ~aliased => \A p \in 1 .. n : p # o => objects[p] # r
  BY <1>1 DEF ConfigInv
<1> HIDE DEF n, k, r
<1>5. ConfigTypeOK'
  <2>1. \A p \in 1 .. n : objects'[p] <= Len(maps')
    <3> SUFFICES ASSUME NEW p \in 1 .. n PROVE objects'[p] <= Len(maps')
      OBVIOUS
    <3>1. CASE p = o
      BY <1>2, <1>3, <3>1
    <3>2. CASE p # o
      <4>1. objects'[p] = objects[p] /\ objects[p] \in Nat /\ objects[p] <= k
        BY <1>1, <1>2, <3>2
      <4>2. k \in Nat /\ Len(maps') \in Nat /\ k <= Len(maps')
        BY <1>1, <1>3
      <4> QED BY <4>1, <4>2
    <3> QED BY <3>1, <3>2
  <2>2. aliased' \in BOOLEAN /\ mapPanic' \in BOOLEAN
    BY DEF ConfigInv, ConfigTypeOK
  <2> QED BY <1>2, <1>3, <2>1, <2>2 DEF ConfigTypeOK
<1>6. ~aliased' => \A p, q \in 1 .. Len(objects') : objects'[p] = objects'[q] /\ p # q => objects'[p] = 0
  BY <1>2, <1>4 DEF ConfigInv, n
<1>7. ~aliased' => \A p \in 1 .. Len(objects') : View(p)' = views'[p]
  <2> SUFFICES ASSUME ~aliased', NEW p \in 1 .. Len(objects') PROVE View(p)' = views'[p]
    OBVIOUS
  <2>1. CASE p = o
    BY <1>2, <1>3, <2>1 DEF View, ValueOf
  <2>2. CASE p # o
    <3>1. /\ p \in 1 .. n /\ objects'[p] = objects[p] /\ views'[p] = views[p]
          /\ ~aliased /\ objects[p] # r
      BY <1>2, <1>4, <2>2
    <3>2. View(p) = views[p]
      BY <3>1 DEF ConfigInv, n
    <3>3. objects[p] \in 0 .. k
      BY <1>1, <3>1
    <3>4. View(p)' = View(p)
      BY <1>3, <3>1, <3>3 DEF View, ValueOf
    <3> QED BY <3>1, <3>2, <3>4
  <2> QED BY <2>1, <2>2
<1> QED BY <1>5, <1>6, <1>7 DEF ConfigInv

\* A patched configuration: after it nothing is promised but the types.
LEMMA ConfigPatches ==
    ASSUME ConfigInv, ~mapPanic, NEW r \in 1 .. Len(maps), NEW v \in Values, NEW seen \in Values,
           objects' = Append(objects, r), views' = Append(views, seen),
           maps' = maps \/ maps' = [maps EXCEPT ![r] = v],
           aliased' = TRUE, mapPanic' = mapPanic
    PROVE  ConfigInv'
<1>1. /\ objects \in Seq(Nat) /\ maps \in Seq(Values) /\ views \in Seq(Values)
      /\ Len(maps) \in Nat /\ Len(views) = Len(objects)
      /\ \A p \in 1 .. Len(objects) : objects[p] \in Nat /\ objects[p] <= Len(maps)
      /\ mapPanic' = FALSE
  BY DEF ConfigInv, ConfigTypeOK
<1>2. maps' \in Seq(Values) /\ Len(maps') = Len(maps)
  BY <1>1
<1>3. /\ objects' \in Seq(Nat) /\ Len(objects') = Len(objects) + 1
      /\ views' \in Seq(Values) /\ Len(views') = Len(objects')
      /\ \A p \in 1 .. Len(objects) + 1 : objects'[p] <= Len(maps)
  BY <1>1
<1> QED BY <1>1, <1>2, <1>3 DEF ConfigInv, ConfigTypeOK

LEMMA ConfigInvNext ==
    ASSUME ConfigInv, ConfigNext \/ UNCHANGED configVars PROVE ConfigInv'
<1>1. /\ objects \in Seq(Nat) /\ maps \in Seq(Values) /\ views \in Seq(Values)
      /\ Len(objects) \in Nat /\ Len(maps) \in Nat /\ Len(views) = Len(objects)
      /\ "unset" \in Values /\ Task \subseteq Values
      /\ aliased \in BOOLEAN /\ mapPanic \in BOOLEAN
  BY DEF ConfigInv, ConfigTypeOK, Values
<1>2. /\ \A o \in Object : /\ o \in 1 .. Len(objects) /\ objects[o] \in Nat
                           /\ objects[o] <= Len(maps)
                           /\ View(o) \in Values /\ views[o] \in Values
                           /\ objects[o] = 0 => View(o) = "unset"
                           /\ cloneMap(o) \in Nat
                           /\ cloneMap(o) = IF objects[o] = 0 THEN 0 ELSE Len(maps) + 1
                           /\ ~aliased /\ ~mapPanic => View(o) = views[o]
  BY <1>1 DEF Object, View, ValueOf, cloneMap, ConfigInv, ConfigTypeOK
<1>3. CASE UNCHANGED configVars
  BY <1>3 DEF configVars, ConfigInv, ConfigTypeOK, View, ValueOf
<1>4. ASSUME NEW o \in Object, Clone(o) PROVE ConfigInv'
  <2> DEFINE r == cloneMap(o)
             value == View(o)
  <2>1. /\ objects' = Append(objects, r) /\ views' = Append(views, views[o])
        /\ maps' = IF r > Len(maps) THEN Append(maps, value) ELSE maps
        /\ ~mapPanic /\ mapPanic' = mapPanic /\ aliased' = aliased
    BY <1>4 DEF Clone, Derived
  <2>2. /\ r \in Nat /\ value \in Values /\ views[o] \in Values
        /\ ~aliased => views[o] = IF r = 0 THEN "unset" ELSE value
        /\ r = 0 \/ r = Len(maps) + 1
    BY <1>1, <1>2, <2>1
  <2> HIDE DEF r, value
  <2>3. \/ r = 0 /\ maps' = maps
        \/ r = Len(maps) + 1 /\ maps' = Append(maps, value)
    BY <1>1, <2>1, <2>2
  <2> QED BY <2>1, <2>2, <2>3, ConfigAdds
<1>5. ASSUME NEW o \in Object, PatchConfig(o) PROVE ConfigInv'
  <2>1. CASE objects[o] = 0
    <3>1. aliased' = aliased /\ mapPanic' = mapPanic /\ ~mapPanic
      BY <1>1, <1>5, <2>1 DEF PatchConfig, Derived
    <3>2. objects' = Append(objects, 0) /\ maps' = maps /\ views' = Append(views, views[o])
      BY <1>1, <1>5, <2>1 DEF PatchConfig, Derived
    <3> QED BY <1>1, <1>2, <2>1, <3>1, <3>2, ConfigAdds
  <2>2. CASE objects[o] # 0
    <3>0. /\ objects' = Append(objects, objects[o]) /\ views' = Append(views, views[o])
          /\ maps' = IF objects[o] > Len(maps) THEN Append(maps, "unset") ELSE maps
          /\ aliased' = TRUE /\ ~mapPanic /\ mapPanic' = mapPanic
      BY <1>5, <2>2 DEF PatchConfig, Derived
    <3>1. maps' = maps
      <4>1. ~(objects[o] > Len(maps))
        BY <1>1, <1>2
      <4> QED BY <3>0, <4>1
    <3>2. objects[o] \in 1 .. Len(maps) /\ views[o] \in Values
      BY <1>1, <1>2, <2>2
    <3> QED BY <3>0, <3>1, <3>2, ConfigPatches
  <2> QED BY <2>1, <2>2
<1>6. ASSUME NEW o \in Object, NEW t \in Task, Set(o, t) PROVE ConfigInv'
  BY <1>1, <1>2, <1>6, ConfigSets DEF Set, Stores
<1>7. ASSUME NEW o \in Object, NEW t \in Task, PatchConfigurable(o, t) PROVE ConfigInv'
  <2>1. CASE objects[o] = 0
    <3>1. aliased' = aliased /\ mapPanic' = mapPanic /\ ~mapPanic
      BY <1>1, <1>7, <2>1 DEF PatchConfigurable
    <3> QED BY <1>1, <1>7, <2>1, <3>1, ConfigAdds DEF PatchConfigurable
  <2>2. CASE objects[o] # 0
    <3>1. /\ objects' = Append(objects, objects[o]) /\ views' = Append(views, t)
          /\ maps' = [maps EXCEPT ![objects[o]] = t]
          /\ aliased' = TRUE /\ ~mapPanic /\ mapPanic' = mapPanic
      BY <1>7, <2>2 DEF PatchConfigurable
    <3>2. objects[o] \in 1 .. Len(maps) /\ t \in Values
      BY <1>1, <1>2, <2>2
    <3> QED BY <3>1, <3>2, ConfigPatches
  <2> QED BY <2>1, <2>2
<1>8. ASSUME NEW o \in Object, NEW p \in Object, Merge(o, p) PROVE ConfigInv'
  <2>1. CASE View(p) # "unset" /\ objects[o] = 0
    <3>1. mapPanic' = TRUE /\ UNCHANGED <<objects, maps, views, aliased>>
      BY <1>8, <2>1 DEF Merge
    <3> QED BY <1>2, <2>1, <3>1 DEF ConfigInv, ConfigTypeOK
  <2>2. CASE ~(View(p) # "unset" /\ objects[o] = 0)
    <3> DEFINE value == IF View(p) # "unset" THEN View(p) ELSE View(o)
               seen == IF views[p] # "unset" THEN views[p] ELSE views[o]
               r == cloneMap(o)
    <3>1. /\ objects' = Append(objects, r) /\ views' = Append(views, seen)
          /\ maps' = IF r > Len(maps) THEN Append(maps, value)
                     ELSE IF r = 0 THEN maps ELSE [maps EXCEPT ![r] = value]
          /\ ~mapPanic /\ mapPanic' = mapPanic /\ aliased' = aliased
      BY <1>8, <2>2 DEF Merge
    <3>2. /\ r \in Nat /\ value \in Values /\ seen \in Values
          /\ ~aliased => seen = IF r = 0 THEN "unset" ELSE value
          /\ r = 0 \/ r = Len(maps) + 1
      BY <1>1, <1>2, <2>2, <3>1, SMTT(20)
    <3> HIDE DEF value, seen, r
    <3>3. \/ r = 0 /\ maps' = maps
          \/ r = Len(maps) + 1 /\ maps' = Append(maps, value)
      BY <1>1, <3>1, <3>2
    <3> QED BY <3>1, <3>2, <3>3, ConfigAdds
  <2> QED BY <2>1, <2>2
<1>9. ASSUME NEW o \in Object, NEW p \in Object, NEW field \in {"Configurable", "Metadata"},
             MergeInto(o, p, field)
      PROVE  ConfigInv'
  <2>1. CASE objects[o] = 0 /\ field = "Metadata"
    <3>1. UNCHANGED <<objects, maps, views, aliased>> /\ mapPanic' = TRUE
      BY <1>9, <2>1 DEF MergeInto
    <3> QED BY <1>2, <2>1, <3>1 DEF ConfigInv, ConfigTypeOK
  <2>2. CASE ~(objects[o] = 0 /\ field = "Metadata")
    <3>1. /\ Stores(o, View(p)) /\ views' = [views EXCEPT ![o] = views[p]]
          /\ ~mapPanic /\ UNCHANGED <<mapPanic, aliased>>
      BY <1>9, <2>2 DEF MergeInto, Stores
    <3> QED BY <1>1, <1>2, <3>1, ConfigSets
  <2> QED BY <2>1, <2>2
<1>10. ASSUME NEW o \in Object, NEW p \in Object, MergeConfigs(o, p) PROVE ConfigInv'
  <2> DEFINE value == IF View(p) # "unset" THEN View(p) ELSE View(o)
             seen == IF views[p] # "unset" THEN views[p] ELSE views[o]
  <2>1. /\ objects' = Append(objects, Len(maps) + 1) /\ views' = Append(views, seen)
        /\ maps' = Append(maps, value)
        /\ ~mapPanic /\ mapPanic' = mapPanic /\ aliased' = aliased
    BY <1>1, <1>10 DEF MergeConfigs, Derived
  <2>2. value \in Values /\ seen \in Values /\ (~aliased => seen = value)
    BY <1>1, <1>2, <2>1
  <2> HIDE DEF value, seen
  <2> QED BY <1>1, <2>1, <2>2, ConfigAdds
<1> QED
  BY <1>3, <1>4, <1>5, <1>6, <1>7, <1>8, <1>9, <1>10 DEF ConfigNext, Override

LEMMA ManagedInvNext ==
    ASSUME ManagedInv, ManagedNext \/ UNCHANGED managedVars PROVE ManagedInv'
<1>1. CASE UNCHANGED managedVars
  BY <1>1 DEF managedVars, ManagedInv
<1>2. ASSUME NEW t \in Task, GetStores(t) PROVE ManagedInv'
  <2>1. CASE reading[t].spec
    <3>1. /\ reading[t].pc = "idle" /\ shared' = shared
          /\ reading' = [reading EXCEPT ![t].pc = "done",
                                        ![t].got = IF reading[t].has THEN t ELSE "zero"]
      BY <1>2, <2>1 DEF GetStores
    <3>2. /\ \A u \in Task : /\ reading'[u].has = reading[u].has
                             /\ reading'[u].spec = reading[u].spec
                             /\ u # t => reading'[u] = reading[u]
          /\ reading'[t].got \in {t, "zero"} /\ reading'[t].pc = "done"
      BY <3>1 DEF ManagedInv
    <3>3. reading' \in [Task -> [pc : {"idle", "stored", "done"}, has : BOOLEAN, spec : BOOLEAN,
                                got : Task \cup {"zero"}]]
      <4> DEFINE g == IF reading[t].has THEN t ELSE "zero"
      <4>1. g \in Task \cup {"zero"} /\ reading' = [reading EXCEPT ![t].pc = "done", ![t].got = g]
        BY <3>1
      <4> HIDE DEF g
      <4> QED BY <4>1, ZenonT(20) DEF ManagedInv
    <3>4. shared' = "zero" \/ (shared' \in Task /\ reading'[shared'].has)
      BY <3>1, <3>2 DEF ManagedInv
    <3>5. ASSUME NEW u \in Task
          PROVE  /\ reading'[u].pc = "stored" => ~reading'[u].spec
                 /\ reading'[u].pc = "done" =>
                      IF reading'[u].spec THEN reading'[u].got \in {u, "zero"}
                      ELSE reading'[u].got = "zero" \/ reading'[reading'[u].got].has
      <4>1. CASE u = t
        BY <2>1, <3>2, <4>1
      <4>2. CASE u # t
        BY <3>2, <4>2 DEF ManagedInv
      <4> QED BY <4>1, <4>2
    <3> QED BY <3>3, <3>4, <3>5 DEF ManagedInv
  <2>2. CASE ~reading[t].spec
    <3>1. /\ reading[t].pc = "idle" /\ shared' = (IF reading[t].has THEN t ELSE shared)
          /\ reading' = [reading EXCEPT ![t].pc = "stored"]
      BY <1>2, <2>2 DEF GetStores
    <3>2. /\ \A u \in Task : /\ reading'[u].has = reading[u].has
                             /\ reading'[u].spec = reading[u].spec
                             /\ u # t => reading'[u] = reading[u]
          /\ reading'[t].pc = "stored"
      BY <3>1 DEF ManagedInv
    <3>3. reading' \in [Task -> [pc : {"idle", "stored", "done"}, has : BOOLEAN, spec : BOOLEAN,
                                got : Task \cup {"zero"}]]
      BY <3>1 DEF ManagedInv
    <3>4. shared' = "zero" \/ (shared' \in Task /\ reading'[shared'].has)
      BY <3>1, <3>2 DEF ManagedInv
    <3>5. ASSUME NEW u \in Task
          PROVE  /\ reading'[u].pc = "stored" => ~reading'[u].spec
                 /\ reading'[u].pc = "done" =>
                      IF reading'[u].spec THEN reading'[u].got \in {u, "zero"}
                      ELSE reading'[u].got = "zero" \/ reading'[reading'[u].got].has
      <4>1. CASE u = t
        BY <2>2, <3>2, <4>1
      <4>2. CASE u # t
        BY <3>2, <4>2 DEF ManagedInv
      <4> QED BY <4>1, <4>2
    <3> QED BY <3>3, <3>4, <3>5 DEF ManagedInv
  <2> QED BY <2>1, <2>2
<1>3. ASSUME NEW t \in Task, GetReturns(t) PROVE ManagedInv'
  <2>1. /\ reading[t].pc = "stored" /\ ~reading[t].spec /\ shared' = shared
        /\ reading' = [reading EXCEPT ![t].pc = "done", ![t].got = shared]
    BY <1>3 DEF GetReturns, ManagedInv
  <2>2. shared \in Task \cup {"zero"}
    BY DEF ManagedInv
  <2>3. /\ \A u \in Task : /\ reading'[u].has = reading[u].has
                           /\ reading'[u].spec = reading[u].spec
                           /\ u # t => reading'[u] = reading[u]
        /\ reading'[t].got = shared /\ reading'[t].pc = "done"
    BY <2>1 DEF ManagedInv
  <2>4. reading' \in [Task -> [pc : {"idle", "stored", "done"}, has : BOOLEAN, spec : BOOLEAN,
                              got : Task \cup {"zero"}]]
    <3>1. reading \in [Task -> [pc : {"idle", "stored", "done"}, has : BOOLEAN, spec : BOOLEAN,
                               got : Task \cup {"zero"}]]
      BY DEF ManagedInv
    <3> DEFINE g == shared
    <3>2. g \in Task \cup {"zero"} /\ reading' = [reading EXCEPT ![t].pc = "done", ![t].got = g]
      BY <2>1, <2>2
    <3> HIDE DEF g
    <3> QED BY <3>1, <3>2
  <2>5. shared' = "zero" \/ (shared' \in Task /\ reading'[shared'].has)
    BY <2>1, <2>3 DEF ManagedInv
  <2>6. ASSUME NEW u \in Task
        PROVE  /\ reading'[u].pc = "stored" => ~reading'[u].spec
               /\ reading'[u].pc = "done" =>
                    IF reading'[u].spec THEN reading'[u].got \in {u, "zero"}
                    ELSE reading'[u].got = "zero" \/ reading'[reading'[u].got].has
    <3>1. CASE u = t
      BY <2>1, <2>3, <2>5, <3>1
    <3>2. CASE u # t
      BY <2>3, <3>2 DEF ManagedInv
    <3> QED BY <3>1, <3>2
  <2> QED BY <2>4, <2>5, <2>6 DEF ManagedInv
<1> QED BY <1>1, <1>2, <1>3 DEF ManagedNext

LEMMA PadInvNext == ASSUME PadInv, PadNext \/ UNCHANGED padVars PROVE PadInv'
<1>1. /\ stacks \in Seq(Seq(Task)) /\ reference \in Seq(Task) /\ Len(stacks) \in Nat
      /\ padData \in 0 .. Len(stacks) /\ <<>> \in Seq(Task)
      /\ \A i \in 1 .. Len(stacks) : stacks[i] \in Seq(Task)
      /\ \A t \in Task : padTask[t].items \in Seq(Task)
  BY DEF PadInv, PadTypeOK
<1>2. ASSUME NEW s \in Seq(Task), s # <<>> PROVE Front(s) \in Seq(Task)
  BY <1>2 DEF Front
<1>3. CASE UNCHANGED padVars
  BY <1>3 DEF padVars, PadInv, PadTypeOK
<1>4. ASSUME NEW t \in Task, NEW op \in {"push", "pop"}, StackBegins(t, op) PROVE PadInv'
  <2>1. /\ padTask[t].pc = "idle" /\ overlapped' = (overlapped \/ Others(t))
        /\ UNCHANGED <<padData, counter, increments, reference>>
    BY <1>4 DEF StackBegins
  <2>2. CASE padData # 0
    <3>1. /\ padTask' = [padTask EXCEPT ![t] = [pc |-> op, stack |-> padData,
                                                items |-> stacks[padData]]]
          /\ stacks' = stacks
      BY <1>4, <2>2 DEF StackBegins
    <3>2. PadTypeOK'
      BY <1>1, <2>1, <2>2, <3>1 DEF PadInv, PadTypeOK
    <3> QED BY <1>1, <2>1, <2>2, <3>1, <3>2, ZenonT(20) DEF PadInv, PadTypeOK, Others
  <2>3. CASE padData = 0 /\ op = "push"
    <3>1. /\ padTask' = [padTask EXCEPT ![t] = [pc |-> "push", stack |-> Len(stacks) + 1,
                                                items |-> <<>>]]
          /\ stacks' = Append(stacks, <<>>)
      BY <1>4, <2>3 DEF StackBegins
    <3>2. /\ stacks' \in Seq(Seq(Task)) /\ Len(stacks') = Len(stacks) + 1
          /\ \A i \in 1 .. Len(stacks) : stacks'[i] = stacks[i]
      BY <1>1, <3>1
    <3>3. PadTypeOK'
      <4>1. [pc |-> "push", stack |-> Len(stacks) + 1, items |-> <<>>] \in
              [pc : {"idle", "push", "pop", "set", "keep"}, stack : Nat, items : Seq(Task)]
        BY <1>1
      <4>2. padTask' \in [Task -> [pc : {"idle", "push", "pop", "set", "keep"}, stack : Nat,
                                  items : Seq(Task)]]
        BY <3>1, <4>1 DEF PadInv, PadTypeOK
      <4>3. \A u \in Task : padTask'[u].pc # "idle" => padTask'[u].stack \in 1 .. Len(stacks')
        BY <1>1, <3>1, <3>2 DEF PadInv, PadTypeOK
      <4>4. padData' \in 0 .. Len(stacks') /\ overlapped' \in BOOLEAN /\ reference' \in Seq(Task)
        BY <1>1, <2>1, <3>2 DEF PadInv, PadTypeOK
      <4> QED BY <3>2, <4>2, <4>3, <4>4 DEF PadTypeOK
    <3>4. /\ padTask'[t] = [pc |-> "push", stack |-> Len(stacks) + 1, items |-> <<>>]
          /\ \A u \in Task \ {t} : padTask'[u] = padTask[u]
      BY <3>1 DEF PadInv, PadTypeOK
    <3>5. ~overlapped' => ~overlapped /\ \A u \in Task : padTask[u].pc = "idle"
      BY <2>1 DEF Others
    <3>6. ~overlapped' =>
           /\ \A u \in Task \ {t} : padTask'[u].pc = "idle"
           /\ padTask'[t].pc = "push" /\ padTask'[t].items = <<>> /\ reference' = <<>>
      BY <2>1, <2>3, <3>4, <3>5 DEF PadInv
    <3>7. counter' = increments'
      BY <2>1 DEF PadInv
    <3> QED BY <3>3, <3>6, <3>7 DEF PadInv
  <2>4. CASE padData = 0 /\ op = "pop"
    BY <1>4, <2>1, <2>4 DEF StackBegins, PadInv, PadTypeOK
  <2> QED BY <2>2, <2>3, <2>4
<1>5. ASSUME NEW t \in Task, StackWrites(t) PROVE PadInv'
  <2> DEFINE p == padTask[t]
             new == IF p.pc = "push" THEN Append(p.items, t)
                    ELSE IF p.items = <<>> THEN <<>> ELSE Front(p.items)
  <2>1. /\ p.pc \in {"push", "pop"}
        /\ stacks' = [stacks EXCEPT ![p.stack] = new]
        /\ padTask' = [padTask EXCEPT ![t].pc = IF p.pc = "push" THEN "set" ELSE "keep"]
        /\ reference' = IF p.pc = "push" THEN Append(reference, t)
                        ELSE IF reference = <<>> THEN <<>> ELSE Front(reference)
        /\ UNCHANGED <<padData, counter, increments, overlapped>>
    BY <1>5 DEF StackWrites
  <2>2. p.items \in Seq(Task) /\ p.stack \in 1 .. Len(stacks) /\ padTask[t].pc # "idle"
    BY <1>1, <2>1 DEF PadInv, PadTypeOK
  <2>3. new \in Seq(Task) /\ reference' \in Seq(Task)
    BY <1>1, <1>2, <2>1, <2>2
  <2>4. ~overlapped => new = reference'
    BY <2>1 DEF PadInv
  <2>5. /\ padTask'[t].pc \in {"set", "keep"} /\ padTask'[t].stack = p.stack
        /\ \A u \in Task \ {t} : padTask'[u] = padTask[u]
    BY <1>1, <2>1 DEF PadInv, PadTypeOK
  <2> HIDE DEF new, p
  <2>6. stacks' \in Seq(Seq(Task)) /\ Len(stacks') = Len(stacks) /\ stacks'[p.stack] = new
    BY <1>1, <2>1, <2>2, <2>3
  <2>7. PadTypeOK'
    <3>1. padTask' \in [Task -> [pc : {"idle", "push", "pop", "set", "keep"}, stack : Nat,
                                items : Seq(Task)]]
      <4> DEFINE q == IF p.pc = "push" THEN "set" ELSE "keep"
      <4>1. q \in {"set", "keep"} /\ padTask' = [padTask EXCEPT ![t].pc = q]
        BY <2>1
      <4> HIDE DEF q
      <4>2. /\ padTask \in [Task -> [pc : {"idle", "push", "pop", "set", "keep"}, stack : Nat,
                                    items : Seq(Task)]]
            /\ padTask[t].stack \in Nat /\ padTask[t].items \in Seq(Task)
        BY DEF PadInv, PadTypeOK
      <4>3. [padTask[t] EXCEPT !.pc = q] =
              [pc |-> q, stack |-> padTask[t].stack, items |-> padTask[t].items]
        BY <4>2
      <4>4. [pc |-> q, stack |-> padTask[t].stack, items |-> padTask[t].items] \in
              [pc : {"idle", "push", "pop", "set", "keep"}, stack : Nat, items : Seq(Task)]
        BY <4>1, <4>2
      <4> QED BY <4>1, <4>2, <4>3, <4>4, Zenon
    <3>2. \A u \in Task : padTask'[u].pc # "idle" => padTask'[u].stack \in 1 .. Len(stacks')
      BY <2>2, <2>5, <2>6 DEF PadInv, PadTypeOK
    <3> QED BY <1>1, <2>1, <2>3, <2>6, <3>1, <3>2 DEF PadInv, PadTypeOK
  <2> QED BY <2>1, <2>2, <2>4, <2>5, <2>6, <2>7, ZenonT(20) DEF PadInv
<1>6. ASSUME NEW t \in Task, StackEnds(t) PROVE PadInv'
  <2> DEFINE p == padTask[t]
  <2>1. /\ p.pc \in {"set", "keep"}
        /\ padData' = IF p.pc = "keep" /\ stacks[p.stack] = <<>> THEN 0 ELSE p.stack
        /\ padTask' = [padTask EXCEPT ![t] = [pc |-> "idle", stack |-> 0, items |-> <<>>]]
        /\ UNCHANGED <<stacks, counter, increments, reference, overlapped>>
    BY <1>6 DEF StackEnds, Rest
  <2>2. p.stack \in 1 .. Len(stacks)
    BY <1>1, <2>1 DEF PadInv, PadTypeOK
  <2>3. PadTypeOK'
    BY <1>1, <2>1, <2>2 DEF PadInv, PadTypeOK
  <2>4. ~overlapped => reference = IF padData' = 0 THEN <<>> ELSE stacks[padData']
    BY <1>1, <2>1, <2>2 DEF PadInv
  <2>5. /\ padTask'[t].pc = "idle"
        /\ \A u \in Task \ {t} : padTask'[u] = padTask[u]
    BY <2>1 DEF PadInv, PadTypeOK
  <2> HIDE DEF p
  <2>6. ~overlapped' =>
         /\ \A u, w \in Task : padTask'[u].pc # "idle" /\ padTask'[w].pc # "idle" => u = w
         /\ \A u \in Task : padTask'[u].pc \in {"push", "pop"} => padTask'[u].items = reference'
         /\ \A u \in Task : padTask'[u].pc \in {"set", "keep"} =>
              stacks'[padTask'[u].stack] = reference'
    BY <2>1, <2>5 DEF PadInv
  <2>7. counter' = increments' /\ overlapped' = overlapped /\ stacks' = stacks
    BY <2>1 DEF PadInv
  <2>8. ~overlapped' => reference' = IF padData' = 0 THEN <<>> ELSE stacks'[padData']
    BY <2>1, <2>4, <2>7
  <2> QED BY <2>3, <2>6, <2>7, <2>8 DEF PadInv
<1>7. CASE Count(1) \/ Count(-1) \/ ResetCounter
  <2>1. UNCHANGED <<padData, stacks, padTask, reference, overlapped>>
    BY <1>7 DEF Count, ResetCounter
  <2>2. counter' = increments'
    BY <1>7 DEF Count, ResetCounter, PadInv
  <2> QED BY <2>1, <2>2 DEF PadInv, PadTypeOK
<1> QED BY <1>3, <1>4, <1>5, <1>6, <1>7 DEF PadNext

LEMMA ValuesInvNext ==
    ASSUME ValuesInv,
           ConfigNext \/ ManagedNext \/ PadNext \/ UNCHANGED <<configVars, managedVars, padVars>>
    PROVE  ValuesInv'
<1>1. CASE ConfigNext
  <2>1. UNCHANGED <<managedVars, padVars>>
    BY <1>1
      DEF ConfigNext, Clone, Override, PatchConfig, Set, PatchConfigurable,
          Merge, MergeInto, MergeConfigs
  <2> QED BY <1>1, <2>1, ConfigInvNext, ManagedInvNext, PadInvNext DEF ValuesInv
<1>2. CASE ManagedNext
  <2>1. UNCHANGED <<configVars, padVars>>
    BY <1>2 DEF ManagedNext, GetStores, GetReturns
  <2> QED BY <1>2, <2>1, ConfigInvNext, ManagedInvNext, PadInvNext DEF ValuesInv
<1>3. CASE PadNext
  <2>1. UNCHANGED <<configVars, managedVars>>
    BY <1>3
      DEF PadNext, StackBegins, StackWrites, StackEnds, Count, ResetCounter
  <2> QED BY <1>3, <2>1, ConfigInvNext, ManagedInvNext, PadInvNext DEF ValuesInv
<1> QED
  BY <1>1, <1>2, <1>3, ConfigInvNext, ManagedInvNext, PadInvNext DEF ValuesInv

LEMMA ValuesInvSound == ValuesInv => ValuesAreOwn
<1> SUFFICES ASSUME ValuesInv PROVE ValuesAreOwn
  OBVIOUS
<1>1. /\ ~aliased /\ ~mapPanic => \A o \in Object : View(o) = views[o]
      /\ mapPanic => \E o \in Object : objects[o] = 0
  BY DEF ValuesInv, ConfigInv, Object
<1>2. \A t \in Task : reading[t].pc = "done" =>
         /\ reading[t].spec => reading[t].got \in {t, "zero"}
         /\ reading[t].got # "zero" /\ ~reading[t].spec => reading[reading[t].got].has
  BY DEF ValuesInv, ManagedInv
<1> QED BY <1>1, <1>2 DEF ValuesInv, PadInv, ValuesAreOwn

-----------------------------------------------------------------------------
(* EventStreams: the number of an event is in one place.                   *)

Numbered == [type : EventType, no : Nat]
EventsTypeOK ==
    /\ streamKind \in {"manager", "stream"} /\ streamMode \in Mode
    /\ eventCh \in Seq(Numbered) /\ emitter \in [Emitter -> Numbered \cup {NoEvent}]
    /\ events \in Nat /\ handled \in Seq(Nat) /\ lost \subseteq 1 .. events
    /\ eventClosed \in BOOLEAN /\ eventCtx \in BOOLEAN /\ eventPanic \in BOOLEAN

Precedes(m, n) == m # n /\ (streamKind = "manager" => m < n)
ChannelInOrder ==
    /\ \A i \in 1 .. Len(eventCh) :
         eventCh[i].no \in 1 .. events /\ eventCh[i].no \notin lost /\ shouldEmit(eventCh[i].type)
    /\ \A i, j \in 1 .. Len(eventCh) : i < j => Precedes(eventCh[i].no, eventCh[j].no)
HandledInOrder ==
    /\ \A i \in 1 .. Len(handled) : handled[i] \in 1 .. events /\ handled[i] \notin lost
    /\ \A i, j \in 1 .. Len(handled) : i < j => Precedes(handled[i], handled[j])
    /\ \A i \in 1 .. Len(handled), j \in 1 .. Len(eventCh) : Precedes(handled[i], eventCh[j].no)
EmitterApart ==
    \A e \in Emitter : emitter[e] # NoEvent =>
      /\ streamKind = "stream" /\ emitter[e].type = "update"
      /\ emitter[e].no \in 1 .. events /\ emitter[e].no \notin lost
      /\ \A i \in 1 .. Len(eventCh) : eventCh[i].no # emitter[e].no
      /\ \A i \in 1 .. Len(handled) : handled[i] # emitter[e].no
      /\ \A f \in Emitter \ {e} : emitter[f].no # emitter[e].no
EverywhereSome ==
    streamKind = "stream" => \A n \in 1 .. events :
      \/ n \in lost
      \/ \E i \in 1 .. Len(handled) : handled[i] = n
      \/ \E i \in 1 .. Len(eventCh) : eventCh[i].no = n
      \/ \E e \in Emitter : emitter[e].no = n
EventsClosing ==
    /\ streamKind = "stream" => streamMode = "debug" /\ (eventClosed => eventCtx)
    /\ eventPanic => eventCtx
    /\ processor = "ended" => eventClosed /\ eventCh = <<>>
EventsInv ==
    /\ EventsTypeOK /\ ChannelInOrder /\ HandledInOrder /\ EmitterApart
    /\ EverywhereSome /\ EventsClosing

LEMMA EventsInvInit == EventsInit => EventsInv
<1> SUFFICES ASSUME EventsInit PROVE EventsInv
  OBVIOUS
<1>1. /\ streamKind \in {"manager", "stream"} /\ streamMode \in Mode
      /\ streamKind = "stream" => streamMode = "debug"
      /\ eventCh = <<>> /\ eventClosed = FALSE /\ eventCtx = FALSE
      /\ emitter = [e \in Emitter |-> NoEvent]
      /\ events = 0 /\ lost = {} /\ processor = "running" /\ handled = <<>> /\ eventPanic = FALSE
  BY DEF EventsInit, Mode
<1>2. EventsTypeOK
  <2>1. emitter \in [Emitter -> Numbered \cup {NoEvent}]
    BY <1>1
  <2>2. eventCh \in Seq(Numbered) /\ handled \in Seq(Nat) /\ events \in Nat
    BY <1>1
  <2> QED BY <1>1, <2>1, <2>2 DEF EventsTypeOK
<1>3. \A e \in Emitter : emitter[e] = NoEvent
  BY <1>1
<1>4. ChannelInOrder /\ HandledInOrder /\ EverywhereSome
  BY <1>1 DEF ChannelInOrder, HandledInOrder, EverywhereSome
<1>5. EmitterApart
  BY <1>3 DEF EmitterApart
<1>6. EventsClosing
  BY <1>1 DEF EventsClosing
<1> QED BY <1>2, <1>4, <1>5, <1>6 DEF EventsInv

LEMMA ChannelLength ==
    ASSUME EventsTypeOK
    PROVE  /\ Len(eventCh) \in Nat /\ Len(handled) \in Nat /\ events \in Nat
           /\ \A i \in 1 .. Len(eventCh) : eventCh[i] \in Numbered
           /\ \A i \in 1 .. Len(handled) : handled[i] \in Nat
  BY DEF EventsTypeOK

\* An event that is numbered and in no place, or in one emitter alone, joins
\* the channel.
LEMMA EventJoins ==
    ASSUME EventsInv, NEW m \in Numbered, shouldEmit(m.type), ~eventClosed,
           m.no \in 1 .. events', m.no \notin lost, events' \in {events, events + 1},
           \A i \in 1 .. Len(eventCh) : Precedes(eventCh[i].no, m.no),
           \A i \in 1 .. Len(handled) : Precedes(handled[i], m.no),
           \A e \in Emitter : emitter'[e] # NoEvent => emitter'[e] = emitter[e] /\ emitter'[e].no # m.no,
           \A e \in Emitter : emitter[e] # NoEvent /\ emitter'[e] = NoEvent => emitter[e] = m,
           emitter' \in [Emitter -> Numbered \cup {NoEvent}],
           events' = events + 1 => m.no = events + 1,
           eventCh' = Append(eventCh, m),
           UNCHANGED <<streamKind, streamMode, eventClosed, eventCtx, lost, processor, handled,
                       eventPanic>>
    PROVE  EventsInv'
<1>1. /\ EventsTypeOK /\ ChannelInOrder /\ HandledInOrder /\ EmitterApart
      /\ EverywhereSome /\ EventsClosing
  BY DEF EventsInv
<1>2. /\ Len(eventCh) \in Nat /\ Len(handled) \in Nat /\ events \in Nat /\ events' \in Nat
      /\ events <= events' /\ eventCh \in Seq(Numbered) /\ m.no \in Nat
  BY <1>1, ChannelLength DEF EventsTypeOK, Numbered
<1>3. /\ eventCh' \in Seq(Numbered) /\ Len(eventCh') = Len(eventCh) + 1
      /\ eventCh'[Len(eventCh) + 1] = m
      /\ \A i \in 1 .. Len(eventCh) : eventCh'[i] = eventCh[i]
  BY <1>2
<1> DEFINE k == Len(eventCh)
<1>4. \A i \in 1 .. k + 1 : i \in 1 .. k \/ i = k + 1
  BY <1>2
<1>5. lost \subseteq 1 .. events'
  BY <1>1, <1>2 DEF EventsTypeOK
<1>6. EventsTypeOK'
  BY <1>1, <1>2, <1>3, <1>5 DEF EventsTypeOK
<1> HIDE DEF k
<1>7. ChannelInOrder'
  <2>1. ASSUME NEW i \in 1 .. k + 1
        PROVE  /\ eventCh'[i].no \in 1 .. events' /\ eventCh'[i].no \notin lost'
               /\ shouldEmit(eventCh'[i].type)
    <3>1. CASE i \in 1 .. k
      BY <1>1, <1>2, <1>3, <3>1 DEF ChannelInOrder, k
    <3>2. CASE i = k + 1
      BY <1>3, <3>2 DEF k
    <3> QED BY <1>4, <3>1, <3>2
  <2>2. ASSUME NEW i \in 1 .. k + 1, NEW j \in 1 .. k + 1, i < j
        PROVE  Precedes(eventCh'[i].no, eventCh'[j].no)
    <3>0. i \in 1 .. k
      BY <1>2, <2>2 DEF k
    <3>1. CASE j \in 1 .. k
      BY <1>1, <1>3, <2>2, <3>0, <3>1 DEF ChannelInOrder, k
    <3>2. CASE j = k + 1
      BY <1>3, <3>0, <3>2 DEF k
    <3> QED BY <1>4, <3>1, <3>2
  <2> QED BY <1>3, <2>1, <2>2 DEF ChannelInOrder, Precedes, shouldEmit, k
<1>8. HandledInOrder'
  <2>1. \A i \in 1 .. Len(handled) : handled[i] \in 1 .. events' /\ handled[i] \notin lost
    BY <1>1, <1>2 DEF HandledInOrder
  <2>2. ASSUME NEW i \in 1 .. Len(handled), NEW j \in 1 .. k + 1
        PROVE  Precedes(handled[i], eventCh'[j].no)
    <3>1. CASE j \in 1 .. k
      BY <1>1, <1>3, <3>1 DEF HandledInOrder, k
    <3>2. CASE j = k + 1
      BY <1>3, <3>2 DEF k
    <3> QED BY <1>4, <3>1, <3>2
  <2> QED BY <1>1, <1>3, <2>1, <2>2 DEF HandledInOrder, Precedes, k
<1>9. EmitterApart'
  <2> SUFFICES ASSUME NEW e \in Emitter, emitter'[e] # NoEvent
               PROVE  /\ streamKind = "stream" /\ emitter'[e].type = "update"
                      /\ emitter'[e].no \in 1 .. events' /\ emitter'[e].no \notin lost
                      /\ \A i \in 1 .. Len(eventCh') : eventCh'[i].no # emitter'[e].no
                      /\ \A i \in 1 .. Len(handled) : handled[i] # emitter'[e].no
                      /\ \A f \in Emitter \ {e} : emitter'[f].no # emitter'[e].no
    BY DEF EmitterApart
  <2>1. /\ emitter'[e] = emitter[e] /\ emitter[e] # NoEvent /\ emitter[e].no # m.no
        /\ streamKind = "stream" /\ emitter[e].type = "update"
        /\ emitter[e].no \in 1 .. events /\ emitter[e].no \notin lost
        /\ \A i \in 1 .. Len(eventCh) : eventCh[i].no # emitter[e].no
        /\ \A i \in 1 .. Len(handled) : handled[i] # emitter[e].no
        /\ \A f \in Emitter \ {e} : emitter[f].no # emitter[e].no
    BY <1>1 DEF EmitterApart
  <2>2. emitter'[e].no \in 1 .. events'
    BY <1>2, <2>1
  <2>3. ASSUME NEW i \in 1 .. k + 1 PROVE eventCh'[i].no # emitter'[e].no
    BY <1>3, <1>4, <2>1 DEF k
  <2>4. ASSUME NEW f \in Emitter \ {e} PROVE emitter'[f].no # emitter'[e].no
    <3>1. CASE emitter'[f] = NoEvent
      BY <1>2, <2>1, <3>1 DEF NoEvent
    <3>2. CASE emitter'[f] # NoEvent
      BY <2>1, <3>2
    <3> QED BY <3>1, <3>2
  <2> QED BY <1>3, <2>1, <2>2, <2>3, <2>4 DEF k
<1>10. EverywhereSome'
  <2> SUFFICES ASSUME streamKind = "stream", NEW n \in 1 .. events'
               PROVE  \/ n \in lost
                      \/ \E i \in 1 .. Len(handled) : handled[i] = n
                      \/ \E i \in 1 .. Len(eventCh') : eventCh'[i].no = n
                      \/ \E e \in Emitter : emitter'[e].no = n
    BY DEF EverywhereSome
  <2>1. n = m.no => \E i \in 1 .. Len(eventCh') : eventCh'[i].no = n
    BY <1>2, <1>3
  <2>2. n # m.no => n \in 1 .. events
    BY <1>2
  <2>3. ASSUME NEW i \in 1 .. Len(eventCh), eventCh[i].no = n
        PROVE  \E j \in 1 .. Len(eventCh') : eventCh'[j].no = n
    BY <1>2, <1>3, <2>3
  <2>4. ASSUME NEW e \in Emitter, emitter[e].no = n, n # m.no PROVE emitter'[e].no = n
    <3>1. emitter[e] # NoEvent
      BY <2>4, <1>2 DEF NoEvent
    <3> QED BY <2>4, <3>1
  <2> QED BY <1>1, <2>1, <2>2, <2>3, <2>4 DEF EverywhereSome
<1>11. EventsClosing'
  BY <1>1 DEF EventsClosing
<1> QED BY <1>6, <1>7, <1>8, <1>9, <1>10, <1>11 DEF EventsInv

\* An event gets its number, in no place yet or lost or with an emitter.
LEMMA EventIsNumbered ==
    ASSUME EventsInv, events' = events + 1,
           \/ streamKind = "manager" /\ lost' \in {lost, lost \cup {events + 1}} /\ emitter' = emitter
           \/ /\ streamKind = "stream" /\ lost' = lost
              /\ \E e \in Emitter : emitter[e] = NoEvent /\
                   emitter' = [emitter EXCEPT ![e] = [type |-> "update", no |-> events + 1]],
           UNCHANGED <<streamKind, streamMode, eventCh, eventClosed, eventCtx, processor, handled,
                       eventPanic>>
    PROVE  EventsInv'
<1>1. /\ EventsTypeOK /\ ChannelInOrder /\ HandledInOrder /\ EmitterApart
      /\ EverywhereSome /\ EventsClosing
  BY DEF EventsInv
<1>2. /\ Len(eventCh) \in Nat /\ Len(handled) \in Nat /\ events \in Nat /\ events' \in Nat
      /\ lost \subseteq 1 .. events /\ events + 1 \notin 1 .. events
      /\ \A n \in 1 .. events : n \in 1 .. events'
      /\ \A n \in 1 .. events' : n \in 1 .. events \/ n = events + 1
      /\ events + 1 \in 1 .. events'
  BY <1>1, ChannelLength DEF EventsTypeOK
<1>3. lost' \subseteq 1 .. events' /\ lost \subseteq lost' /\ lost' \subseteq lost \cup {events + 1}
  BY <1>2
<1>4. streamKind = "stream" => lost' = lost
  OBVIOUS
<1>5. PICK old \in Emitter \cup {NoEvent} :
        IF streamKind = "manager" THEN emitter' = emitter
        ELSE /\ old \in Emitter /\ emitter[old] = NoEvent
             /\ emitter' = [emitter EXCEPT ![old] = [type |-> "update", no |-> events + 1]]
  <2>1. CASE streamKind = "manager"
    BY <2>1
  <2>2. CASE streamKind = "stream"
    BY <2>2
  <2> QED BY <1>1, <2>1, <2>2 DEF EventsTypeOK
<1>6. [type |-> "update", no |-> events + 1] \in Numbered
  BY <1>2 DEF Numbered, EventType
<1>7. emitter' \in [Emitter -> Numbered \cup {NoEvent}]
  BY <1>1, <1>5, <1>6 DEF EventsTypeOK
<1>8. EventsTypeOK'
  BY <1>1, <1>2, <1>3, <1>7 DEF EventsTypeOK
<1>9. ChannelInOrder'
  BY <1>1, <1>2, <1>3 DEF ChannelInOrder, Precedes, shouldEmit
<1>10. HandledInOrder'
  BY <1>1, <1>2, <1>3 DEF HandledInOrder, Precedes
<1>11. EmitterApart'
  <2> SUFFICES ASSUME NEW e \in Emitter, emitter'[e] # NoEvent
               PROVE  /\ streamKind = "stream" /\ emitter'[e].type = "update"
                      /\ emitter'[e].no \in 1 .. events' /\ emitter'[e].no \notin lost'
                      /\ \A i \in 1 .. Len(eventCh) : eventCh[i].no # emitter'[e].no
                      /\ \A i \in 1 .. Len(handled) : handled[i] # emitter'[e].no
                      /\ \A f \in Emitter \ {e} : emitter'[f].no # emitter'[e].no
    BY DEF EmitterApart
  <2>0. streamKind = "stream"
    BY <1>1, <1>5 DEF EmitterApart, EventsTypeOK
  <2>1. /\ old \in Emitter /\ emitter[old] = NoEvent
        /\ emitter'[old] = [type |-> "update", no |-> events + 1]
        /\ \A f \in Emitter \ {old} : emitter'[f] = emitter[f]
    BY <1>1, <1>5, <2>0 DEF EventsTypeOK
  <2>2. \A f \in Emitter : emitter[f] = NoEvent \/ emitter[f].no \in 1 .. events
    BY <1>1 DEF EmitterApart
  <2>3. \A f \in Emitter : emitter[f].no # events + 1
    BY <1>2, <2>2 DEF NoEvent
  <2>4. CASE e = old
    <3>1. emitter'[e].type = "update" /\ emitter'[e].no = events + 1
      BY <2>1, <2>4
    <3>2. /\ \A i \in 1 .. Len(eventCh) : eventCh[i].no # events + 1
          /\ \A i \in 1 .. Len(handled) : handled[i] # events + 1
          /\ events + 1 \notin lost'
      BY <1>1, <1>2, <1>4, <2>0 DEF ChannelInOrder, HandledInOrder
    <3>3. \A f \in Emitter \ {e} : emitter'[f].no # events + 1
      BY <2>1, <2>3, <2>4
    <3> QED BY <1>2, <2>0, <3>1, <3>2, <3>3
  <2>5. CASE e # old
    <3>1. emitter'[e] = emitter[e] /\ emitter[e].no \in 1 .. events
      BY <2>1, <2>2, <2>5
    <3>2. \A f \in Emitter \ {e} : emitter'[f].no # emitter[e].no
      BY <1>1, <1>2, <2>1, <2>5, <3>1 DEF EmitterApart
    <3> QED BY <1>1, <1>2, <1>4, <2>0, <3>1, <3>2 DEF EmitterApart
  <2> QED BY <2>4, <2>5
<1>12. EverywhereSome'
  <2> SUFFICES ASSUME streamKind = "stream", NEW n \in 1 .. events'
               PROVE  \/ n \in lost'
                      \/ \E i \in 1 .. Len(handled) : handled[i] = n
                      \/ \E i \in 1 .. Len(eventCh) : eventCh[i].no = n
                      \/ \E e \in Emitter : emitter'[e].no = n
    BY DEF EverywhereSome
  <2>1. /\ old \in Emitter /\ emitter[old] = NoEvent
        /\ emitter'[old] = [type |-> "update", no |-> events + 1]
        /\ \A f \in Emitter \ {old} : emitter'[f] = emitter[f]
    BY <1>1, <1>5 DEF EventsTypeOK
  <2>2. CASE n = events + 1
    <3>1. emitter'[old].no = n
      BY <2>1, <2>2
    <3> QED BY <2>1, <3>1
  <2>3. CASE n \in 1 .. events
    <3>1. ASSUME NEW e \in Emitter, emitter[e].no = n PROVE emitter'[e].no = n
      <4>1. e # old
        BY <2>1, <2>3, <3>1 DEF NoEvent
      <4> QED BY <2>1, <3>1, <4>1
    <3> QED BY <1>1, <1>3, <2>3, <3>1 DEF EverywhereSome
  <2> QED BY <1>2, <2>2, <2>3
<1>13. EventsClosing'
  BY <1>1 DEF EventsClosing
<1> QED BY <1>8, <1>9, <1>10, <1>11, <1>12, <1>13 DEF EventsInv

LEMMA EventGivenUp ==
    ASSUME EventsInv, NEW e \in Emitter, emitter[e] # NoEvent,
           lost' = lost \cup {emitter[e].no},
           emitter' = [emitter EXCEPT ![e] = NoEvent],
           UNCHANGED <<streamKind, streamMode, eventCh, eventClosed, eventCtx, events, processor,
                       handled, eventPanic>>
    PROVE  EventsInv'
<1>1. /\ EventsTypeOK /\ ChannelInOrder /\ HandledInOrder /\ EmitterApart
      /\ EverywhereSome /\ EventsClosing
  BY DEF EventsInv
<1>2. /\ emitter'[e] = NoEvent
      /\ \A f \in Emitter \ {e} : emitter'[f] = emitter[f]
      /\ emitter' \in [Emitter -> Numbered \cup {NoEvent}]
  BY <1>1 DEF EventsTypeOK
<1>3. /\ emitter[e].no \in 1 .. events
      /\ \A i \in 1 .. Len(eventCh) : eventCh[i].no # emitter[e].no
      /\ \A i \in 1 .. Len(handled) : handled[i] # emitter[e].no
      /\ \A f \in Emitter \ {e} : emitter[f].no # emitter[e].no
  BY <1>1 DEF EmitterApart
<1>4. EventsTypeOK'
  BY <1>1, <1>2, <1>3 DEF EventsTypeOK
<1>5. ChannelInOrder'
  BY <1>1, <1>3 DEF ChannelInOrder, Precedes, shouldEmit
<1>6. HandledInOrder'
  BY <1>1, <1>3 DEF HandledInOrder, Precedes
<1>7. ASSUME NEW f \in Emitter, emitter'[f] # NoEvent
      PROVE  f # e /\ emitter'[f] = emitter[f] /\ emitter[f] # NoEvent
  BY <1>2, <1>7
<1>8. ASSUME NEW f \in Emitter, f # e, emitter[f] # NoEvent, NEW g \in Emitter \ {f}
      PROVE  emitter'[g].no # emitter[f].no
  <2>1. emitter[f].no \in 1 .. events /\ emitter[g].no # emitter[f].no
    BY <1>1, <1>8 DEF EmitterApart
  <2>2. emitter[f].no # 0
    BY <2>1
  <2> QED BY <1>2, <2>1, <2>2 DEF NoEvent
<1>9. EmitterApart'
  BY <1>1, <1>2, <1>3, <1>7, <1>8 DEF EmitterApart
<1>10. EverywhereSome'
  BY <1>1, <1>2 DEF EverywhereSome
<1>11. EventsClosing'
  BY <1>1 DEF EventsClosing
<1> QED BY <1>4, <1>5, <1>6, <1>9, <1>10, <1>11 DEF EventsInv

LEMMA EventIsHandled == ASSUME EventsInv, NEW ok \in BOOLEAN, Process(ok) PROVE EventsInv'
<1>1. /\ EventsTypeOK /\ ChannelInOrder /\ HandledInOrder /\ EmitterApart
      /\ EverywhereSome /\ EventsClosing
  BY DEF EventsInv
<1> DEFINE k == Len(eventCh)
           h == Len(handled)
           m == eventCh[1].no
<1>2. /\ eventCh # <<>> /\ processor = "running" /\ eventCh' = Tail(eventCh)
      /\ Head(eventCh).no = m
      /\ ok => handled' = Append(handled, m) /\ processor' = processor /\ lost' = lost
      /\ ~ok => processor' = "failed" /\ lost' = lost \cup {m} /\ handled' = handled
      /\ UNCHANGED <<streamKind, streamMode, eventClosed, eventCtx, emitter, events, eventPanic>>
  BY DEF Process
<1>3. /\ k \in Nat \ {0} /\ h \in Nat /\ eventCh \in Seq(Numbered) /\ handled \in Seq(Nat)
      /\ 1 \in 1 .. k /\ events \in Nat
  BY <1>1, <1>2 DEF EventsTypeOK
<1>4. /\ eventCh' \in Seq(Numbered) /\ Len(eventCh') = k - 1
      /\ \A i \in 1 .. k - 1 : eventCh'[i] = eventCh[i + 1] /\ i + 1 \in 1 .. k /\ 1 < i + 1
  BY <1>2, <1>3
<1>5. /\ m \in 1 .. events /\ m \notin lost /\ m \in Nat
      /\ \A i \in 2 .. k : Precedes(m, eventCh[i].no)
      /\ \A i \in 1 .. h : Precedes(handled[i], m)
      /\ \A e \in Emitter : emitter[e].no # m
  <2>1. m \in 1 .. events /\ m \notin lost
    BY <1>1, <1>3 DEF ChannelInOrder
  <2>2. m \in Nat /\ m # 0
    BY <1>3, <2>1
  <2>3. \A i \in 2 .. k : Precedes(m, eventCh[i].no)
    BY <1>1, <1>3 DEF ChannelInOrder
  <2>4. \A e \in Emitter : emitter[e].no # m
    BY <1>1, <1>3, <2>2 DEF EmitterApart, NoEvent
  <2> QED BY <1>1, <1>3, <2>1, <2>2, <2>3, <2>4 DEF HandledInOrder
<1>6. \A i \in 1 .. k - 1 : i + 1 \in 2 .. k
  BY <1>3
<1> HIDE DEF k, h, m
<1>7. ChannelInOrder'
  <2>1. ASSUME NEW i \in 1 .. k - 1
        PROVE  /\ eventCh'[i].no \in 1 .. events /\ shouldEmit(eventCh'[i].type)
               /\ eventCh'[i].no \notin lost'
    <3>1. /\ eventCh[i + 1].no \in 1 .. events /\ shouldEmit(eventCh[i + 1].type)
          /\ eventCh[i + 1].no \notin lost
      BY <1>1, <1>4 DEF ChannelInOrder, k
    <3>2. eventCh[i + 1].no # m
      BY <1>5, <1>6 DEF Precedes
    <3> QED BY <1>2, <1>4, <3>1, <3>2
  <2>2. ASSUME NEW i \in 1 .. k - 1, NEW j \in 1 .. k - 1, i < j
        PROVE  Precedes(eventCh'[i].no, eventCh'[j].no)
    <3>1. i + 1 \in 1 .. k /\ j + 1 \in 1 .. k /\ i + 1 < j + 1
      BY <1>3, <2>2
    <3>2. Precedes(eventCh[i + 1].no, eventCh[j + 1].no)
      BY <1>1, <3>1 DEF ChannelInOrder, k
    <3> QED BY <1>4, <3>2
  <2> QED BY <1>2, <1>4, <2>1, <2>2 DEF ChannelInOrder, Precedes, shouldEmit
<1>8. \A i \in 1 .. k - 1 : Precedes(m, eventCh'[i].no)
  BY <1>4, <1>5, <1>6
<1>9. \A i \in 1 .. h, j \in 1 .. k - 1 : Precedes(handled[i], eventCh'[j].no)
  BY <1>1, <1>4 DEF HandledInOrder, k, h
<1>10. \A e \in Emitter : emitter[e] # NoEvent =>
         /\ \A i \in 1 .. k : eventCh[i].no # emitter[e].no
         /\ \A i \in 1 .. h : handled[i] # emitter[e].no
  BY <1>1 DEF EmitterApart, k, h
<1>11. streamKind = "stream" => \A n \in 1 .. events :
         \/ n \in lost
         \/ \E i \in 1 .. h : handled[i] = n
         \/ \E i \in 1 .. k : eventCh[i].no = n
         \/ \E e \in Emitter : emitter[e].no = n
  BY <1>1 DEF EverywhereSome, k, h
<1>12. CASE ok
  <2>0. handled' = Append(handled, m)
    BY <1>2, <1>12
  <2>1. /\ handled' \in Seq(Nat) /\ Len(handled') = h + 1 /\ handled'[h + 1] = m
        /\ \A i \in 1 .. h : handled'[i] = handled[i]
    BY <1>3, <1>5, <2>0 DEF h
  <2>2. \A i \in 1 .. h + 1 : i \in 1 .. h \/ i = h + 1
    BY <1>3
  <2>3. EventsTypeOK'
    BY <1>1, <1>2, <1>4, <1>12, <2>1 DEF EventsTypeOK
  <2>4. \A i \in 1 .. h + 1 : handled'[i] \in 1 .. events /\ handled'[i] \notin lost
    BY <1>1, <1>5, <2>1, <2>2 DEF HandledInOrder, h
  <2>5. ASSUME NEW i \in 1 .. h + 1, NEW j \in 1 .. h + 1, i < j PROVE Precedes(handled'[i], handled'[j])
    <3>0. i \in 1 .. h
      BY <1>3, <2>5
    <3>1. CASE j \in 1 .. h
      BY <1>1, <2>1, <2>5, <3>0, <3>1 DEF HandledInOrder, h
    <3>2. CASE j = h + 1
      BY <1>5, <2>1, <3>0, <3>2
    <3> QED BY <2>2, <3>1, <3>2
  <2>6. \A i \in 1 .. h + 1, j \in 1 .. k - 1 : Precedes(handled'[i], eventCh'[j].no)
    BY <1>8, <1>9, <2>1, <2>2
  <2>7. HandledInOrder'
    BY <1>2, <1>4, <1>12, <2>1, <2>4, <2>5, <2>6 DEF HandledInOrder, Precedes
  <2>8. EmitterApart'
    <3>1. ASSUME NEW e \in Emitter, emitter[e] # NoEvent
          PROVE  /\ \A i \in 1 .. k - 1 : eventCh'[i].no # emitter[e].no
                 /\ \A i \in 1 .. h + 1 : handled'[i] # emitter[e].no
      BY <1>4, <1>5, <1>10, <2>1, <2>2, <3>1, SMTT(20)
    <3> QED BY <1>1, <1>2, <1>4, <1>12, <2>1, <3>1 DEF EmitterApart
  <2>9. EverywhereSome'
    <3>1. ASSUME NEW i \in 1 .. k
          PROVE  \/ \E j \in 1 .. h + 1 : handled'[j] = eventCh[i].no
                 \/ \E j \in 1 .. k - 1 : eventCh'[j].no = eventCh[i].no
      <4>1. CASE i = 1
        <5>1. h + 1 \in 1 .. h + 1
          BY <1>3
        <5> QED BY <2>1, <4>1, <5>1 DEF m
      <4>2. CASE i # 1
        <5>1. i - 1 \in 1 .. k - 1 /\ (i - 1) + 1 = i
          BY <1>3, <4>2
        <5> QED BY <1>4, <5>1
      <4> QED BY <4>1, <4>2
    <3>2. \A i \in 1 .. h : i \in 1 .. h + 1
      BY <1>3
    <3> SUFFICES ASSUME streamKind = "stream", NEW n \in 1 .. events
                 PROVE  \/ n \in lost
                        \/ \E i \in 1 .. h + 1 : handled'[i] = n
                        \/ \E i \in 1 .. k - 1 : eventCh'[i].no = n
                        \/ \E e \in Emitter : emitter[e].no = n
      BY <1>2, <1>4, <1>12, <2>1 DEF EverywhereSome
    <3>3. (\E i \in 1 .. h : handled[i] = n) => \E i \in 1 .. h + 1 : handled'[i] = n
      BY <2>1, <3>2
    <3> QED BY <1>11, <3>1, <3>3
  <2>10. EventsClosing'
    BY <1>1, <1>2, <1>12 DEF EventsClosing
  <2> QED BY <1>7, <2>3, <2>7, <2>8, <2>9, <2>10 DEF EventsInv
<1>13. CASE ~ok
  <2>1. handled' = handled /\ lost' = lost \cup {m} /\ processor' = "failed"
    BY <1>2, <1>13
  <2>2. EventsTypeOK'
    BY <1>1, <1>2, <1>4, <1>5, <2>1 DEF EventsTypeOK
  <2>3. HandledInOrder'
    <3>1. \A i \in 1 .. h : handled[i] \in 1 .. events /\ handled[i] \notin lost'
      BY <1>1, <1>5, <2>1 DEF HandledInOrder, Precedes, h
    <3> QED
      BY <1>1, <1>2, <1>4, <1>9, <2>1, <3>1 DEF HandledInOrder, Precedes, h
  <2>4. EmitterApart'
    <3>1. ASSUME NEW e \in Emitter, emitter[e] # NoEvent
          PROVE  \A i \in 1 .. k - 1 : eventCh'[i].no # emitter[e].no
      BY <1>1, <1>4, <3>1 DEF EmitterApart, k
    <3> QED BY <1>1, <1>2, <1>4, <1>5, <2>1, <3>1 DEF EmitterApart
  <2>5. EverywhereSome'
    <3>1. ASSUME NEW i \in 1 .. k
          PROVE  eventCh[i].no = m \/ \E j \in 1 .. k - 1 : eventCh'[j].no = eventCh[i].no
      <4>1. CASE i = 1
        BY <4>1 DEF m
      <4>2. CASE i # 1
        <5>1. i - 1 \in 1 .. k - 1 /\ (i - 1) + 1 = i
          BY <1>3, <4>2
        <5> QED BY <1>4, <5>1
      <4> QED BY <4>1, <4>2
    <3> QED BY <1>1, <1>2, <1>4, <2>1, <3>1 DEF EverywhereSome, k
  <2>6. EventsClosing'
    BY <1>1, <1>2, <2>1 DEF EventsClosing
  <2> QED BY <1>7, <2>2, <2>3, <2>4, <2>5, <2>6 DEF EventsInv
<1> QED BY <1>12, <1>13

LEMMA EventsInvNext == ASSUME EventsInv, EventsNext \/ UNCHANGED eventVars PROVE EventsInv'
<1>1. /\ EventsTypeOK /\ ChannelInOrder /\ HandledInOrder /\ EmitterApart
      /\ EverywhereSome /\ EventsClosing /\ events \in Nat
  BY DEF EventsInv, EventsTypeOK
<1>2. CASE UNCHANGED eventVars
  BY <1>2
    DEF eventVars, EventsInv, EventsTypeOK, ChannelInOrder, HandledInOrder,
        EmitterApart, EverywhereSome, EventsClosing, Precedes, shouldEmit
<1>3. ASSUME NEW method \in EventType \cup {"Write"}, ManagerEmits(method) PROVE EventsInv'
  <2>1. /\ streamKind = "manager" /\ events' = events + 1
        /\ UNCHANGED <<streamKind, streamMode, eventClosed, eventCtx, emitter, processor, handled,
                       eventPanic>>
    BY <1>3 DEF ManagerEmits
  <2>2. CASE eventCh' = eventCh
    <3>1. lost' \in {lost, lost \cup {events + 1}}
      BY <1>3, <2>2 DEF ManagerEmits
    <3> QED BY <2>1, <2>2, <3>1, EventIsNumbered
  <2>3. CASE eventCh' # eventCh
    <3>1. /\ shouldEmit(TypeOf(method)) /\ ~eventClosed /\ lost' = lost
          /\ eventCh' = Append(eventCh, Event(method))
      BY <1>3, <2>3 DEF ManagerEmits
    <3>2. /\ Event(method) \in Numbered /\ Event(method).no = events + 1
          /\ Event(method).type = TypeOf(method)
      BY <1>1, <1>3 DEF Event, Numbered, TypeOf, EventType
    <3>3. \A e \in Emitter : emitter[e] = NoEvent
      BY <1>1, <2>1 DEF EmitterApart
    <3>4. \A n \in 1 .. events : Precedes(n, events + 1)
      BY <1>1 DEF Precedes
    <3>5. /\ \A i \in 1 .. Len(eventCh) : Precedes(eventCh[i].no, events + 1)
          /\ \A i \in 1 .. Len(handled) : Precedes(handled[i], events + 1)
      BY <1>1, <3>4 DEF ChannelInOrder, HandledInOrder
    <3>6. events + 1 \in 1 .. events' /\ events + 1 \notin lost
      BY <1>1, <2>1 DEF EventsTypeOK
    <3>7. emitter \in [Emitter -> Numbered \cup {NoEvent}]
      BY <1>1 DEF EventsTypeOK
    <3> HIDE DEF Event
    <3> QED BY <2>1, <3>1, <3>2, <3>3, <3>5, <3>6, <3>7, EventJoins
  <2> QED BY <2>2, <2>3
<1>4. ASSUME NEW e \in Emitter, EmitBegins(e) PROVE EventsInv'
  BY <1>4, EventIsNumbered DEF EmitBegins
<1>5. ASSUME NEW e \in Emitter, EmitEnds(e) PROVE EventsInv'
  <2>1. /\ emitter[e] # NoEvent
        /\ UNCHANGED <<streamKind, streamMode, eventClosed, eventCtx, events, processor, handled>>
    BY <1>5 DEF EmitEnds
  <2>2. CASE eventClosed /\ eventPanic' = TRUE /\ UNCHANGED <<eventCh, emitter, lost>>
    <3>1. eventCtx
      BY <1>1, <2>1, <2>2 DEF EventsClosing, EmitterApart
    <3> QED BY <1>1, <2>1, <2>2, <3>1
            DEF EventsInv, EventsTypeOK, ChannelInOrder, HandledInOrder, EmitterApart,
                EverywhereSome, EventsClosing, Precedes, shouldEmit
  <2>3. CASE /\ ~eventClosed /\ eventCh' = Append(eventCh, emitter[e])
             /\ emitter' = [emitter EXCEPT ![e] = NoEvent] /\ UNCHANGED <<lost, eventPanic>>
    <3> DEFINE m == emitter[e]
    <3>1. /\ m \in Numbered /\ streamKind = "stream" /\ m.no \in 1 .. events /\ m.no \notin lost
          /\ \A i \in 1 .. Len(eventCh) : eventCh[i].no # m.no
          /\ \A i \in 1 .. Len(handled) : handled[i] # m.no
          /\ \A f \in Emitter \ {e} : emitter[f].no # m.no
      BY <1>1, <2>1 DEF EmitterApart, EventsTypeOK
    <3>2. m.type = "update" /\ streamMode = "debug"
      BY <1>1, <2>1, <3>1 DEF EmitterApart, EventsClosing
    <3>3. shouldEmit(m.type)
      BY <3>2 DEF shouldEmit, includeFilter, EventType
    <3>4. /\ emitter'[e] = NoEvent /\ \A f \in Emitter \ {e} : emitter'[f] = emitter[f]
          /\ emitter' \in [Emitter -> Numbered \cup {NoEvent}]
      BY <1>1, <2>3 DEF EventsTypeOK
    <3>5. /\ \A i \in 1 .. Len(eventCh) : Precedes(eventCh[i].no, m.no)
          /\ \A i \in 1 .. Len(handled) : Precedes(handled[i], m.no)
      BY <3>1 DEF Precedes
    <3>6. events' = events /\ events' # events + 1
      BY <1>1, <2>1
    <3>7. /\ \A f \in Emitter : emitter'[f] # NoEvent => emitter'[f] = emitter[f] /\ emitter'[f].no # m.no
          /\ \A f \in Emitter : emitter[f] # NoEvent /\ emitter'[f] = NoEvent => emitter[f] = m
      BY <3>1, <3>4
    <3>8. eventCh' = Append(eventCh, m)
      BY <2>3
    <3> HIDE DEF m
    <3> QED BY <2>1, <2>3, <3>1, <3>3, <3>4, <3>5, <3>6, <3>7, <3>8, EventJoins
  <2>4. CASE /\ lost' = lost \cup {emitter[e].no} /\ emitter' = [emitter EXCEPT ![e] = NoEvent]
             /\ UNCHANGED <<eventCh, eventPanic>>
    BY <2>1, <2>4, EventGivenUp
  <2> QED BY <1>5, <2>2, <2>3, <2>4 DEF EmitEnds
<1>6. ASSUME NEW ok \in BOOLEAN, Process(ok) PROVE EventsInv'
  BY <1>6, EventIsHandled
<1>7. CASE ManagerCloses \/ CancelContext \/ CancelCloses \/ ProcessEnds
  <2>1. UNCHANGED <<streamKind, streamMode, eventCh, emitter, events, lost, handled>>
    BY <1>7 DEF ManagerCloses, CancelContext, CancelCloses, ProcessEnds
  <2>2. ChannelInOrder' /\ HandledInOrder' /\ EmitterApart' /\ EverywhereSome'
    BY <1>1, <2>1
      DEF ChannelInOrder, HandledInOrder, EmitterApart, EverywhereSome,
          Precedes, shouldEmit
  <2>3. eventClosed' \in BOOLEAN /\ eventCtx' \in BOOLEAN /\ eventPanic' \in BOOLEAN
    BY <1>1, <1>7
      DEF EventsTypeOK, ManagerCloses, CancelContext, CancelCloses, ProcessEnds
  <2>4. EventsTypeOK'
    BY <1>1, <2>1, <2>3 DEF EventsTypeOK
  <2>5. EventsClosing'
    BY <1>1, <1>7, <2>1
      DEF EventsTypeOK, EventsClosing, ManagerCloses, CancelContext,
          CancelCloses, ProcessEnds
  <2> QED BY <2>2, <2>4, <2>5 DEF EventsInv
<1> QED BY <1>2, <1>3, <1>4, <1>5, <1>6, <1>7 DEF EventsNext

LEMMA EventsInvSound == EventsInv => EventsSound
<1> SUFFICES ASSUME EventsInv PROVE EventsSound
  OBVIOUS
<1>1. /\ EventsTypeOK /\ ChannelInOrder /\ HandledInOrder /\ EmitterApart
      /\ EverywhereSome /\ EventsClosing
  BY DEF EventsInv
<1> DEFINE k == Len(eventCh)
           h == Len(handled)
           rest == [i \in 1 .. k |-> eventCh[i].no]
<1>2. k \in Nat /\ h \in Nat /\ handled \in Seq(Nat)
  BY <1>1, ChannelLength DEF EventsTypeOK
<1>3. rest \in Seq(Nat) /\ Len(rest) = k
  BY <1>1, <1>2, ChannelLength DEF Numbered
<1>4. /\ Len(Kept) = h + k
      /\ \A i \in 1 .. h : Kept[i] = handled[i]
      /\ \A i \in h + 1 .. h + k : Kept[i] = rest[i - h] /\ i - h \in 1 .. k
  BY <1>2, <1>3 DEF Kept
<1>5. \A i \in h + 1 .. h + k : Kept[i] = eventCh[i - h].no
  BY <1>4
<1> HIDE DEF k, h, rest
<1>6. ASSUME NEW i \in 1 .. Len(Kept), NEW j \in 1 .. Len(Kept), i < j PROVE Precedes(Kept[i], Kept[j])
  <2>1. i \in 1 .. h \/ i \in h + 1 .. h + k
    BY <1>2, <1>4
  <2>2. j \in 1 .. h \/ j \in h + 1 .. h + k
    BY <1>2, <1>4
  <2>3. CASE i \in 1 .. h /\ j \in 1 .. h
    BY <1>1, <1>4, <1>6, <2>3 DEF HandledInOrder, h
  <2>4. CASE i \in 1 .. h /\ j \in h + 1 .. h + k
    BY <1>1, <1>4, <1>5, <2>4 DEF HandledInOrder, h, k
  <2>5. CASE i \in h + 1 .. h + k /\ j \in h + 1 .. h + k
    <3>1. i - h \in 1 .. k /\ j - h \in 1 .. k /\ i - h < j - h
      BY <1>2, <1>6, <2>5
    <3> QED BY <1>1, <1>5, <2>5, <3>1 DEF ChannelInOrder, k
  <2>6. CASE i \in h + 1 .. h + k /\ j \in 1 .. h
    BY <1>2, <1>6, <2>6
  <2> QED BY <2>1, <2>2, <2>3, <2>4, <2>5, <2>6
<1>7. Len(Kept) \in Nat
  BY <1>2, <1>4
<1>8. \A i, j \in 1 .. Len(Kept) : i # j => Kept[i] # Kept[j]
  BY <1>6, <1>7 DEF Precedes
<1>9. streamKind = "manager" => \A i, j \in 1 .. Len(Kept) : i < j => Kept[i] < Kept[j]
  BY <1>6 DEF Precedes
<1>10. \A n : n \in ToSet(handled) <=> \E i \in 1 .. h : handled[i] = n
  BY <1>2 DEF ToSet, h
<1>11. ToSet(handled) \cap lost = {}
  BY <1>1, <1>10 DEF HandledInOrder, h
<1>12. streamKind = "stream" /\ processor = "ended" =>
         1 .. events = ToSet(handled) \cup lost \cup ({emitter[e].no : e \in Emitter} \ {0})
  <2> SUFFICES ASSUME streamKind = "stream", processor = "ended"
               PROVE  1 .. events = ToSet(handled) \cup lost \cup ({emitter[e].no : e \in Emitter} \ {0})
    OBVIOUS
  <2>1. \A n \in 1 .. events : n \in lost \/ n \in ToSet(handled)
                             \/ \E e \in Emitter : emitter[e].no = n
    BY <1>1, <1>10 DEF EverywhereSome, EventsClosing, h
  <2>2. \A n \in 1 .. events : n # 0
    OBVIOUS
  <2>3. ToSet(handled) \subseteq 1 .. events /\ lost \subseteq 1 .. events
    BY <1>1, <1>10 DEF HandledInOrder, EventsTypeOK, h
  <2>4. \A e \in Emitter : emitter[e].no = 0 \/ emitter[e].no \in 1 .. events
    BY <1>1 DEF EmitterApart, NoEvent
  <2> QED BY <2>1, <2>2, <2>3, <2>4
<1> QED
  BY <1>1, <1>8, <1>9, <1>11, <1>12
    DEF EventsSound, ChannelInOrder, EventsClosing

-----------------------------------------------------------------------------
(* RemoteGraph: the answer to a request is in one spot: at the server, in  *)
(* a read loop, in the channel, or with the call that took it.             *)

RemoteConstants ==
    /\ "none" \notin Call /\ MaxConnects \in Nat
    /\ Kinds \subseteq [Call -> {"invoke", "stream", "http"}]

LoopState == [pc : {"off", "top", "reading", "has", "ended"}, on : Nat, has : Message \cup {NoMessage}]
CallState == [pc : {"new", "checked", "sending", "waiting", "done", "failed"},
              kind : {"invoke", "stream", "http"}, on : Nat, got : Message \cup {NoMessage}]

RemoteTypeOK ==
    /\ conn \in Nat /\ broken \subseteq Nat /\ chanClosed \in BOOLEAN
    /\ closer \in [pc : {"open", "closed", "writing", "done"}, on : Nat]
    /\ atServer \subseteq Call
    /\ messageChan \in Seq(Message) /\ begun \in Seq(Call)
    /\ loop \in [Conns -> LoopState] /\ call \in [Call -> CallState]

AnswersIn(q) == {q[i].id : i \in {j \in 1 .. Len(q) : IsAnswer(q[j])}}
OnceEach(q) ==
    \A i, j \in 1 .. Len(q) : i # j /\ IsAnswer(q[i]) /\ IsAnswer(q[j]) => q[i].id # q[j].id

Spot == {<<"server", 0>>, <<"chan", 0>>} \cup ({"loop"} \X Conns) \cup ({"call"} \X Call)
Has(p, d) ==
    \/ p[1] = "server" /\ d \in atServer
    \/ p[1] = "chan" /\ d \in AnswersIn(messageChan)
    \/ p[1] = "loop" /\ LET l == loop[p[2]] IN l.pc = "has" /\ IsAnswer(l.has) /\ l.has.id = d
    \/ p[1] = "call" /\ Finished(p[2]) /\ call[p[2]].got.id = d

\* The request of d has been sent.
IsSent(d) ==
    call[d].kind # "http" /\ call[d].pc \in {"waiting", "done", "failed"} /\
    \E i \in 1 .. Len(begun) : begun[i] = d

AnswersApart ==
    /\ OnceEach(messageChan)
    /\ \A p, q \in Spot, d \in Call : Has(p, d) /\ Has(q, d) => p = q
    /\ \A p \in Spot, d \in Call : Has(p, d) => IsSent(d)
AnswersTaken ==
    /\ \A c \in Call : Finished(c) => call[c].got \in Message /\ IsAnswer(call[c].got)
    /\ \A c \in Call : call[c].kind # "http" /\ call[c].pc # "done" => call[c].got = NoMessage
CallsBegun ==
    \A c \in Call : /\ call[c].pc \in {"checked", "sending", "waiting"} => call[c].kind # "http"
                    /\ call[c].pc = "sending" => \E i \in 1 .. Len(begun) : begun[i] = c

LoopsHold == \A r \in Conns : loop[r].pc = "has" => loop[r].has \in Message

PanicsExplained ==
    /\ remotePanic = "nil message" => broken # {} \/ isClosed
    /\ remotePanic = "closed channel" => conn > 1
    /\ remotePanic = "two writers" =>
         \E c \in Call : \/ call[c].pc \in {"checked", "sending"} /\ isClosed
                         \/ \E d \in Writers(call[c].on) \ {c} : call[c].pc = "checked"
ConnectionOrder ==
    /\ chanClosed => broken # {} \/ isClosed
    /\ chanClosed => \E r \in Conns : loop[r].pc = "ended"
    /\ \A r \in Conns : loop[r].pc # "off" => r <= conn
    /\ PanicsExplained
RemoteInv ==
    /\ RemoteTypeOK /\ AnswersApart /\ AnswersTaken /\ CallsBegun /\ LoopsHold /\ ConnectionOrder

LEMMA AnswerJoins ==
    ASSUME NEW q \in Seq(Message), NEW m \in Message
    PROVE  /\ AnswersIn(Append(q, m)) = AnswersIn(q) \cup (IF IsAnswer(m) THEN {m.id} ELSE {})
           /\ OnceEach(q) /\ (IsAnswer(m) => m.id \notin AnswersIn(q)) => OnceEach(Append(q, m))
<1> DEFINE n == Len(q)
           r == Append(q, m)
<1>1. /\ n \in Nat /\ r \in Seq(Message) /\ Len(r) = n + 1 /\ r[n + 1] = m
      /\ \A i \in 1 .. n : r[i] = q[i]
      /\ \A i \in 1 .. n : i \in 1 .. n + 1
      /\ \A i \in 1 .. n + 1 : i \in 1 .. n \/ i = n + 1
      /\ n + 1 \in 1 .. n + 1
  OBVIOUS
<1>2. \A d : d \in AnswersIn(q) <=> \E i \in 1 .. n : IsAnswer(q[i]) /\ q[i].id = d
  BY DEF AnswersIn
<1> HIDE DEF n, r
<1>3. \A d : d \in AnswersIn(r) <=> \E i \in 1 .. n + 1 : IsAnswer(r[i]) /\ r[i].id = d
  BY <1>1 DEF AnswersIn
<1>4. AnswersIn(r) = AnswersIn(q) \cup (IF IsAnswer(m) THEN {m.id} ELSE {})
  BY <1>1, <1>2, <1>3
<1>5. ASSUME OnceEach(q), IsAnswer(m) => m.id \notin AnswersIn(q) PROVE OnceEach(r)
  <2> SUFFICES ASSUME NEW i \in 1 .. n + 1, NEW j \in 1 .. n + 1, i # j, IsAnswer(r[i]),
                      IsAnswer(r[j])
               PROVE  r[i].id # r[j].id
    BY <1>1 DEF OnceEach
  <2>1. CASE i \in 1 .. n /\ j \in 1 .. n
    BY <1>1, <1>5, <2>1 DEF OnceEach, n
  <2>2. CASE i = n + 1 /\ j \in 1 .. n
    BY <1>1, <1>2, <1>5, <2>2
  <2>3. CASE i \in 1 .. n /\ j = n + 1
    BY <1>1, <1>2, <1>5, <2>3
  <2> QED BY <1>1, <2>1, <2>2, <2>3
<1> QED BY <1>4, <1>5 DEF r

LEMMA AnswerLeaves ==
    ASSUME NEW q \in Seq(Message), q # <<>>, OnceEach(q)
    PROVE  /\ AnswersIn(Tail(q)) \subseteq AnswersIn(q) /\ OnceEach(Tail(q))
           /\ Head(q) \in Message
           /\ IsAnswer(Head(q)) =>
                Head(q).id \in AnswersIn(q) /\ Head(q).id \notin AnswersIn(Tail(q))
<1> DEFINE n == Len(q)
           r == Tail(q)
<1>1. /\ n \in Nat \ {0} /\ r \in Seq(Message) /\ Len(r) = n - 1 /\ Head(q) = q[1]
      /\ 1 \in 1 .. n /\ q[1] \in Message
      /\ \A i \in 1 .. n - 1 : r[i] = q[i + 1] /\ i + 1 \in 1 .. n /\ i + 1 # 1
      /\ \A i, j \in 1 .. n - 1 : i # j => i + 1 # j + 1
  <2>1. n \in Nat \ {0}
    OBVIOUS
  <2>2. /\ r \in Seq(Message) /\ Len(r) = n - 1 /\ Head(q) = q[1]
        /\ \A i \in 1 .. n - 1 : r[i] = q[i + 1]
    OBVIOUS
  <2>3. 1 \in 1 .. n /\ q[1] \in Message
    BY <2>1
  <2>4. \A i \in 1 .. n - 1 : i + 1 \in 1 .. n /\ i + 1 # 1
    BY <2>1
  <2> QED BY <2>1, <2>2, <2>3, <2>4
<1>2. \A d : d \in AnswersIn(q) <=> \E i \in 1 .. n : IsAnswer(q[i]) /\ q[i].id = d
  BY DEF AnswersIn
<1>3. \A i, j \in 1 .. n : i # j /\ IsAnswer(q[i]) /\ IsAnswer(q[j]) => q[i].id # q[j].id
  BY DEF OnceEach
<1> HIDE DEF n, r
<1>4. \A d : d \in AnswersIn(r) <=> \E i \in 1 .. n - 1 : IsAnswer(r[i]) /\ r[i].id = d
  BY <1>1 DEF AnswersIn
<1>5. OnceEach(r)
  <2> SUFFICES ASSUME NEW i \in 1 .. n - 1, NEW j \in 1 .. n - 1, i # j, IsAnswer(r[i]),
                      IsAnswer(r[j])
               PROVE  r[i].id # r[j].id
    BY <1>1 DEF OnceEach
  <2>1. r[i] = q[i + 1] /\ r[j] = q[j + 1]
    BY <1>1
  <2>2. i + 1 \in 1 .. n /\ j + 1 \in 1 .. n /\ i + 1 # j + 1
    BY <1>1
  <2> QED BY <1>3, <2>1, <2>2
<1>6. AnswersIn(r) \subseteq AnswersIn(q)
  BY <1>1, <1>2, <1>4, SMTT(20)
<1>7. IsAnswer(q[1]) => q[1].id \in AnswersIn(q) /\ q[1].id \notin AnswersIn(r)
  BY <1>1, <1>2, <1>3, <1>4
<1> QED BY <1>1, <1>5, <1>6, <1>7 DEF r

LEMMA SpotsOf ==
    /\ <<"server", 0>> \in Spot /\ <<"chan", 0>> \in Spot
    /\ \A r \in Conns : <<"loop", r>> \in Spot
    /\ \A c \in Call : <<"call", c>> \in Spot
    /\ \A p \in Spot : \/ p = <<"server", 0>> \/ p = <<"chan", 0>>
                       \/ \E r \in Conns : p = <<"loop", r>>
                       \/ \E c \in Call : p = <<"call", c>>
  BY DEF Spot

LEMMA HasIn ==
    /\ \A d : Has(<<"server", 0>>, d) <=> d \in atServer
    /\ \A d : Has(<<"chan", 0>>, d) <=> d \in AnswersIn(messageChan)
    /\ \A r, d : Has(<<"loop", r>>, d) <=>
          loop[r].pc = "has" /\ IsAnswer(loop[r].has) /\ loop[r].has.id = d
    /\ \A c, d : Has(<<"call", c>>, d) <=> Finished(c) /\ call[c].got.id = d
  BY DEF Has

LEMMA RemoteInvInit == ASSUME RemoteConstants, RemoteInit PROVE RemoteInv
<1>1. /\ conn = 0 /\ broken = {} /\ closer = [pc |-> "open", on |-> 0]
      /\ atServer = {} /\ messageChan = <<>> /\ chanClosed = FALSE
      /\ loop = [r \in Conns |-> [AtTop EXCEPT !.pc = "off"]]
      /\ remotePanic = "none" /\ begun = <<>>
  BY DEF RemoteInit
<1>2. PICK kinds \in [Call -> {"invoke", "stream", "http"}] :
        call = [c \in Call |-> [pc |-> "new", kind |-> kinds[c], on |-> 0, got |-> NoMessage]]
  BY DEF RemoteInit, RemoteConstants
<1>3. \A c \in Call : call[c].pc = "new" /\ call[c].got = NoMessage
  BY <1>2
<1>4. call \in [Call -> CallState]
  BY <1>2 DEF CallState
<1>5. loop \in [Conns -> LoopState] /\ \A r \in Conns : loop[r].pc = "off"
  BY <1>1 DEF LoopState, AtTop
<1>6. RemoteTypeOK
  <2>1. messageChan \in Seq(Message) /\ begun \in Seq(Call)
    BY <1>1
  <2> QED BY <1>1, <1>4, <1>5, <2>1 DEF RemoteTypeOK
<1>7. AnswersIn(<<>>) = {} /\ OnceEach(<<>>)
  BY DEF AnswersIn, OnceEach
<1>8. \A p \in Spot : \A d : ~Has(p, d)
  BY <1>1, <1>3, <1>5, <1>7, SpotsOf, HasIn DEF Finished
<1>9. AnswersApart
  BY <1>1, <1>7, <1>8 DEF AnswersApart
<1>10. AnswersTaken /\ CallsBegun
  BY <1>3 DEF AnswersTaken, CallsBegun, Finished
<1>11. ConnectionOrder
  BY <1>1, <1>5 DEF ConnectionOrder, PanicsExplained
<1>12. LoopsHold
  BY <1>5 DEF LoopsHold
<1> QED BY <1>6, <1>9, <1>10, <1>11, <1>12 DEF RemoteInv

LEMMA RemoteInvSound == ASSUME RemoteConstants, RemoteInv PROVE AnswersAreSound
<1>1. RemoteTypeOK /\ AnswersApart /\ AnswersTaken /\ ConnectionOrder
  BY DEF RemoteInv
<1>2. ASSUME NEW c \in Call, Finished(c)
      PROVE  /\ call[c].got \in Message /\ IsAnswer(call[c].got) /\ call[c].got.id \in Call
             /\ IsSent(call[c].got.id)
             /\ \A d \in Call : Finished(d) /\ call[d].got.id = call[c].got.id => d = c
  <2> DEFINE e == call[c].got.id
  <2>1. call[c].got \in Message /\ IsAnswer(call[c].got) /\ e \in Call
    BY <1>1, <1>2 DEF AnswersTaken, Message
  <2>2. Has(<<"call", c>>, e) /\ <<"call", c>> \in Spot
    BY <1>2, HasIn, SpotsOf
  <2>3. ASSUME NEW d \in Call, Finished(d), call[d].got.id = e PROVE d = c
    <3>1. Has(<<"call", d>>, e) /\ <<"call", d>> \in Spot
      BY <2>3, HasIn, SpotsOf
    <3>2. <<"call", d>> = <<"call", c>>
      BY <1>1, <2>1, <2>2, <3>1 DEF AnswersApart
    <3> QED BY <3>2
  <2>4. IsSent(e)
    BY <1>1, <2>1, <2>2 DEF AnswersApart
  <2> QED BY <2>1, <2>3, <2>4
<1>3. ASSUME NEW c \in Call, Finished(c), begun # <<>>, Last(begun) = c, call[c].got.id # c
      PROVE  \E d \in Before(c) : call[d].got.id # d
  <2> DEFINE e == call[c].got.id
             n == Len(begun)
  <2>1. n \in Nat \ {0} /\ begun[n] = c /\ \A i \in 1 .. n : begun[i] \in Call
    BY <1>1, <1>3 DEF RemoteTypeOK, Last
  <2>2. e \in Call /\ IsSent(e)
    BY <1>2, <1>3
  <2>3. PICK i \in 1 .. n : begun[i] = e
    BY <2>2 DEF IsSent
  <2>4. i # n /\ n \in i + 1 .. n
    BY <1>3, <2>1, <2>3
  <2>5. e \in Before(c)
    BY <2>1, <2>3, <2>4 DEF Before
  <2>6. CASE Finished(e)
    <3>1. call[e].got.id # call[c].got.id
      BY <1>2, <1>3, <2>2, <2>6
    <3> QED BY <2>5, <3>1
  <2>7. CASE ~Finished(e)
    <3>1. call[e].got = NoMessage
      BY <1>1, <2>2, <2>7 DEF AnswersTaken, Finished, IsSent
    <3>2. call[e].got.id = "none" /\ "none" # e
      BY <2>2, <3>1 DEF NoMessage, RemoteConstants
    <3> QED BY <2>5, <3>2
  <2> QED BY <2>6, <2>7
<1>4. PanicsExplained
  BY <1>1 DEF ConnectionOrder
<1>5. \A c, d \in Call : Finished(c) /\ Finished(d) /\ c # d => call[c].got # call[d].got
  BY <1>2
<1> QED BY <1>2, <1>3, <1>4, <1>5 DEF AnswersAreSound, PanicsExplained

\* The answer d moves to a spot, or is lost; the others stay where they are, or
\* are lost.
LEMMA AnswersMove ==
    ASSUME AnswersApart, NEW d, NEW to, d \in Call => IsSent(d)',
           \A e \in Call : IsSent(e) => IsSent(e)', OnceEach(messageChan)',
           \A p \in Spot, e \in Call : Has(p, e)' =>
              (Has(p, e) /\ e # d) \/ (p = to /\ e = d)
    PROVE  AnswersApart'
<1>1. \A p, q \in Spot, e \in Call : Has(p, e)' /\ Has(q, e)' => p = q
  BY DEF AnswersApart
<1>2. \A p \in Spot, e \in Call : Has(p, e)' => IsSent(e)'
  BY DEF AnswersApart
<1>3. Spot' = Spot
  BY DEF Spot, Conns
<1> QED BY <1>1, <1>2, <1>3 DEF AnswersApart

\* The calls go on, and no answer moves.
GoesOn(d) ==
    /\ IsSent(d) => IsSent(d)'
    /\ (Finished(d))' <=> Finished(d)
    /\ Finished(d) => call'[d].got = call[d].got
    /\ call'[d].kind # "http" /\ call'[d].pc # "done" => call'[d].got = NoMessage

LEMMA CallsGoOn ==
    ASSUME AnswersApart, AnswersTaken, \A d \in Call : GoesOn(d),
           UNCHANGED <<atServer, messageChan>>,
           \A r \in Conns : loop'[r] = loop[r] \/ loop'[r].pc # "has"
                            \/ ~IsAnswer(loop'[r].has)
    PROVE  AnswersApart' /\ AnswersTaken'
<1>1. \A p \in Spot, e \in Call : Has(p, e)' => Has(p, e)
  <2> SUFFICES ASSUME NEW p \in Spot, NEW e \in Call, Has(p, e)' PROVE Has(p, e)
    OBVIOUS
  <2>1. CASE p = <<"server", 0>> \/ p = <<"chan", 0>>
    BY <2>1 DEF Has, AnswersIn
  <2>2. ASSUME NEW r \in Conns, p = <<"loop", r>> PROVE Has(p, e)
    BY <2>2 DEF Has
  <2>3. ASSUME NEW c \in Call, p = <<"call", c>> PROVE Has(p, e)
    BY <2>3 DEF Has, GoesOn
  <2> QED BY <2>1, <2>2, <2>3, SpotsOf
<1>2. OnceEach(messageChan)'
  BY DEF AnswersApart, OnceEach
<1>3. AnswersApart'
  <2>1. \A e \in Call : IsSent(e) => IsSent(e)'
    BY DEF GoesOn
  <2>2. \A p, q \in Spot, e \in Call : Has(p, e)' /\ Has(q, e)' => p = q
    BY <1>1 DEF AnswersApart
  <2>3. \A p \in Spot, e \in Call : Has(p, e)' => IsSent(e)'
    BY <1>1, <2>1 DEF AnswersApart
  <2>4. Spot' = Spot
    BY DEF Spot, Conns
  <2> QED BY <1>2, <2>2, <2>3, <2>4 DEF AnswersApart
<1>4. AnswersTaken'
  BY DEF AnswersTaken, GoesOn
<1> QED BY <1>3, <1>4

LEMMA LoopOf ==
    ASSUME NEW pc \in {"off", "top", "reading", "has", "ended"}, NEW g \in Nat,
           NEW m \in Message \cup {NoMessage}
    PROVE  /\ [pc |-> pc, on |-> g, has |-> m] \in LoopState
           /\ [pc |-> pc, on |-> g, has |-> m].pc = pc /\ [pc |-> pc, on |-> g, has |-> m].has = m
           /\ [AtTop EXCEPT !.pc = pc] = [pc |-> pc, on |-> 0, has |-> NoMessage]
           /\ [AtTop EXCEPT !.pc = pc, !.on = g] = [pc |-> pc, on |-> g, has |-> NoMessage]
           /\ [AtTop EXCEPT !.pc = pc, !.has = m] = [pc |-> pc, on |-> 0, has |-> m]
<1>1. [pc |-> pc, on |-> g, has |-> m] \in LoopState
  BY DEF LoopState
<1> DEFINE t == NoMessage
           a == [pc |-> "top", on |-> 0, has |-> t]
<1> HIDE DEF t
<1>2. [a EXCEPT !.pc = pc] = [pc |-> pc, on |-> 0, has |-> t]
  OBVIOUS
<1> DEFINE b == [pc |-> pc, on |-> 0, has |-> t]
<1>3. [b EXCEPT !.on = g] = [pc |-> pc, on |-> g, has |-> t]
  OBVIOUS
<1>4. [b EXCEPT !.has = m] = [pc |-> pc, on |-> 0, has |-> m]
  OBVIOUS
<1>5. AtTop = a
  BY DEF AtTop, t
<1> HIDE DEF a
<1> QED BY <1>1, <1>2, <1>3, <1>4, <1>5 DEF t

LEMMA RemoteInvNext ==
    ASSUME RemoteConstants, RemoteInv, RemoteNext \/ UNCHANGED remoteVars PROVE RemoteInv'
<1>1. RemoteTypeOK /\ AnswersApart /\ AnswersTaken /\ CallsBegun /\ LoopsHold /\ ConnectionOrder
  BY DEF RemoteInv
<1>2. /\ messageChan \in Seq(Message) /\ atServer \subseteq Call /\ conn \in Nat
      /\ begun \in Seq(Call) /\ Len(begun) \in Nat
      /\ loop \in [Conns -> LoopState] /\ call \in [Call -> CallState]
  BY <1>1 DEF RemoteTypeOK
<1>3. \A c \in Call : call[c].on \in Nat
  BY <1>2 DEF CallState
<1> DEFINE L(r, l) == loop' = [loop EXCEPT ![r] = l]
\* No call changes.
<1>4. ASSUME UNCHANGED <<call, begun>>
      PROVE  /\ CallsBegun'
             /\ \A d \in Call : GoesOn(d)
             /\ \A d : (Finished(d))' <=> Finished(d)
             /\ \A d : IsSent(d)' <=> IsSent(d)
             /\ AnswersTaken'
  <2>1. /\ \A d : (Finished(d))' <=> Finished(d)
        /\ \A d : IsSent(d)' <=> IsSent(d)
    BY <1>4 DEF Finished, IsSent
  <2>2. CallsBegun'
    BY <1>1, <1>4 DEF CallsBegun
  <2>3. \A d \in Call : GoesOn(d)
    BY <1>1, <1>4, <2>1 DEF AnswersTaken, GoesOn
  <2>4. AnswersTaken'
    BY <1>1, <1>4, <2>1 DEF AnswersTaken
  <2> QED BY <2>1, <2>2, <2>3, <2>4
\* The client panics.
<1>5. ASSUME NEW why, ClientPanics(why),
             why \in {"nil message", "closed channel", "two writers", "no connection"},
             why = "nil message" => chanClosed,
             why = "closed channel" => conn > 1,
             why = "two writers" =>
               \E c \in Call : \/ call[c].pc \in {"checked", "sending"} /\ isClosed
                               \/ \E d \in Writers(call[c].on) \ {c} : call[c].pc = "checked"
      PROVE  RemoteInv'
  <2>1. remotePanic' = why /\ UNCHANGED <<conn, broken, closer, atServer, loop, messageChan,
                                          chanClosed, call, begun>>
    BY <1>5 DEF ClientPanics
  <2>2. CallsBegun' /\ AnswersTaken' /\ AnswersApart'
    BY <1>1, <1>4, <2>1, CallsGoOn
  <2>3. RemoteTypeOK'
    BY <1>1, <2>1 DEF RemoteTypeOK, Conns
  <2>31. LoopsHold'
    BY <1>1, <2>1 DEF LoopsHold, Conns
  <2>4. isClosed' = isClosed /\ \A g : Writers(g)' = Writers(g)
    BY <2>1 DEF isClosed, Writers
  <2>5. PanicsExplained'
    BY <1>1, <1>5, <2>1, <2>4 DEF ConnectionOrder, PanicsExplained
  <2>6. ConnectionOrder'
    BY <1>1, <2>1, <2>4, <2>5 DEF ConnectionOrder, Conns
  <2> QED BY <2>2, <2>3, <2>31, <2>6 DEF RemoteInv
\* It goes on.
<1>6. ASSUME Alive, UNCHANGED remotePanic, conn' >= conn, broken \subseteq broken',
             isClosed => isClosed', conn' \in Nat,
             chanClosed' => chanClosed \/ ((broken' # {} \/ isClosed') /\ \E r \in Conns : loop'[r].pc = "ended"),
             \A r \in Conns : /\ loop[r].pc = "ended" => loop'[r].pc = "ended"
                              /\ loop'[r].pc # "off" => loop[r].pc # "off" \/ r <= conn'
      PROVE  ConnectionOrder'
  <2>1. remotePanic' = "none"
    BY <1>6 DEF Alive
  <2>2. PanicsExplained'
    BY <2>1 DEF PanicsExplained
  <2>3. chanClosed' => broken' # {} \/ isClosed'
    BY <1>1, <1>6 DEF ConnectionOrder
  <2>4. chanClosed' => \E r \in Conns : loop'[r].pc = "ended"
    BY <1>1, <1>6 DEF ConnectionOrder
  <2>5. \A r \in Conns : r \in Int
    BY DEF Conns
  <2>6. \A r \in Conns : loop'[r].pc # "off" => r <= conn'
    BY <1>1, <1>2, <1>6, <2>5 DEF ConnectionOrder
  <2>7. Conns' = Conns
    BY DEF Conns
  <2> QED BY <2>2, <2>3, <2>4, <2>6, <2>7 DEF ConnectionOrder
\* A loop that is going on finds the channel closed: there are two.
<1>7. ASSUME NEW r \in Conns, loop[r].pc \in {"top", "reading", "has"}, chanClosed
      PROVE  conn > 1
  <2>1. PICK s \in Conns : loop[s].pc = "ended"
    BY <1>1, <1>7 DEF ConnectionOrder
  <2>2. s # r /\ s <= conn /\ r <= conn
    BY <1>1, <1>7, <2>1 DEF ConnectionOrder
  <2>3. s \in Int /\ r \in Int /\ s >= 1 /\ r >= 1
    BY DEF Conns
  <2> QED BY <1>2, <2>2, <2>3
<1>8. ASSUME NEW r \in Conns, NEW l \in LoopState, L(r, l)
      PROVE  /\ loop' \in [Conns -> LoopState] /\ loop'[r] = l
             /\ \A s \in Conns : s # r => loop'[s] = loop[s]
  BY <1>2, <1>8
<1> HIDE DEF L
<1>10. CASE UNCHANGED remoteVars
  <2>1. UNCHANGED <<conn, broken, closer, atServer, loop, messageChan, chanClosed, call,
                    remotePanic, begun>>
    BY <1>10 DEF remoteVars
  <2>2. CallsBegun' /\ AnswersTaken' /\ AnswersApart'
    BY <1>1, <1>4, <2>1, CallsGoOn
  <2>3. isClosed' = isClosed /\ (\A g : Writers(g)' = Writers(g)) /\ Conns' = Conns
    BY <2>1 DEF isClosed, Writers, Conns
  <2>4. PanicsExplained'
    BY <1>1, <2>1, <2>3 DEF ConnectionOrder, PanicsExplained
  <2>5. ConnectionOrder'
    BY <1>1, <2>1, <2>3, <2>4 DEF ConnectionOrder
  <2>6. RemoteTypeOK' /\ LoopsHold'
    BY <1>1, <2>1, <2>3 DEF RemoteTypeOK, LoopsHold
  <2> QED BY <2>2, <2>5, <2>6 DEF RemoteInv
\* The client's own steps: no answer moves and no call goes on.
<1>11. ASSUME Alive, UNCHANGED <<atServer, messageChan, call, remotePanic, begun>>,
              conn' \in Nat, conn' >= conn, broken \subseteq broken', broken' \subseteq Nat,
              chanClosed' \in BOOLEAN,
              closer' \in [pc : {"open", "closed", "writing", "done"}, on : Nat],
              isClosed => isClosed',
              chanClosed' => chanClosed \/ ((broken' # {} \/ isClosed') /\ \E r \in Conns : loop'[r].pc = "ended"),
              loop' \in [Conns -> LoopState],
              \A r \in Conns : /\ loop[r].pc = "ended" => loop'[r].pc = "ended"
                               /\ loop'[r].pc # "off" => loop[r].pc # "off" \/ r <= conn'
                               /\ loop'[r] = loop[r] \/ loop'[r].pc # "has"
       PROVE  RemoteInv'
  <2>1. CallsBegun' /\ AnswersTaken' /\ AnswersApart'
    BY <1>1, <1>4, <1>11, CallsGoOn
  <2>2. ConnectionOrder'
    BY <1>6, <1>11
  <2>3. RemoteTypeOK' /\ LoopsHold'
    BY <1>1, <1>11 DEF RemoteTypeOK, LoopsHold, Conns
  <2> QED BY <2>1, <2>2, <2>3 DEF RemoteInv
<1>12. /\ broken \subseteq Nat /\ chanClosed \in BOOLEAN
       /\ closer \in [pc : {"open", "closed", "writing", "done"}, on : Nat]
  BY <1>1 DEF RemoteTypeOK
<1>13. CASE Connect
  <2>1. /\ Alive /\ conn < MaxConnects /\ conn' = conn + 1
        /\ L(conn + 1, AtTop)
        /\ UNCHANGED <<broken, closer, atServer, messageChan, chanClosed, call, remotePanic,
                       begun>>
    BY <1>13 DEF Connect, L
  <2>2. conn + 1 \in Conns
    BY <1>2, <2>1 DEF Conns, RemoteConstants
  <2>3. AtTop \in LoopState /\ AtTop.pc = "top"
    BY DEF AtTop, LoopState
  <2>4. /\ loop' \in [Conns -> LoopState] /\ loop'[conn + 1] = AtTop
        /\ \A s \in Conns : s # conn + 1 => loop'[s] = loop[s]
    BY <1>8, <2>1, <2>2, <2>3
  <2>5. loop[conn + 1].pc = "off"
    BY <1>1, <1>2, <2>2 DEF ConnectionOrder
  <2>6. isClosed' = isClosed
    BY <2>1 DEF isClosed
  <2>7. \A r \in Conns : /\ loop[r].pc = "ended" => loop'[r].pc = "ended"
                         /\ loop'[r].pc # "off" => loop[r].pc # "off" \/ r <= conn'
                         /\ loop'[r] = loop[r] \/ loop'[r].pc # "has"
    BY <1>2, <2>1, <2>2, <2>3, <2>4, <2>5
  <2>8. conn' \in Nat /\ conn' >= conn
    BY <1>2, <2>1
  <2> QED BY <1>11, <1>12, <2>1, <2>4, <2>6, <2>7, <2>8
<1>14. ASSUME NEW g \in Conns, Break(g) PROVE RemoteInv'
  <2>1. /\ Alive /\ broken' = broken \cup {g}
        /\ UNCHANGED <<conn, closer, atServer, loop, messageChan, chanClosed, call,
                       remotePanic, begun>>
    BY <1>14 DEF Break
  <2>2. g \in Nat /\ isClosed' = isClosed /\ conn >= conn
    BY <1>2, <2>1 DEF Conns, isClosed
  <2>3. loop' \in [Conns -> LoopState] /\ \A r \in Conns : loop'[r] = loop[r]
    BY <1>2, <2>1
  <2> QED BY <1>2, <1>11, <1>12, <2>1, <2>2, <2>3
<1>15. CASE Close \/ CloseEnds
  <2>1. /\ Alive /\ broken' \in {broken, broken \cup {conn}}
        /\ closer' \in [pc : {"open", "closed", "writing", "done"}, on : Nat]
        /\ isClosed'
        /\ UNCHANGED <<conn, atServer, loop, messageChan, chanClosed, call,
                       remotePanic, begun>>
    <3>1. CASE Close
      BY <1>12, <3>1 DEF Close, isClosed
    <3>2. CASE CloseEnds
      BY <1>12, <3>2 DEF CloseEnds, isClosed
    <3> QED BY <1>15, <3>1, <3>2
  <2>2. loop' \in [Conns -> LoopState] /\ (\A r \in Conns : loop'[r] = loop[r]) /\ conn >= conn
    BY <1>2, <2>1
  <2>3. broken' \subseteq Nat /\ broken \subseteq broken'
    BY <1>2, <1>12, <2>1
  <2> QED BY <1>2, <1>11, <1>12, <2>1, <2>2, <2>3
<1>16. CASE CloseWrites
  <2>1. Alive /\ closer.pc = "closed" /\ isClosed
    BY <1>16 DEF CloseWrites, isClosed
  <2>2. CASE Writers(conn) # {} /\ ClientPanics("two writers")
    <3>1. \E c \in Call : call[c].pc = "sending"
      BY <2>2 DEF Writers
    <3> QED BY <1>5, <2>1, <2>2, <3>1
  <2>3. CASE /\ closer' = [pc |-> IF conn = 0 THEN "done" ELSE "writing", on |-> conn]
             /\ UNCHANGED <<conn, broken, atServer, loop, messageChan, chanClosed, call,
                            remotePanic, begun>>
    <3>1. closer' \in [pc : {"open", "closed", "writing", "done"}, on : Nat] /\ isClosed'
      BY <1>2, <2>3 DEF isClosed
    <3>2. loop' \in [Conns -> LoopState] /\ (\A r \in Conns : loop'[r] = loop[r]) /\ conn >= conn
      BY <1>2, <2>3
    <3> QED BY <1>2, <1>11, <1>12, <2>1, <2>3, <3>1, <3>2
  <2> QED BY <1>16, <2>2, <2>3 DEF CloseWrites
\* A loop that takes no message.
<1>17. ASSUME NEW r \in Conns, ReadBegins(r) \/ ReadGarbage(r) PROVE RemoteInv'
  <2>1. PICK pc \in {"top", "reading"}, g \in Nat :
          /\ Alive /\ loop[r].pc \in {"top", "reading"}
          /\ L(r, [pc |-> pc, on |-> g, has |-> NoMessage])
          /\ UNCHANGED <<conn, broken, closer, atServer, messageChan, chanClosed, call,
                         remotePanic, begun>>
    <3>1. CASE ReadBegins(r)
      <4>1. [AtTop EXCEPT !.pc = "reading", !.on = conn]
              = [pc |-> "reading", on |-> conn, has |-> NoMessage]
        BY <1>2, LoopOf
      <4> QED BY <1>2, <3>1, <4>1 DEF ReadBegins, L
    <3>2. CASE ReadGarbage(r)
      BY <3>2 DEF ReadGarbage, L, AtTop
    <3> QED BY <1>17, <3>1, <3>2
  <2> DEFINE l == [pc |-> pc, on |-> g, has |-> NoMessage]
  <2>2. l \in LoopState /\ l.pc = pc
    BY LoopOf
  <2> HIDE DEF l
  <2>3. /\ loop' \in [Conns -> LoopState] /\ loop'[r] = l
        /\ \A s \in Conns : s # r => loop'[s] = loop[s]
    BY <1>8, <2>1, <2>2 DEF l
  <2>4. isClosed' = isClosed /\ conn >= conn
    BY <1>2, <2>1 DEF isClosed
  <2>5. \A s \in Conns : /\ loop[s].pc = "ended" => loop'[s].pc = "ended"
                         /\ loop'[s].pc # "off" => loop[s].pc # "off" \/ s <= conn'
                         /\ loop'[s] = loop[s] \/ loop'[s].pc # "has"
    BY <2>1, <2>2, <2>3
  <2> QED BY <1>2, <1>11, <1>12, <2>1, <2>3, <2>4, <2>5
<1>18. ASSUME NEW r \in Conns, ReadEnds(r) PROVE RemoteInv'
  <2>1. Alive /\ loop[r].pc \in {"top", "reading", "has"} /\ (broken # {} \/ isClosed)
    BY <1>18 DEF ReadEnds
  <2>2. CASE chanClosed /\ ClientPanics("closed channel")
    BY <1>5, <1>7, <2>1, <2>2
  <2>3. CASE /\ ~chanClosed /\ chanClosed' = TRUE
             /\ loop' = [loop EXCEPT ![r] = [AtTop EXCEPT !.pc = "ended"]]
             /\ UNCHANGED <<conn, broken, closer, atServer, messageChan, call, remotePanic,
                            begun>>
    <3> DEFINE l == [AtTop EXCEPT !.pc = "ended"]
    <3>1. l \in LoopState /\ l.pc = "ended"
      BY DEF AtTop, LoopState
    <3> HIDE DEF l
    <3>2. /\ loop' \in [Conns -> LoopState] /\ loop'[r] = l
          /\ \A s \in Conns : s # r => loop'[s] = loop[s]
      BY <1>8, <2>3, <3>1 DEF l, L
    <3>3. isClosed' = isClosed /\ conn >= conn
      BY <1>2, <2>3 DEF isClosed
    <3>4. \A s \in Conns : /\ loop[s].pc = "ended" => loop'[s].pc = "ended"
                           /\ loop'[s].pc # "off" => loop[s].pc # "off" \/ s <= conn'
                           /\ loop'[s] = loop[s] \/ loop'[s].pc # "has"
      BY <2>1, <3>1, <3>2
    <3> QED BY <1>2, <1>11, <1>12, <2>1, <2>3, <3>1, <3>2, <3>3, <3>4
  <2> QED BY <1>18, <2>2, <2>3 DEF ReadEnds
\* An answer moves from one spot to another.
<1>19. ASSUME NEW r \in Conns, NEW m \in Message, ReadMessage(r, m) PROVE RemoteInv'
  <2>1. PICK l \in {[pc |-> "has", on |-> 0, has |-> m], [pc |-> "top", on |-> 0, has |-> NoMessage]} :
          /\ Alive /\ loop[r].pc = "reading" /\ m.id \in atServer
          /\ atServer' = IF IsAnswer(m) THEN atServer \ {m.id} ELSE atServer
          /\ L(r, l)
          /\ UNCHANGED <<conn, broken, closer, messageChan, chanClosed, call, remotePanic,
                         begun>>
    BY <1>19 DEF ReadMessage, L, AtTop
  <2>2. l \in LoopState /\ l.pc \in {"has", "top"} /\ (l.pc = "has" => l.has = m)
    <3>1. /\ [pc |-> "has", on |-> 0, has |-> m] \in LoopState
          /\ [pc |-> "top", on |-> 0, has |-> NoMessage] \in LoopState
      BY DEF LoopState
    <3> QED BY <2>1, <3>1
  <2>3. /\ loop' \in [Conns -> LoopState] /\ loop'[r] = l
        /\ \A s \in Conns : s # r => loop'[s] = loop[s]
    BY <1>8, <2>1, <2>2
  <2>4. /\ CallsBegun' /\ AnswersTaken'
        /\ \A d : (Finished(d))' <=> Finished(d)
        /\ \A d : IsSent(d)' <=> IsSent(d)
    BY <1>4, <2>1
  <2>5. AnswersApart'
    <3>1. CASE ~IsAnswer(m)
      <4>1. atServer' = atServer /\ \A s \in Conns : loop'[s] = loop[s] \/ loop'[s].pc # "has"
                                     \/ ~IsAnswer(loop'[s].has)
        BY <2>1, <2>2, <2>3, <3>1
      <4> QED BY <1>1, <1>4, <2>1, <4>1, CallsGoOn
    <3>2. CASE IsAnswer(m)
      <4> DEFINE d == m.id
                 to == <<"loop", r>>
      <4>1. d \in Call /\ Has(<<"server", 0>>, d) /\ IsSent(d)
        BY <1>1, <1>2, <2>1, HasIn, SpotsOf DEF AnswersApart
      <4>2. ASSUME NEW p \in Spot, NEW e \in Call, Has(p, e)', ~(p = to /\ e = d)
            PROVE  Has(p, e) /\ e # d
        <5>0. \A q \in Spot : Has(q, d) => q = <<"server", 0>>
          BY <1>1, <4>1, SpotsOf DEF AnswersApart
        <5>1. CASE p = <<"server", 0>>
          BY <2>1, <3>2, <4>2, <5>1 DEF Has
        <5>2. CASE p = <<"chan", 0>>
          <6>1. Has(p, e)
            BY <2>1, <4>2, <5>2 DEF Has, AnswersIn
          <6> QED BY <5>0, <5>2, <6>1
        <5>3. ASSUME NEW s \in Conns, p = <<"loop", s>> PROVE Has(p, e) /\ e # d
          <6>1. CASE s = r
            BY <2>2, <2>3, <4>2, <5>3, <6>1 DEF Has
          <6>2. CASE s # r
            <7>1. Has(p, e)
              BY <2>3, <4>2, <5>3, <6>2 DEF Has
            <7> QED BY <5>0, <5>3, <7>1
          <6> QED BY <6>1, <6>2
        <5>4. ASSUME NEW c \in Call, p = <<"call", c>> PROVE Has(p, e) /\ e # d
          <6>1. Has(p, e)
            BY <2>1, <2>4, <4>2, <5>4 DEF Has
          <6> QED BY <5>0, <5>4, <6>1
        <5> QED BY <5>1, <5>2, <5>3, <5>4, SpotsOf
      <4>3. OnceEach(messageChan)' /\ IsSent(d)' /\ \A e \in Call : IsSent(e) => IsSent(e)'
        BY <1>1, <2>1, <2>4, <4>1 DEF AnswersApart, OnceEach
      <4> HIDE DEF d, to
      <4> QED BY <1>1, <4>2, <4>3, AnswersMove
    <3> QED BY <3>1, <3>2
  <2>6. ConnectionOrder'
    <3>1. isClosed' = isClosed /\ conn >= conn
      BY <1>2, <2>1 DEF isClosed
    <3>2. \A s \in Conns : /\ loop[s].pc = "ended" => loop'[s].pc = "ended"
                           /\ loop'[s].pc # "off" => loop[s].pc # "off" \/ s <= conn'
      BY <2>1, <2>2, <2>3
    <3> QED BY <1>2, <1>6, <2>1, <3>1, <3>2
  <2>7. RemoteTypeOK'
    <3>1. atServer' \subseteq Call
      BY <1>2, <2>1
    <3> QED BY <1>1, <2>1, <2>3, <3>1 DEF RemoteTypeOK, Conns
  <2>8. LoopsHold'
    BY <1>1, <2>2, <2>3 DEF LoopsHold, Conns
  <2> QED BY <2>4, <2>5, <2>6, <2>7, <2>8 DEF RemoteInv
<1>20. ASSUME NEW r \in Conns, Deliver(r) PROVE RemoteInv'
  <2>1. Alive /\ loop[r].pc = "has"
    BY <1>20 DEF Deliver
  <2>2. CASE chanClosed /\ ClientPanics("closed channel")
    BY <1>5, <1>7, <2>1, <2>2
  <2>3. CASE /\ ~chanClosed /\ messageChan' = Append(messageChan, loop[r].has)
             /\ loop' = [loop EXCEPT ![r] = AtTop]
             /\ UNCHANGED <<conn, broken, closer, atServer, chanClosed, call, remotePanic,
                            begun>>
    <3> DEFINE m == loop[r].has
               l == AtTop
    <3>1. l \in LoopState /\ l.pc = "top"
      BY DEF AtTop, LoopState
    <3> HIDE DEF l
    <3>2. /\ loop' \in [Conns -> LoopState] /\ loop'[r] = l
          /\ \A s \in Conns : s # r => loop'[s] = loop[s]
      BY <1>8, <2>3, <3>1 DEF l, L
    <3>3. /\ CallsBegun' /\ AnswersTaken'
          /\ \A d : (Finished(d))' <=> Finished(d)
          /\ \A d : IsSent(d)' <=> IsSent(d)
      BY <1>4, <2>3
    <3>4. ConnectionOrder'
      <4>1. isClosed' = isClosed /\ conn >= conn
        BY <1>2, <2>3 DEF isClosed
      <4>2. \A s \in Conns : /\ loop[s].pc = "ended" => loop'[s].pc = "ended"
                             /\ loop'[s].pc # "off" => loop[s].pc # "off" \/ s <= conn'
        BY <2>1, <3>1, <3>2
      <4> QED BY <1>2, <1>6, <2>1, <2>3, <4>1, <4>2
    <3>5. m \in Message \cup {NoMessage}
      BY <1>2 DEF LoopState
    <3>6. m \in Message
      BY <1>1, <2>1 DEF LoopsHold
    <3>61. LoopsHold'
      BY <1>1, <3>1, <3>2 DEF LoopsHold, Conns
    <3>7. RemoteTypeOK'
      <4>1. messageChan' \in Seq(Message)
        BY <1>2, <2>3, <3>6
      <4> QED BY <1>1, <2>3, <3>2, <4>1 DEF RemoteTypeOK, Conns
    <3>8. IsAnswer(m) => m.id \in Call /\ Has(<<"loop", r>>, m.id) /\ <<"loop", r>> \in Spot
      BY <2>1, <3>6, HasIn, SpotsOf DEF Message
    <3>9. IsAnswer(m) => m.id \notin AnswersIn(messageChan)
      <4> SUFFICES ASSUME IsAnswer(m), Has(<<"chan", 0>>, m.id) PROVE FALSE
        BY HasIn
      <4>1. <<"chan", 0>> = <<"loop", r>>
        BY <1>1, <3>8, SpotsOf DEF AnswersApart
      <4> QED BY <4>1
    <3>10. /\ AnswersIn(messageChan') = AnswersIn(messageChan) \cup (IF IsAnswer(m) THEN {m.id} ELSE {})
           /\ OnceEach(messageChan')
      <4> HIDE DEF m
      <4>1. OnceEach(messageChan)
        BY <1>1 DEF AnswersApart
      <4> QED BY <1>2, <2>3, <3>6, <3>9, <4>1, AnswerJoins DEF m
    <3>11. AnswersApart'
      <4> DEFINE to == <<"chan", 0>>
      <4>0. PICK d : d = IF IsAnswer(m) THEN m.id ELSE "none"
        OBVIOUS
      <4>1. d \in Call => IsAnswer(m) /\ d = m.id /\ IsSent(d) /\ \A q \in Spot : Has(q, d) => q = <<"loop", r>>
        BY <1>1, <3>8, <4>0 DEF AnswersApart, RemoteConstants
      <4>2. ASSUME NEW p \in Spot, NEW e \in Call, Has(p, e)', ~(p = to /\ e = d)
            PROVE  Has(p, e) /\ e # d
        <5>1. CASE p = <<"server", 0>>
          <6>1. Has(p, e)
            BY <2>3, <4>2, <5>1 DEF Has
          <6> QED BY <4>1, <5>1, <6>1
        <5>2. CASE p = <<"chan", 0>>
          <6>1. e \in AnswersIn(messageChan') /\ e # d
            BY <4>2, <5>2 DEF Has, AnswersIn
          <6>2. e \in AnswersIn(messageChan)
            BY <3>10, <4>0, <6>1
          <6> QED BY <5>2, <6>1, <6>2 DEF Has
        <5>3. ASSUME NEW s \in Conns, p = <<"loop", s>> PROVE Has(p, e) /\ e # d
          <6>1. s # r
            BY <3>1, <3>2, <4>2, <5>3 DEF Has
          <6>2. Has(p, e)
            BY <3>2, <4>2, <5>3, <6>1 DEF Has
          <6> QED BY <4>1, <5>3, <6>1, <6>2
        <5>4. ASSUME NEW c \in Call, p = <<"call", c>> PROVE Has(p, e) /\ e # d
          <6>1. Has(p, e)
            BY <2>3, <3>3, <4>2, <5>4 DEF Has
          <6> QED BY <4>1, <5>4, <6>1
        <5> QED BY <5>1, <5>2, <5>3, <5>4, SpotsOf
      <4>3. /\ OnceEach(messageChan)' /\ (d \in Call => IsSent(d)')
            /\ \A e \in Call : IsSent(e) => IsSent(e)'
        BY <3>3, <3>10, <4>1 DEF OnceEach
      <4> HIDE DEF to
      <4> QED BY <1>1, <4>2, <4>3, AnswersMove
    <3> QED BY <3>3, <3>4, <3>61, <3>7, <3>11 DEF RemoteInv
  <2> QED BY <1>20, <2>2, <2>3 DEF Deliver
\* A call that takes no message.
<1>21. ASSUME NEW c \in Call, NEW pc \in {"checked", "sending", "waiting", "failed"}, NEW g \in Nat,
              Alive, call' = [call EXCEPT ![c].pc = pc, ![c].on = g],
              call[c].kind # "http", call[c].pc # "done",
              UNCHANGED <<conn, broken, closer, loop, messageChan, chanClosed, remotePanic>>,
              begun' = IF pc = "sending" THEN Append(begun, c) ELSE begun,
              pc = "checked" => call[c].pc = "new",
              pc = "sending" => call[c].pc = "checked",
              pc = "waiting" => call[c].pc = "sending",
              atServer' = atServer \/ (atServer' = atServer \cup {c} /\ pc = "waiting")
       PROVE  RemoteInv'
  <2>1. /\ call' \in [Call -> CallState]
        /\ call'[c].pc = pc /\ call'[c].kind = call[c].kind /\ call'[c].got = call[c].got
        /\ \A d \in Call : d # c => call'[d] = call[d]
    <3>1. call[c] \in CallState
      BY <1>2
    <3>2. [call[c] EXCEPT !.pc = pc, !.on = g] \in CallState
      BY <3>1 DEF CallState
    <3> QED BY <1>2, <1>21, <3>2 DEF CallState
  <2>2. /\ begun' \in Seq(Call)
        /\ \A i \in 1 .. Len(begun) : i \in 1 .. Len(begun') /\ begun'[i] = begun[i]
        /\ pc = "sending" => \E i \in 1 .. Len(begun') : begun'[i] = c
    <3>1. CASE pc = "sending"
      <4>1. begun' = Append(begun, c)
        BY <1>21, <3>1
      <4>2. /\ begun' \in Seq(Call) /\ Len(begun') = Len(begun) + 1 /\ begun'[Len(begun) + 1] = c
            /\ Len(begun) + 1 \in 1 .. Len(begun')
            /\ \A i \in 1 .. Len(begun) : begun'[i] = begun[i] /\ i \in 1 .. Len(begun')
        BY <1>2, <4>1
      <4> QED BY <4>2
    <3>2. CASE pc # "sending"
      BY <1>2, <1>21, <3>2
    <3> QED BY <3>1, <3>2
  <2>3. \A d \in Call : GoesOn(d)
    BY <1>1, <1>21, <2>1, <2>2 DEF IsSent, Finished, AnswersTaken, GoesOn
  <2>4. AnswersTaken'
    BY <1>1, <2>3 DEF AnswersTaken, GoesOn
  <2>5. CallsBegun'
    BY <1>1, <1>21, <2>1, <2>2 DEF CallsBegun
  <2>6. AnswersApart'
    <3>1. CASE atServer' = atServer
      BY <1>1, <1>21, <2>3, <3>1, CallsGoOn
    <3>2. CASE atServer' = atServer \cup {c} /\ pc = "waiting"
      <4>1. ~IsSent(c) /\ IsSent(c)'
        BY <1>1, <1>21, <2>1, <2>2, <3>2 DEF IsSent, CallsBegun
      <4>2. \A p \in Spot : ~Has(p, c)
        BY <1>1, <4>1 DEF AnswersApart
      <4> DEFINE to == <<"server", 0>>
      <4>3. ASSUME NEW p \in Spot, NEW e \in Call, Has(p, e)', ~(p = to /\ e = c)
            PROVE  Has(p, e) /\ e # c
        <5>1. Has(p, e)
          <6>1. CASE p = <<"server", 0>>
            BY <3>2, <4>3, <6>1 DEF Has
          <6>2. CASE p = <<"chan", 0>>
            BY <1>21, <4>3, <6>2 DEF Has, AnswersIn
          <6>3. ASSUME NEW s \in Conns, p = <<"loop", s>> PROVE Has(p, e)
            BY <1>21, <4>3, <6>3 DEF Has
          <6>4. ASSUME NEW d \in Call, p = <<"call", d>> PROVE Has(p, e)
            BY <2>3, <4>3, <6>4 DEF Has, GoesOn
          <6> QED BY <6>1, <6>2, <6>3, <6>4, SpotsOf
        <5> QED BY <4>2, <5>1
      <4>4. OnceEach(messageChan)' /\ \A e \in Call : IsSent(e) => IsSent(e)'
        BY <1>1, <1>21, <2>3 DEF AnswersApart, OnceEach, GoesOn
      <4> HIDE DEF to
      <4> QED BY <1>1, <4>1, <4>3, <4>4, AnswersMove
    <3> QED BY <1>21, <3>1, <3>2
  <2>7. ConnectionOrder'
    <3>1. isClosed' = isClosed /\ conn >= conn
      BY <1>2, <1>21 DEF isClosed
    <3> QED BY <1>2, <1>6, <1>21, <3>1
  <2>8. RemoteTypeOK'
    <3>1. atServer' \subseteq Call
      BY <1>2, <1>21
    <3> QED BY <1>1, <1>21, <2>1, <2>2, <3>1 DEF RemoteTypeOK, Conns
  <2>9. LoopsHold'
    BY <1>1, <1>21 DEF LoopsHold, Conns
  <2> QED BY <2>4, <2>5, <2>6, <2>7, <2>8, <2>9 DEF RemoteInv
<1>22. ASSUME NEW c \in Call, NEW pc, Goes(c, pc)
       PROVE  call' = [call EXCEPT ![c].pc = pc, ![c].on = call[c].on]
  BY <1>2, <1>22 DEF Goes, CallState
<1>23. ASSUME NEW c \in Call, SendChecks(c) PROVE RemoteInv'
  <2>1. PICK pc \in {"checked", "failed"} :
          /\ Alive /\ call[c].pc = "new" /\ call[c].kind # "http"
          /\ call' = [call EXCEPT ![c].pc = pc, ![c].on = conn]
          /\ UNCHANGED <<conn, broken, closer, atServer, loop, messageChan, chanClosed,
                         remotePanic, begun>>
    BY <1>23 DEF SendChecks
  <2>2. call[c].pc # "done" /\ pc # "sending" /\ pc # "waiting"
    BY <2>1
  <2> QED BY <1>2, <1>21, <2>1, <2>2
<1>24. ASSUME NEW c \in Call, SendBegins(c) PROVE RemoteInv'
  <2> DEFINE g == call[c].on
  <2>1. Alive /\ call[c].pc = "checked" /\ call[c].kind # "http"
    BY <1>1, <1>24 DEF SendBegins, CallsBegun
  <2>2. CASE g = 0 /\ ClientPanics("no connection")
    BY <1>5, <2>2
  <2>3. CASE /\ Writers(g) # {} \/ closer = [pc |-> "writing", on |-> g]
             /\ ClientPanics("two writers")
    <3>1. \/ call[c].pc \in {"checked", "sending"} /\ isClosed
          \/ \E d \in Writers(g) \ {c} : call[c].pc = "checked"
      <4>1. CASE closer = [pc |-> "writing", on |-> g]
        BY <2>1, <4>1 DEF isClosed
      <4>2. CASE Writers(g) # {}
        <5>1. PICK d \in Call : d \in Writers(g) /\ call[d].pc = "sending"
          BY <4>2 DEF Writers
        <5>2. d # c
          BY <2>1, <5>1
        <5> QED BY <2>1, <5>1, <5>2
      <4> QED BY <2>3, <4>1, <4>2
    <3> QED BY <1>5, <2>3, <3>1
  <2>4. CASE /\ Goes(c, "sending") /\ begun' = Append(begun, c)
             /\ UNCHANGED <<conn, broken, closer, atServer, loop, messageChan, chanClosed,
                            remotePanic>>
    <3>1. call[c].pc # "done" /\ call' = [call EXCEPT ![c].pc = "sending", ![c].on = g]
      BY <1>22, <2>1, <2>4
    <3> HIDE DEF g
    <3>2. g \in Nat
      BY <1>3 DEF g
    <3> QED BY <1>21, <2>1, <2>4, <3>1, <3>2
  <2> QED BY <1>24, <2>2, <2>3, <2>4 DEF SendBegins
<1>25. ASSUME NEW c \in Call, SendEnds(c) \/ GivesUp(c) PROVE RemoteInv'
  <2> DEFINE g == call[c].on
  <2>1. PICK pc \in {"waiting", "failed"} :
          /\ Alive /\ call[c].pc \in {"sending", "waiting"} /\ Goes(c, pc)
          /\ pc = "waiting" => call[c].pc = "sending"
          /\ atServer' = atServer \/ (atServer' = atServer \cup {c} /\ pc = "waiting")
          /\ UNCHANGED <<conn, broken, closer, loop, messageChan, chanClosed, remotePanic,
                         begun>>
    <3>1. CASE SendEnds(c)
      BY <3>1 DEF SendEnds
    <3>2. CASE GivesUp(c)
      BY <3>2 DEF GivesUp
    <3> QED BY <1>25, <3>1, <3>2
  <2>2. call[c].kind # "http" /\ call[c].pc # "done" /\ pc # "sending" /\ pc # "checked"
    BY <1>1, <2>1 DEF CallsBegun
  <2>3. call' = [call EXCEPT ![c].pc = pc, ![c].on = g]
    BY <1>22, <2>1
  <2> HIDE DEF g
  <2>4. g \in Nat
    BY <1>3 DEF g
  <2> QED BY <1>21, <2>1, <2>2, <2>3, <2>4
<1>26. ASSUME NEW c \in Call, ReceiveNil(c) PROVE RemoteInv'
  BY <1>5, <1>26 DEF ReceiveNil
\* One that ends.
<1>27. ASSUME NEW c \in Call, HttpRequest(c) PROVE RemoteInv'
  <2>1. PICK pc \in {"failed", "done"},
             got \in {[type |-> "execute_response", id |-> c], call[c].got} :
          /\ Alive /\ call[c].kind = "http"
          /\ call' = [call EXCEPT ![c].pc = pc, ![c].got = got]
          /\ UNCHANGED <<conn, broken, closer, atServer, loop, messageChan, chanClosed,
                         remotePanic, begun>>
    BY <1>27 DEF HttpRequest
  <2>2. /\ call' \in [Call -> CallState] /\ call'[c].pc = pc /\ call'[c].kind = "http"
        /\ \A d \in Call : d # c => call'[d] = call[d]
    <3>1. call[c] \in CallState /\ got \in Message \cup {NoMessage}
      BY <1>2, <2>1 DEF Message, MessageType, CallState
    <3>2. [call[c] EXCEPT !.pc = pc, !.got = got] \in CallState
      BY <3>1 DEF CallState
    <3> QED BY <1>2, <2>1, <3>2 DEF CallState
  <2>3. \A d \in Call : GoesOn(d)
    BY <1>1, <2>1, <2>2 DEF IsSent, Finished, AnswersTaken, GoesOn
  <2>4. AnswersApart' /\ AnswersTaken'
    BY <1>1, <2>1, <2>3, CallsGoOn
  <2>5. CallsBegun'
    BY <1>1, <2>1, <2>2 DEF CallsBegun
  <2>6. ConnectionOrder'
    <3>1. isClosed' = isClosed /\ conn >= conn
      BY <1>2, <2>1 DEF isClosed
    <3> QED BY <1>2, <1>6, <2>1, <3>1
  <2>7. RemoteTypeOK' /\ LoopsHold'
    BY <1>1, <2>1, <2>2 DEF RemoteTypeOK, LoopsHold, Conns
  <2> QED BY <2>4, <2>5, <2>6, <2>7 DEF RemoteInv
<1>28. ASSUME NEW c \in Call, ReceiveMessage(c) PROVE RemoteInv'
  <2> DEFINE m == Head(messageChan)
  <2>1. /\ Alive /\ call[c].pc = "waiting" /\ call[c].kind # "http"
        /\ messageChan # <<>> /\ messageChan' = Tail(messageChan)
        /\ call' = IF Ends(c, m) THEN [call EXCEPT ![c].pc = "done", ![c].got = m] ELSE call
        /\ UNCHANGED <<conn, broken, closer, atServer, loop, chanClosed, remotePanic,
                       begun>>
    BY <1>1, <1>28 DEF ReceiveMessage, CallsBegun
  <2>2. /\ m \in Message /\ AnswersIn(messageChan') \subseteq AnswersIn(messageChan)
        /\ OnceEach(messageChan')
        /\ IsAnswer(m) => m.id \in AnswersIn(messageChan) /\ m.id \notin AnswersIn(messageChan')
    BY <1>1, <1>2, <2>1, AnswerLeaves DEF AnswersApart
  <2>3. messageChan' \in Seq(Message) /\ (Ends(c, m) => IsAnswer(m))
    BY <1>2, <2>1 DEF Ends, IsAnswer
  <2>4. m.id \in Call
    BY <2>2 DEF Message, MessageType
  <2> HIDE DEF m
  <2>5. ConnectionOrder'
    <3>1. isClosed' = isClosed /\ conn >= conn
      BY <1>2, <2>1 DEF isClosed
    <3> QED BY <1>2, <1>6, <2>1, <3>1
  <2>6. /\ call' \in [Call -> CallState]
        /\ \A d \in Call : d # c => call'[d] = call[d]
        /\ call'[c].kind # "http"
        /\ IF Ends(c, m) THEN call'[c].pc = "done" /\ call'[c].got = m
                         ELSE call'[c] = call[c]
    <3>1. CASE Ends(c, m)
      <4>1. [call[c] EXCEPT !.pc = "done", !.got = m] \in CallState
        BY <1>2, <2>2 DEF CallState
      <4> QED BY <1>2, <2>1, <3>1, <4>1 DEF CallState
    <3>2. CASE ~Ends(c, m)
      BY <1>2, <2>1, <3>2
    <3> QED BY <3>1, <3>2
  <2>7. RemoteTypeOK' /\ LoopsHold'
    BY <1>1, <2>1, <2>3, <2>6 DEF RemoteTypeOK, LoopsHold, Conns
  <2>8. CallsBegun'
    BY <1>1, <2>1, <2>6 DEF CallsBegun
  <2>9. /\ \A d \in Call : IsSent(d) => IsSent(d)'
        /\ \A d \in Call : d # c => ((Finished(d))' <=> Finished(d))
        /\ ~Finished(c) /\ ((Finished(c))' <=> Ends(c, m))
    BY <2>1, <2>6 DEF IsSent, Finished
  <2>10. AnswersTaken'
    BY <1>1, <2>1, <2>2, <2>3, <2>6, <2>9 DEF AnswersTaken
  <2>11. AnswersApart'
    <3> DEFINE to == <<"call", c>>
    <3>0. PICK d : d = IF IsAnswer(m) THEN m.id ELSE "none"
      OBVIOUS
    <3>1. d \in Call => IsAnswer(m) /\ d = m.id /\ IsSent(d) /\ \A q \in Spot : Has(q, d) => q = <<"chan", 0>>
      <4> SUFFICES ASSUME d \in Call PROVE IsSent(d) /\ \A q \in Spot : Has(q, d) => q = <<"chan", 0>>
        BY <3>0 DEF RemoteConstants
      <4>1. IsAnswer(m) /\ d = m.id
        BY <3>0 DEF RemoteConstants
      <4>2. Has(<<"chan", 0>>, d)
        BY <2>2, <4>1, HasIn
      <4> QED BY <1>1, <4>2, SpotsOf DEF AnswersApart
    <3>2. ASSUME NEW p \in Spot, NEW e \in Call, Has(p, e)', ~(p = to /\ e = d)
          PROVE  Has(p, e) /\ e # d
      <4>1. CASE p = <<"server", 0>>
        <5>1. Has(p, e)
          BY <2>1, <3>2, <4>1 DEF Has
        <5> QED BY <3>1, <4>1, <5>1
      <4>2. CASE p = <<"chan", 0>>
        <5>1. e \in AnswersIn(messageChan')
          BY <3>2, <4>2 DEF Has, AnswersIn
        <5>2. e # d
          BY <2>2, <3>1, <5>1
        <5> QED BY <2>2, <4>2, <5>1, <5>2 DEF Has
      <4>3. ASSUME NEW s \in Conns, p = <<"loop", s>> PROVE Has(p, e) /\ e # d
        <5>1. Has(p, e)
          BY <2>1, <3>2, <4>3 DEF Has
        <5> QED BY <3>1, <4>3, <5>1
      <4>4. ASSUME NEW b \in Call, p = <<"call", b>> PROVE Has(p, e) /\ e # d
        <5>1. (Finished(b))' /\ call'[b].got.id = e
          BY <3>2, <4>4 DEF Has
        <5>2. b # c
          BY <2>3, <2>6, <2>9, <3>0, <3>2, <4>4, <5>1
        <5>3. Has(p, e)
          BY <2>6, <2>9, <4>4, <5>1, <5>2 DEF Has
        <5> QED BY <3>1, <4>4, <5>3
      <4> QED BY <4>1, <4>2, <4>3, <4>4, SpotsOf
    <3>3. /\ OnceEach(messageChan)' /\ (d \in Call => IsSent(d)')
          /\ \A e \in Call : IsSent(e) => IsSent(e)'
      BY <2>2, <2>9, <3>1 DEF OnceEach
    <3> HIDE DEF to
    <3> QED BY <1>1, <3>2, <3>3, AnswersMove
  <2> QED BY <2>5, <2>7, <2>8, <2>10, <2>11 DEF RemoteInv
<1>29. [type : MessageType, id : atServer] \subseteq Message
  BY <1>1 DEF Message, RemoteTypeOK
<1> QED
  BY <1>10, <1>13, <1>14, <1>15, <1>16, <1>17, <1>18, <1>19, <1>20, <1>23, <1>24, <1>25, <1>26,
     <1>27, <1>28, <1>29
    DEF RemoteNext

-----------------------------------------------------------------------------
(* ChannelStreams: of each source, what was read comes before what is in   *)
(* the output, that before what its forwarder holds, and that before what  *)
(* is in its own channel.                                                  *)

DuplexConstants == "none" \notin Source /\ "output" \notin Source

Chunk == Source \X Nat
Forwarder == [pc : {"next", "emit", "send", "ended"}, chunk : Nat]
DuplexTypeOK ==
    /\ buffer \in [Source -> Seq(Nat)] /\ sourceClosed \subseteq Source
    /\ producer \in [Source -> [pc : {"idle", "send"}, made : Nat]]
    /\ forwarder \in [Source -> Forwarder]
    /\ output \in Seq(Chunk) /\ read \in Seq(Chunk) /\ dropped \subseteq Chunk
    /\ outputClosed \in BOOLEAN /\ closing \in {"no", "wait", "closed"}

ReadInOrder ==
    /\ \A i \in 1 .. Len(read) : read[i][2] \in 1 .. producer[read[i][1]].made
    /\ \A i, j \in 1 .. Len(read) : i < j /\ read[i][1] = read[j][1] => read[i][2] < read[j][2]
    /\ \A i \in 1 .. Len(read), j \in 1 .. Len(output) :
         read[i][1] = output[j][1] => read[i][2] < output[j][2]
OutputInOrder ==
    /\ \A i \in 1 .. Len(output) : output[i][2] \in 1 .. producer[output[i][1]].made
    /\ \A i, j \in 1 .. Len(output) :
         i < j /\ output[i][1] = output[j][1] => output[i][2] < output[j][2]
HeldInOrder ==
    \A s \in Source : Held(s) =>
      /\ forwarder[s].chunk \in 1 .. producer[s].made
      /\ \A i \in 1 .. Len(read) : read[i][1] = s => read[i][2] < forwarder[s].chunk
      /\ \A i \in 1 .. Len(output) : output[i][1] = s => output[i][2] < forwarder[s].chunk
BufferInOrder ==
    \A s \in Source : \A k \in 1 .. Len(buffer[s]) :
      /\ buffer[s][k] \in 1 .. producer[s].made
      /\ \A i \in 1 .. Len(read) : read[i][1] = s => read[i][2] < buffer[s][k]
      /\ \A i \in 1 .. Len(output) : output[i][1] = s => output[i][2] < buffer[s][k]
      /\ Held(s) => forwarder[s].chunk < buffer[s][k]
      /\ \A m \in 1 .. Len(buffer[s]) : m < k => buffer[s][m] < buffer[s][k]
DroppedMade == \A c \in dropped : c[2] \in 1 .. producer[c[1]].made
Somewhere(s, n) ==
    \/ \E i \in 1 .. Len(read) : read[i] = <<s, n>>
    \/ <<s, n>> \in dropped
    \/ Held(s) /\ forwarder[s].chunk = n
    \/ \E i \in 1 .. Len(output) : output[i] = <<s, n>>
    \/ \E k \in 1 .. Len(buffer[s]) : buffer[s][k] = n
ChunksSomewhere ==
    closing = "no" => \A s \in Source : \A n \in 1 .. producer[s].made : Somewhere(s, n)
DuplexClosing ==
    /\ outputClosed => closing = "closed" /\ \A s \in Source : forwarder[s].pc = "ended"
    /\ channelPanic # "output"
    /\ channelPanic \in Source => producer[channelPanic].pc = "send"
DuplexInv ==
    /\ DuplexTypeOK /\ ReadInOrder /\ OutputInOrder /\ HeldInOrder /\ BufferInOrder
    /\ DroppedMade /\ ChunksSomewhere /\ DuplexClosing

LEMMA DuplexInvInit == ASSUME DuplexConstants, DuplexInit PROVE DuplexInv
<1>1. /\ buffer = [s \in Source |-> <<>>] /\ sourceClosed = {}
      /\ producer = [s \in Source |-> [pc |-> "idle", made |-> 0]]
      /\ forwarder = [s \in Source |-> [pc |-> "next", chunk |-> 0]]
      /\ output = <<>> /\ outputClosed = FALSE /\ closing = "no"
      /\ read = <<>> /\ dropped = {} /\ channelPanic = "none"
  BY DEF DuplexInit
<1>2. \A s \in Source : /\ buffer[s] = <<>> /\ producer[s].made = 0 /\ ~Held(s)
                        /\ Len(buffer[s]) = 0
  BY <1>1 DEF Held
<1>3. DuplexTypeOK
  <2>1. buffer \in [Source -> Seq(Nat)] /\ output \in Seq(Chunk) /\ read \in Seq(Chunk)
    BY <1>1
  <2>2. /\ producer \in [Source -> [pc : {"idle", "send"}, made : Nat]]
        /\ forwarder \in [Source -> Forwarder]
    BY <1>1 DEF Forwarder
  <2> QED BY <1>1, <2>1, <2>2 DEF DuplexTypeOK
<1>4. ReadInOrder /\ OutputInOrder /\ DroppedMade
  BY <1>1 DEF ReadInOrder, OutputInOrder, DroppedMade
<1>5. HeldInOrder /\ BufferInOrder /\ ChunksSomewhere
  BY <1>2 DEF HeldInOrder, BufferInOrder, ChunksSomewhere
<1>6. DuplexClosing
  BY <1>1 DEF DuplexClosing, DuplexConstants
<1> QED BY <1>3, <1>4, <1>5, <1>6 DEF DuplexInv

\* Nothing moves.
LEMMA DuplexRests ==
    ASSUME DuplexInv,
           UNCHANGED <<buffer, output, read, dropped>>,
           producer' \in [Source -> [pc : {"idle", "send"}, made : Nat]],
           forwarder' \in [Source -> Forwarder],
           sourceClosed' \subseteq Source,
           outputClosed' \in BOOLEAN, closing' \in {"no", "wait", "closed"},
           \A s \in Source : producer'[s].made = producer[s].made,
           \A s \in Source : (Held(s))' => Held(s) /\ forwarder'[s].chunk = forwarder[s].chunk,
           closing' = "no" => closing = "no" /\ \A s \in Source : (Held(s))' <=> Held(s),
           DuplexClosing'
    PROVE  DuplexInv'
<1>1. /\ DuplexTypeOK /\ ReadInOrder /\ OutputInOrder /\ HeldInOrder /\ BufferInOrder
      /\ DroppedMade /\ ChunksSomewhere
  BY DEF DuplexInv
<1>2. /\ \A i \in 1 .. Len(read) : read[i] \in Chunk /\ read[i][1] \in Source
      /\ \A i \in 1 .. Len(output) : output[i] \in Chunk /\ output[i][1] \in Source
      /\ \A c \in dropped : c[1] \in Source
  BY <1>1, SMTT(20) DEF DuplexTypeOK, Chunk
<1>3. DuplexTypeOK'
  BY <1>1 DEF DuplexTypeOK
<1>4. ReadInOrder' /\ OutputInOrder' /\ DroppedMade'
  BY <1>1, <1>2 DEF ReadInOrder, OutputInOrder, DroppedMade
<1>5. HeldInOrder'
  BY <1>1 DEF HeldInOrder
<1>6. BufferInOrder'
  <2> SUFFICES ASSUME NEW s \in Source, NEW k \in 1 .. Len(buffer[s])
               PROVE  (/\ buffer[s][k] \in 1 .. producer[s].made
                       /\ \A i \in 1 .. Len(read) : read[i][1] = s => read[i][2] < buffer[s][k]
                       /\ \A i \in 1 .. Len(output) : output[i][1] = s => output[i][2] < buffer[s][k]
                       /\ Held(s) => forwarder[s].chunk < buffer[s][k]
                       /\ \A m \in 1 .. Len(buffer[s]) : m < k => buffer[s][m] < buffer[s][k])'
    BY DEF BufferInOrder
  <2>1. (Held(s))' => Held(s) /\ forwarder'[s].chunk = forwarder[s].chunk
    OBVIOUS
  <2> QED BY <1>1, <2>1 DEF BufferInOrder
<1>7. ChunksSomewhere'
  <2> SUFFICES ASSUME closing' = "no", NEW s \in Source, NEW n \in 1 .. producer'[s].made
               PROVE  Somewhere(s, n)'
    BY DEF ChunksSomewhere
  <2>1. n \in 1 .. producer[s].made /\ closing = "no" /\ ((Held(s))' <=> Held(s))
    OBVIOUS
  <2>2. Somewhere(s, n)
    BY <1>1, <2>1 DEF ChunksSomewhere
  <2>3. Held(s) => (Held(s))' /\ forwarder'[s].chunk = forwarder[s].chunk
    BY <2>1
  <2> QED BY <2>2, <2>3 DEF Somewhere
<1> QED BY <1>3, <1>4, <1>5, <1>6, <1>7 DEF DuplexInv

LEMMA DuplexInvSound == ASSUME DuplexInv PROVE DuplexSound
<1>1. /\ DuplexTypeOK /\ ReadInOrder /\ OutputInOrder /\ HeldInOrder /\ BufferInOrder
      /\ DroppedMade /\ ChunksSomewhere /\ DuplexClosing
  BY DEF DuplexInv
<1>2. ASSUME closing = "no", NEW s \in Source
      PROVE  1 .. producer[s].made =
               Numbers(s, read) \cup {c[2] : c \in {d \in dropped : d[1] = s}}
               \cup (IF Held(s) THEN {forwarder[s].chunk} ELSE {})
               \cup Numbers(s, output) \cup ToSet(buffer[s])
  <2> DEFINE all == Numbers(s, read) \cup {c[2] : c \in {d \in dropped : d[1] = s}}
                    \cup (IF Held(s) THEN {forwarder[s].chunk} ELSE {})
                    \cup Numbers(s, output) \cup ToSet(buffer[s])
  <2>1. \A n : n \in ToSet(buffer[s]) <=> \E k \in 1 .. Len(buffer[s]) : buffer[s][k] = n
    <3>1. buffer[s] \in Seq(Nat)
      BY <1>1 DEF DuplexTypeOK
    <3>2. DOMAIN buffer[s] = 1 .. Len(buffer[s])
      BY <3>1
    <3> QED BY <3>2 DEF ToSet
  <2>2. ASSUME NEW n \in 1 .. producer[s].made PROVE n \in all
    <3>1. Somewhere(s, n)
      BY <1>1, <1>2 DEF ChunksSomewhere
    <3>2. ASSUME NEW i \in 1 .. Len(read), read[i] = <<s, n>> PROVE n \in Numbers(s, read)
      BY <3>2 DEF Numbers
    <3>3. ASSUME NEW i \in 1 .. Len(output), output[i] = <<s, n>> PROVE n \in Numbers(s, output)
      BY <3>3 DEF Numbers
    <3>4. ASSUME <<s, n>> \in dropped PROVE n \in {c[2] : c \in {d \in dropped : d[1] = s}}
      <4>1. <<s, n>>[1] = s /\ <<s, n>>[2] = n
        OBVIOUS
      <4> QED BY <3>4, <4>1
    <3> QED BY <2>1, <3>1, <3>2, <3>3, <3>4 DEF Somewhere
  <2>3. Numbers(s, read) \subseteq 1 .. producer[s].made
    BY <1>1 DEF Numbers, ReadInOrder
  <2>4. Numbers(s, output) \subseteq 1 .. producer[s].made
    BY <1>1 DEF Numbers, OutputInOrder
  <2>5. {c[2] : c \in {d \in dropped : d[1] = s}} \subseteq 1 .. producer[s].made
    BY <1>1 DEF DroppedMade
  <2>6. Held(s) => forwarder[s].chunk \in 1 .. producer[s].made
    BY <1>1 DEF HeldInOrder
  <2>7. ToSet(buffer[s]) \subseteq 1 .. producer[s].made
    BY <1>1, <2>1 DEF BufferInOrder
  <2> QED BY <2>2, <2>3, <2>4, <2>5, <2>6, <2>7
<1> QED BY <1>1, <1>2 DEF DuplexSound, DuplexClosing, ReadInOrder

\* The source of every chunk in the streams is one of the sources.
LEMMA ChunkSources ==
    ASSUME DuplexTypeOK
    PROVE  /\ \A i \in 1 .. Len(read) : read[i][1] \in Source
           /\ \A i \in 1 .. Len(output) : output[i][1] \in Source
           /\ \A c \in dropped : c[1] \in Source
<1>1. read \in Seq(Chunk) /\ output \in Seq(Chunk) /\ dropped \subseteq Chunk
  BY DEF DuplexTypeOK
<1>2. \A c \in Chunk : c[1] \in Source
  BY DEF Chunk
<1>3. ASSUME NEW q \in Seq(Chunk), NEW i \in 1 .. Len(q) PROVE q[i] \in Chunk
  OBVIOUS
<1> QED BY <1>1, <1>2, <1>3

LEMMA ChunkEmitted == ASSUME DuplexConstants, DuplexInv, NEW s \in Source, EmitSends(s) PROVE DuplexInv'
<1>1. /\ DuplexTypeOK /\ ReadInOrder /\ OutputInOrder /\ HeldInOrder /\ BufferInOrder
      /\ DroppedMade /\ ChunksSomewhere /\ DuplexClosing
  BY DEF DuplexInv
<1>2. /\ producer[s].pc = "send"
      /\ UNCHANGED <<sourceClosed, forwarder, output, outputClosed, closing, readerErr, read, dropped>>
  BY DEF EmitSends
<1>3. CASE s \in sourceClosed
  <2>1. channelPanic' = s /\ UNCHANGED <<buffer, producer>>
    BY <1>3 DEF EmitSends
  <2>2. DuplexClosing'
    BY <1>1, <1>2, <2>1 DEF DuplexClosing, DuplexConstants
  <2> QED BY <1>1, <1>2, <2>1, <2>2, DuplexRests DEF DuplexTypeOK, Held
<1>4. CASE s \notin sourceClosed
  <2> DEFINE n == producer[s].made + 1
             k == Len(buffer[s])
  <2>1. /\ buffer' = [buffer EXCEPT ![s] = Append(buffer[s], n)]
        /\ producer' = [producer EXCEPT ![s] = [pc |-> "idle", made |-> n]]
        /\ channelPanic' = channelPanic
    BY <1>4 DEF EmitSends
  <2>2. /\ n \in Nat /\ producer[s].made \in Nat /\ k \in Nat /\ buffer[s] \in Seq(Nat)
        /\ n = producer[s].made + 1
    BY <1>1 DEF DuplexTypeOK
  <2> HIDE DEF n
  <2>3. /\ buffer'[s] = Append(buffer[s], n) /\ \A t \in Source \ {s} : buffer'[t] = buffer[t]
        /\ buffer' \in [Source -> Seq(Nat)]
    BY <1>1, <2>1, <2>2 DEF DuplexTypeOK
  <2>4. /\ Len(buffer'[s]) = k + 1 /\ buffer'[s][k + 1] = n
        /\ \A i \in 1 .. k : buffer'[s][i] = buffer[s][i]
    BY <2>2, <2>3
  <2>5. /\ producer'[s].made = n /\ \A t \in Source \ {s} : producer'[t] = producer[t]
        /\ producer' \in [Source -> [pc : {"idle", "send"}, made : Nat]]
    BY <1>1, <2>1, <2>2 DEF DuplexTypeOK
  <2> HIDE DEF k
  <2>6. \A t \in Source : \A i \in 1 .. producer[t].made : i \in 1 .. producer'[t].made
    BY <2>2, <2>5
  <2>7. \A i \in 1 .. producer[s].made : i < n
    BY <2>2
  <2>8. DuplexTypeOK'
    BY <1>1, <1>2, <2>3, <2>5 DEF DuplexTypeOK
  <2>9. /\ \A i \in 1 .. Len(read) : read[i][1] \in Source
        /\ \A i \in 1 .. Len(output) : output[i][1] \in Source
        /\ \A c \in dropped : c[1] \in Source
    BY <1>1, ChunkSources
  <2>10. ReadInOrder' /\ OutputInOrder' /\ DroppedMade'
    BY <1>1, <1>2, <2>6, <2>9 DEF ReadInOrder, OutputInOrder, DroppedMade
  <2>11. \A t \in Source : (Held(t))' <=> Held(t)
    BY <1>2 DEF Held
  <2>12. HeldInOrder'
    BY <1>1, <1>2, <2>6, <2>11 DEF HeldInOrder
  <2>13. BufferInOrder'
    <3> SUFFICES ASSUME NEW t \in Source, NEW j \in 1 .. Len(buffer'[t])
                 PROVE  /\ buffer'[t][j] \in 1 .. producer'[t].made
                        /\ \A i \in 1 .. Len(read) : read[i][1] = t => read[i][2] < buffer'[t][j]
                        /\ \A i \in 1 .. Len(output) : output[i][1] = t => output[i][2] < buffer'[t][j]
                        /\ Held(t) => forwarder[t].chunk < buffer'[t][j]
                        /\ \A m \in 1 .. Len(buffer'[t]) : m < j => buffer'[t][m] < buffer'[t][j]
      BY <1>2, <2>11 DEF BufferInOrder
    <3>1. CASE t # s
      BY <1>1, <2>3, <2>6, <3>1 DEF BufferInOrder
    <3>2. CASE t = s /\ j \in 1 .. k
      <4>1. \A m \in 1 .. k + 1 : m < j => m \in 1 .. k
        BY <2>2, <3>2
      <4>2. buffer'[t][j] = buffer[s][j]
        BY <2>4, <3>2
      <4>3. buffer[s][j] \in 1 .. producer'[s].made
        BY <1>1, <2>6, <3>2 DEF BufferInOrder, k
      <4>4. /\ \A i \in 1 .. Len(read) : read[i][1] = s => read[i][2] < buffer[s][j]
            /\ \A i \in 1 .. Len(output) : output[i][1] = s => output[i][2] < buffer[s][j]
            /\ Held(s) => forwarder[s].chunk < buffer[s][j]
            /\ \A m \in 1 .. k : m < j => buffer[s][m] < buffer[s][j]
        BY <1>1, <3>2 DEF BufferInOrder, k
      <4> QED BY <2>4, <3>2, <4>1, <4>2, <4>3, <4>4
    <3>3. CASE t = s /\ j = k + 1
      <4>1. \A m \in 1 .. k + 1 : m < j => m \in 1 .. k
        BY <2>2, <3>3 DEF k
      <4>2. \A m \in 1 .. k : buffer[s][m] < n
        BY <1>1, <2>7 DEF BufferInOrder, k
      <4>3. /\ \A i \in 1 .. Len(read) : read[i][1] = s => read[i][2] < n
            /\ \A i \in 1 .. Len(output) : output[i][1] = s => output[i][2] < n
            /\ Held(s) => forwarder[s].chunk < n
        BY <1>1, <2>7 DEF ReadInOrder, OutputInOrder, HeldInOrder
      <4>4. n \in 1 .. producer'[s].made
        BY <2>2, <2>5
      <4> QED BY <2>4, <3>3, <4>1, <4>2, <4>3, <4>4
    <3> QED BY <2>2, <2>4, <3>1, <3>2, <3>3 DEF k
  <2>14. ChunksSomewhere'
    <3> SUFFICES ASSUME closing = "no", NEW t \in Source, NEW m \in 1 .. producer'[t].made
                 PROVE  \/ \E i \in 1 .. Len(read) : read[i] = <<t, m>>
                        \/ <<t, m>> \in dropped
                        \/ Held(t) /\ forwarder[t].chunk = m
                        \/ \E i \in 1 .. Len(output) : output[i] = <<t, m>>
                        \/ \E i \in 1 .. Len(buffer'[t]) : buffer'[t][i] = m
      BY <1>2, <2>11 DEF ChunksSomewhere, Somewhere
    <3>1. CASE t # s
      <4>1. Somewhere(t, m) /\ buffer'[t] = buffer[t]
        BY <1>1, <2>3, <2>5, <3>1 DEF ChunksSomewhere
      <4> QED BY <4>1 DEF Somewhere
    <3>2. CASE t = s /\ m \in 1 .. producer[s].made
      <4>1. Somewhere(s, m)
        BY <1>1, <3>2 DEF ChunksSomewhere
      <4>2. \A i \in 1 .. k : i \in 1 .. k + 1
        BY <2>2 DEF k
      <4>3. (\E i \in 1 .. k : buffer[s][i] = m) => \E i \in 1 .. Len(buffer'[s]) : buffer'[s][i] = m
        BY <2>4, <4>2
      <4> QED BY <3>2, <4>1, <4>3 DEF Somewhere, k
    <3>3. CASE t = s /\ m = n
      <4>1. k + 1 \in 1 .. Len(buffer'[s])
        BY <2>2, <2>4 DEF k
      <4> QED BY <2>4, <3>3, <4>1
    <3> QED BY <2>2, <2>5, <3>1, <3>2, <3>3
  <2>15. DuplexClosing'
    <3>1. channelPanic = "none"
      BY DEF EmitSends, Calm
    <3> QED BY <1>1, <1>2, <2>1, <3>1 DEF DuplexClosing, DuplexConstants
  <2> QED BY <2>8, <2>10, <2>12, <2>13, <2>14, <2>15 DEF DuplexInv
<1> QED BY <1>3, <1>4

LEMMA ChunkTaken == ASSUME DuplexConstants, DuplexInv, NEW s \in Source, ForwarderTakes(s) PROVE DuplexInv'
<1>1. /\ DuplexTypeOK /\ ReadInOrder /\ OutputInOrder /\ HeldInOrder /\ BufferInOrder
      /\ DroppedMade /\ ChunksSomewhere /\ DuplexClosing
  BY DEF DuplexInv
<1> DEFINE k == Len(buffer[s])
           h == buffer[s][1]
<1>2. /\ channelPanic = "none" /\ forwarder[s].pc = "next" /\ buffer[s] # <<>>
      /\ forwarder' = [forwarder EXCEPT ![s] = [pc |-> "emit", chunk |-> h]]
      /\ buffer' = [buffer EXCEPT ![s] = Tail(buffer[s])]
      /\ UNCHANGED <<sourceClosed, producer, output, outputClosed, closing, readerErr, read, dropped,
                     channelPanic>>
  BY DEF ForwarderTakes, Calm
<1>3. /\ k \in Nat \ {0} /\ buffer[s] \in Seq(Nat) /\ h \in Nat /\ 1 \in 1 .. k
  BY <1>1, <1>2 DEF DuplexTypeOK
<1> HIDE DEF h
<1>4. /\ buffer'[s] = Tail(buffer[s]) /\ \A t \in Source \ {s} : buffer'[t] = buffer[t]
      /\ buffer' \in [Source -> Seq(Nat)]
  <2>1. Tail(buffer[s]) \in Seq(Nat)
    BY <1>2, <1>3
  <2> QED BY <1>1, <1>2, <2>1 DEF DuplexTypeOK
<1>5. /\ Len(buffer'[s]) = k - 1
      /\ \A i \in 1 .. k - 1 : buffer'[s][i] = buffer[s][i + 1]
  BY <1>2, <1>3, <1>4
<1> HIDE DEF k
<1>6. \A i \in 1 .. k - 1 : i + 1 \in 1 .. k /\ 1 < i + 1
  BY <1>3
<1>7. /\ forwarder'[s].pc = "emit" /\ forwarder'[s].chunk = h /\ (Held(s))' /\ ~Held(s)
      /\ \A t \in Source \ {s} : forwarder'[t] = forwarder[t] /\ ((Held(t))' <=> Held(t))
      /\ forwarder' \in [Source -> Forwarder]
  BY <1>1, <1>2, <1>3 DEF DuplexTypeOK, Forwarder, Held
<1>8. DuplexTypeOK'
  BY <1>1, <1>2, <1>4, <1>7 DEF DuplexTypeOK
<1>9. ReadInOrder' /\ OutputInOrder' /\ DroppedMade'
  BY <1>1, <1>2 DEF ReadInOrder, OutputInOrder, DroppedMade
<1>10. /\ h \in 1 .. producer[s].made
       /\ \A i \in 1 .. Len(read) : read[i][1] = s => read[i][2] < h
       /\ \A i \in 1 .. Len(output) : output[i][1] = s => output[i][2] < h
       /\ \A i \in 1 .. k - 1 : h < buffer'[s][i]
  <2>1. \A i \in 2 .. k : h < buffer[s][i]
    BY <1>1, <1>3 DEF BufferInOrder, h, k
  <2>2. \A i \in 1 .. k - 1 : i + 1 \in 2 .. k
    BY <1>3
  <2> QED BY <1>1, <1>3, <1>5, <2>1, <2>2 DEF BufferInOrder, h, k
<1>11. HeldInOrder'
  <2> SUFFICES ASSUME NEW t \in Source, (Held(t))'
               PROVE  /\ forwarder'[t].chunk \in 1 .. producer[t].made
                      /\ \A i \in 1 .. Len(read) : read[i][1] = t => read[i][2] < forwarder'[t].chunk
                      /\ \A i \in 1 .. Len(output) : output[i][1] = t => output[i][2] < forwarder'[t].chunk
    BY <1>2 DEF HeldInOrder
  <2>1. CASE t = s
    BY <1>7, <1>10, <2>1
  <2>2. CASE t # s
    BY <1>1, <1>7, <2>2 DEF HeldInOrder
  <2> QED BY <2>1, <2>2
<1>12. BufferInOrder'
  <2> SUFFICES ASSUME NEW t \in Source, NEW j \in 1 .. Len(buffer'[t])
               PROVE  /\ buffer'[t][j] \in 1 .. producer[t].made
                      /\ \A i \in 1 .. Len(read) : read[i][1] = t => read[i][2] < buffer'[t][j]
                      /\ \A i \in 1 .. Len(output) : output[i][1] = t => output[i][2] < buffer'[t][j]
                      /\ (Held(t))' => forwarder'[t].chunk < buffer'[t][j]
                      /\ \A m \in 1 .. Len(buffer'[t]) : m < j => buffer'[t][m] < buffer'[t][j]
    BY <1>2 DEF BufferInOrder
  <2>1. CASE t # s
    BY <1>1, <1>4, <1>7, <2>1 DEF BufferInOrder
  <2>2. CASE t = s
    <3>1. /\ j \in 1 .. k - 1 /\ j + 1 \in 1 .. k /\ buffer'[s][j] = buffer[s][j + 1]
          /\ h < buffer'[s][j] /\ forwarder'[s].chunk = h
      BY <1>5, <1>6, <1>7, <1>10, <2>2
    <3>2. /\ buffer[s][j + 1] \in 1 .. producer[s].made
          /\ \A i \in 1 .. Len(read) : read[i][1] = s => read[i][2] < buffer[s][j + 1]
          /\ \A i \in 1 .. Len(output) : output[i][1] = s => output[i][2] < buffer[s][j + 1]
          /\ \A m \in 1 .. k : m < j + 1 => buffer[s][m] < buffer[s][j + 1]
      BY <1>1, <3>1 DEF BufferInOrder, k
    <3>3. ASSUME NEW m \in 1 .. k - 1, m < j PROVE buffer'[s][m] < buffer'[s][j]
      <4>1. m + 1 \in 1 .. k /\ m + 1 < j + 1
        BY <1>6, <3>3
      <4> QED BY <1>5, <3>1, <3>2, <4>1
    <3> QED BY <1>5, <2>2, <3>1, <3>2, <3>3
  <2> QED BY <2>1, <2>2
<1>13. ChunksSomewhere'
  <2> SUFFICES ASSUME closing = "no", NEW t \in Source, NEW m \in 1 .. producer[t].made
               PROVE  Somewhere(t, m)'
    BY <1>2 DEF ChunksSomewhere
  <2>1. Somewhere(t, m)
    BY <1>1 DEF ChunksSomewhere
  <2>2. CASE t # s
    <3>1. /\ buffer'[t] = buffer[t] /\ forwarder'[t] = forwarder[t] /\ ((Held(t))' <=> Held(t))
          /\ read' = read /\ dropped' = dropped /\ output' = output
      BY <1>2, <1>4, <1>7, <2>2
    <3> QED BY <2>1, <3>1 DEF Somewhere
  <2>3. CASE t = s
    <3>1. ASSUME NEW i \in 1 .. k, buffer[s][i] = m, i # 1 PROVE \E j \in 1 .. k - 1 : buffer'[s][j] = m
      <4>1. i - 1 \in 1 .. k - 1 /\ (i - 1) + 1 = i
        BY <1>3, <3>1
      <4> QED BY <1>5, <3>1, <4>1
    <3>2. (\E i \in 1 .. k : buffer[s][i] = m)
            => (\E j \in 1 .. Len(buffer'[s]) : buffer'[s][j] = m) \/ forwarder'[s].chunk = m
      BY <1>5, <1>7, <3>1 DEF h
    <3>3. read' = read /\ dropped' = dropped /\ output' = output
      BY <1>2
    <3> QED BY <1>7, <2>1, <2>3, <3>2, <3>3 DEF Somewhere, k
  <2> QED BY <2>2, <2>3
<1>14. DuplexClosing'
  BY <1>1, <1>2, <1>7 DEF DuplexClosing
<1> QED BY <1>8, <1>9, <1>11, <1>12, <1>13, <1>14 DEF DuplexInv

LEMMA ChunkForwarded == ASSUME DuplexInv, NEW s \in Source, ForwarderEmits(s) PROVE DuplexInv'
<1>1. /\ DuplexTypeOK /\ ReadInOrder /\ OutputInOrder /\ HeldInOrder /\ BufferInOrder
      /\ DroppedMade /\ ChunksSomewhere /\ DuplexClosing
  BY DEF DuplexInv
<1> DEFINE c == <<s, forwarder[s].chunk>>
           h == forwarder[s].chunk
           k == Len(output)
<1>2. /\ channelPanic = "none" /\ forwarder[s].pc = "send" /\ ~outputClosed
      /\ output' = Append(output, <<s, h>>)
      /\ forwarder' = [forwarder EXCEPT ![s] = [pc |-> "next", chunk |-> 0]]
      /\ UNCHANGED <<buffer, sourceClosed, producer, outputClosed, closing, readerErr, read, dropped,
                     channelPanic>>
  BY <1>1 DEF ForwarderEmits, Calm, DuplexClosing, DuplexTypeOK
<1>3. Held(s) /\ h \in Nat /\ output \in Seq(Chunk) /\ k \in Nat /\ <<s, h>> \in Chunk
  BY <1>1, <1>2 DEF Held, DuplexTypeOK, Forwarder, Chunk
<1>4. /\ h \in 1 .. producer[s].made
      /\ \A i \in 1 .. Len(read) : read[i][1] = s => read[i][2] < h
      /\ \A i \in 1 .. Len(output) : output[i][1] = s => output[i][2] < h
      /\ \A i \in 1 .. Len(buffer[s]) : h < buffer[s][i]
  BY <1>1, <1>3 DEF HeldInOrder, BufferInOrder
<1>5. /\ ~(Held(s))' /\ \A t \in Source \ {s} : forwarder'[t] = forwarder[t] /\ ((Held(t))' <=> Held(t))
      /\ forwarder' \in [Source -> Forwarder]
  BY <1>1, <1>2 DEF DuplexTypeOK, Forwarder, Held
<1> HIDE DEF h
<1>6. /\ output' \in Seq(Chunk) /\ Len(output') = k + 1
      /\ output'[k + 1] = <<s, h>> /\ output'[k + 1][1] = s /\ output'[k + 1][2] = h
      /\ \A i \in 1 .. k : output'[i] = output[i]
  BY <1>2, <1>3
<1> HIDE DEF k
<1>7. \A i \in 1 .. k + 1 : i \in 1 .. k \/ i = k + 1
  BY <1>3
<1>8. DuplexTypeOK'
  BY <1>1, <1>2, <1>5, <1>6 DEF DuplexTypeOK
<1>9. ReadInOrder' /\ DroppedMade'
  <2>1. ASSUME NEW i \in 1 .. Len(read), NEW j \in 1 .. k + 1, read[i][1] = output'[j][1]
        PROVE  read[i][2] < output'[j][2]
    <3>1. CASE j \in 1 .. k
      BY <1>1, <1>6, <2>1, <3>1 DEF ReadInOrder, k
    <3>2. CASE j = k + 1
      BY <1>4, <1>6, <2>1, <3>2
    <3> QED BY <1>7, <3>1, <3>2
  <2> QED BY <1>1, <1>2, <1>6, <2>1 DEF ReadInOrder, DroppedMade
<1>10. OutputInOrder'
  <2>1. ASSUME NEW i \in 1 .. k + 1 PROVE output'[i][2] \in 1 .. producer[output'[i][1]].made
    <3>1. CASE i \in 1 .. k
      BY <1>1, <1>6, <3>1 DEF OutputInOrder, k
    <3>2. CASE i = k + 1
      BY <1>4, <1>6, <3>2
    <3> QED BY <1>7, <3>1, <3>2
  <2>2. ASSUME NEW i \in 1 .. k + 1, NEW j \in 1 .. k + 1, i < j, output'[i][1] = output'[j][1]
        PROVE  output'[i][2] < output'[j][2]
    <3>1. i \in 1 .. k
      BY <1>3, <2>2
    <3>2. CASE j \in 1 .. k
      BY <1>1, <1>6, <2>2, <3>1, <3>2 DEF OutputInOrder, k
    <3>3. CASE j = k + 1
      BY <1>4, <1>6, <2>2, <3>1, <3>3 DEF k
    <3> QED BY <1>7, <3>2, <3>3
  <2> QED BY <1>2, <1>6, <2>1, <2>2 DEF OutputInOrder
<1>11. HeldInOrder'
  <2> SUFFICES ASSUME NEW t \in Source, (Held(t))'
               PROVE  /\ forwarder'[t].chunk \in 1 .. producer[t].made
                      /\ \A i \in 1 .. Len(read) : read[i][1] = t => read[i][2] < forwarder'[t].chunk
                      /\ \A i \in 1 .. k + 1 : output'[i][1] = t => output'[i][2] < forwarder'[t].chunk
    BY <1>2, <1>6 DEF HeldInOrder
  <2>1. t # s /\ forwarder'[t] = forwarder[t] /\ Held(t)
    BY <1>5
  <2>2. /\ forwarder[t].chunk \in 1 .. producer[t].made
        /\ \A i \in 1 .. Len(read) : read[i][1] = t => read[i][2] < forwarder[t].chunk
        /\ \A i \in 1 .. k : output[i][1] = t => output[i][2] < forwarder[t].chunk
    BY <1>1, <2>1 DEF HeldInOrder, k
  <2>3. \A i \in 1 .. k + 1 : output'[i][1] = t => i \in 1 .. k
    BY <1>6, <1>7, <2>1
  <2> QED BY <1>6, <2>1, <2>2, <2>3
<1>12. BufferInOrder'
  <2> SUFFICES ASSUME NEW t \in Source, NEW j \in 1 .. Len(buffer[t])
               PROVE  /\ buffer[t][j] \in 1 .. producer[t].made
                      /\ \A i \in 1 .. Len(read) : read[i][1] = t => read[i][2] < buffer[t][j]
                      /\ \A i \in 1 .. k + 1 : output'[i][1] = t => output'[i][2] < buffer[t][j]
                      /\ (Held(t))' => forwarder'[t].chunk < buffer[t][j]
                      /\ \A m \in 1 .. Len(buffer[t]) : m < j => buffer[t][m] < buffer[t][j]
    BY <1>2, <1>6 DEF BufferInOrder
  <2>1. /\ buffer[t][j] \in 1 .. producer[t].made
        /\ \A i \in 1 .. Len(read) : read[i][1] = t => read[i][2] < buffer[t][j]
        /\ \A i \in 1 .. k : output[i][1] = t => output[i][2] < buffer[t][j]
        /\ Held(t) => forwarder[t].chunk < buffer[t][j]
        /\ \A m \in 1 .. Len(buffer[t]) : m < j => buffer[t][m] < buffer[t][j]
    BY <1>1 DEF BufferInOrder, k
  <2>2. \A i \in 1 .. k + 1 : output'[i][1] = t => output'[i][2] < buffer[t][j]
    <3> SUFFICES ASSUME NEW i \in 1 .. k + 1, output'[i][1] = t PROVE output'[i][2] < buffer[t][j]
      OBVIOUS
    <3>1. CASE i \in 1 .. k
      BY <1>6, <2>1, <3>1
    <3>2. CASE i = k + 1
      <4>1. t = s /\ output'[i][2] = h
        BY <1>6, <3>2
      <4> QED BY <1>4, <4>1
    <3> QED BY <1>7, <3>1, <3>2
  <2>3. (Held(t))' => forwarder'[t] = forwarder[t] /\ Held(t)
    BY <1>5
  <2> QED BY <2>1, <2>2, <2>3
<1>13. ChunksSomewhere'
  <2> SUFFICES ASSUME closing = "no", NEW t \in Source, NEW m \in 1 .. producer[t].made
               PROVE  Somewhere(t, m)'
    BY <1>2 DEF ChunksSomewhere
  <2>1. Somewhere(t, m)
    BY <1>1 DEF ChunksSomewhere
  <2>2. (\E i \in 1 .. k : output[i] = <<t, m>>) => \E i \in 1 .. Len(output') : output'[i] = <<t, m>>
    <3>1. \A i \in 1 .. k : i \in 1 .. k + 1
      BY <1>3
    <3> QED BY <1>6, <3>1
  <2>3. Held(t) /\ forwarder[t].chunk = m =>
          \/ (Held(t))' /\ forwarder'[t].chunk = m
          \/ \E i \in 1 .. Len(output') : output'[i] = <<t, m>>
    <3>1. k + 1 \in 1 .. Len(output')
      BY <1>3, <1>6
    <3>2. CASE t = s
      BY <1>6, <3>1, <3>2 DEF h
    <3>3. CASE t # s
      BY <1>5, <3>3
    <3> QED BY <3>2, <3>3
  <2>4. buffer' = buffer /\ read' = read /\ dropped' = dropped
    BY <1>2
  <2> QED BY <2>1, <2>2, <2>3, <2>4 DEF Somewhere, k
<1>14. DuplexClosing'
  BY <1>1, <1>2 DEF DuplexClosing
<1> QED BY <1>8, <1>9, <1>10, <1>11, <1>12, <1>13, <1>14 DEF DuplexInv

LEMMA ChunkRead ==
    ASSUME DuplexInv, NEW c \in Source \X (1 .. MaxEmits), Next(c)
    PROVE  DuplexInv'
<1>1. /\ DuplexTypeOK /\ ReadInOrder /\ OutputInOrder /\ HeldInOrder /\ BufferInOrder
      /\ DroppedMade /\ ChunksSomewhere /\ DuplexClosing
  BY DEF DuplexInv
<1> DEFINE k == Len(output)
           r == Len(read)
<1>2. /\ output # <<>> /\ c = output[1] /\ output' = Tail(output)
      /\ UNCHANGED <<buffer, sourceClosed, producer, forwarder, outputClosed, closing, readerErr,
                     channelPanic>>
      /\ \/ read' = Append(read, c) /\ dropped' = dropped
         \/ dropped' = dropped \cup {c} /\ read' = read
  BY DEF Next
<1>3. /\ output \in Seq(Chunk) /\ read \in Seq(Chunk) /\ k \in Nat \ {0} /\ r \in Nat
      /\ c \in Chunk /\ c[1] \in Source /\ c[2] \in Nat /\ 1 \in 1 .. k /\ c = <<c[1], c[2]>>
      /\ dropped \subseteq Chunk
  BY <1>1, <1>2, SMTT(20) DEF DuplexTypeOK, Chunk
<1>4. /\ output' \in Seq(Chunk) /\ Len(output') = k - 1
      /\ \A i \in 1 .. k - 1 : output'[i] = output[i + 1]
  BY <1>2, <1>3
<1> HIDE DEF k
<1>5. \A i \in 1 .. k - 1 : i + 1 \in 1 .. k /\ 1 < i + 1
  BY <1>3
<1>6. /\ c[2] \in 1 .. producer[c[1]].made
      /\ \A i \in 1 .. r : read[i][1] = c[1] => read[i][2] < c[2]
      /\ \A i \in 1 .. k - 1 : output'[i][1] = c[1] => c[2] < output'[i][2]
      /\ Held(c[1]) => c[2] < forwarder[c[1]].chunk
      /\ \A i \in 1 .. Len(buffer[c[1]]) : c[2] < buffer[c[1]][i]
  <2>1. \A i \in 1 .. k - 1 : output[i + 1][1] = c[1] => c[2] < output[i + 1][2]
    BY <1>1, <1>2, <1>3, <1>5 DEF OutputInOrder, k
  <2>2. c[2] \in 1 .. producer[c[1]].made
    BY <1>1, <1>2, <1>3 DEF OutputInOrder, k
  <2>3. \A i \in 1 .. r : read[i][1] = c[1] => read[i][2] < c[2]
    BY <1>1, <1>2, <1>3 DEF ReadInOrder, k
  <2>4. Held(c[1]) => c[2] < forwarder[c[1]].chunk
    BY <1>1, <1>2, <1>3 DEF HeldInOrder, k
  <2>5. \A i \in 1 .. Len(buffer[c[1]]) : c[2] < buffer[c[1]][i]
    BY <1>1, <1>2, <1>3 DEF BufferInOrder, k
  <2> QED BY <1>4, <2>1, <2>2, <2>3, <2>4, <2>5
\* What is read afterwards is what was, or it and the chunk.
<1>7. /\ read' \in Seq(Chunk) /\ Len(read') \in {r, r + 1}
      /\ \A i \in 1 .. Len(read') : \/ i \in 1 .. r /\ read'[i] = read[i]
                                    \/ i = r + 1 /\ read'[i] = c
      /\ \A i \in 1 .. r : i \in 1 .. Len(read') /\ read'[i] = read[i]
      /\ dropped' \subseteq Chunk /\ dropped \subseteq dropped' /\ dropped' \subseteq dropped \cup {c}
      /\ c \in dropped' \/ (r + 1 \in 1 .. Len(read') /\ read'[r + 1] = c)
  <2>1. CASE read' = Append(read, c) /\ dropped' = dropped
    <3>1. read' \in Seq(Chunk) /\ Len(read') = r + 1 /\ read'[r + 1] = c
      BY <1>3, <2>1
    <3>2. \A i \in 1 .. r : read'[i] = read[i]
      BY <1>3, <2>1
    <3> HIDE DEF r
    <3>3. r + 1 \in 1 .. r + 1 /\ \A i \in 1 .. r + 1 : i \in 1 .. r \/ i = r + 1
      BY <1>3
    <3>4. \A i \in 1 .. r : i \in 1 .. r + 1
      BY <1>3
    <3> QED BY <1>3, <2>1, <3>1, <3>2, <3>3, <3>4
  <2>2. CASE dropped' = dropped \cup {c} /\ read' = read
    BY <1>3, <2>2
  <2> QED BY <1>2, <2>1, <2>2
<1> HIDE DEF r
<1>8. DuplexTypeOK'
  BY <1>1, <1>2, <1>4, <1>7 DEF DuplexTypeOK
<1>9. DroppedMade'
  BY <1>1, <1>2, <1>6, <1>7 DEF DroppedMade
<1>10. \A i \in 1 .. Len(read) : read[i][1] \in Source /\ read[i][2] \in Nat
  BY <1>1, SMTT(20) DEF DuplexTypeOK, Chunk
<1>11. ReadInOrder'
  <2>1. ASSUME NEW i \in 1 .. Len(read') PROVE read'[i][2] \in 1 .. producer[read'[i][1]].made
    BY <1>1, <1>6, <1>7 DEF ReadInOrder, r
  <2>2. ASSUME NEW i \in 1 .. Len(read'), NEW j \in 1 .. Len(read'), i < j, read'[i][1] = read'[j][1]
        PROVE  read'[i][2] < read'[j][2]
    <3>1. i \in 1 .. r /\ read'[i] = read[i]
      BY <1>3, <1>7, <2>2
    <3>2. CASE j \in 1 .. r
      <4>1. read'[j] = read[j]
        BY <1>7, <3>2
      <4> QED BY <1>1, <2>2, <3>1, <3>2, <4>1 DEF ReadInOrder, r
    <3>3. CASE j = r + 1
      <4>1. read'[j] = c
        BY <1>3, <1>7, <3>3
      <4> QED BY <1>6, <2>2, <3>1, <4>1
    <3> QED BY <1>7, <3>2, <3>3
  <2>3. ASSUME NEW i \in 1 .. Len(read'), NEW j \in 1 .. k - 1, read'[i][1] = output'[j][1]
        PROVE  read'[i][2] < output'[j][2]
    <3>1. j + 1 \in 1 .. k /\ output'[j] = output[j + 1]
      BY <1>4, <1>5
    <3>2. CASE i \in 1 .. r /\ read'[i] = read[i]
      BY <1>1, <2>3, <3>1, <3>2 DEF ReadInOrder, r, k
    <3>3. CASE read'[i] = c
      BY <1>6, <2>3, <3>3
    <3> QED BY <1>7, <3>2, <3>3
  <2> QED BY <1>2, <1>4, <2>1, <2>2, <2>3 DEF ReadInOrder
<1>12. OutputInOrder'
  <2>1. ASSUME NEW i \in 1 .. k - 1 PROVE output'[i][2] \in 1 .. producer[output'[i][1]].made
    BY <1>1, <1>4, <1>5 DEF OutputInOrder, k
  <2>2. ASSUME NEW i \in 1 .. k - 1, NEW j \in 1 .. k - 1, i < j, output'[i][1] = output'[j][1]
        PROVE  output'[i][2] < output'[j][2]
    <3>1. i + 1 \in 1 .. k /\ j + 1 \in 1 .. k /\ i + 1 < j + 1
      BY <1>5, <2>2
    <3> QED BY <1>1, <1>4, <2>2, <3>1 DEF OutputInOrder, k
  <2> QED BY <1>2, <1>4, <2>1, <2>2 DEF OutputInOrder
<1>13. HeldInOrder'
  <2> SUFFICES ASSUME NEW t \in Source, Held(t)
               PROVE  /\ forwarder[t].chunk \in 1 .. producer[t].made
                      /\ \A i \in 1 .. Len(read') : read'[i][1] = t => read'[i][2] < forwarder[t].chunk
                      /\ \A i \in 1 .. k - 1 : output'[i][1] = t => output'[i][2] < forwarder[t].chunk
    BY <1>2, <1>4 DEF HeldInOrder, Held
  <2>1. /\ forwarder[t].chunk \in 1 .. producer[t].made
        /\ \A i \in 1 .. r : read[i][1] = t => read[i][2] < forwarder[t].chunk
        /\ \A i \in 1 .. k : output[i][1] = t => output[i][2] < forwarder[t].chunk
    BY <1>1 DEF HeldInOrder, r, k
  <2>2. \A i \in 1 .. Len(read') : read'[i][1] = t => read'[i][2] < forwarder[t].chunk
    BY <1>6, <1>7, <2>1
  <2>3. \A i \in 1 .. k - 1 : output'[i][1] = t => output'[i][2] < forwarder[t].chunk
    BY <1>4, <1>5, <2>1
  <2> QED BY <2>1, <2>2, <2>3
<1>14. BufferInOrder'
  <2> SUFFICES ASSUME NEW t \in Source, NEW j \in 1 .. Len(buffer[t])
               PROVE  /\ buffer[t][j] \in 1 .. producer[t].made
                      /\ \A i \in 1 .. Len(read') : read'[i][1] = t => read'[i][2] < buffer[t][j]
                      /\ \A i \in 1 .. k - 1 : output'[i][1] = t => output'[i][2] < buffer[t][j]
                      /\ Held(t) => forwarder[t].chunk < buffer[t][j]
                      /\ \A m \in 1 .. Len(buffer[t]) : m < j => buffer[t][m] < buffer[t][j]
    BY <1>2, <1>4 DEF BufferInOrder, Held
  <2>1. /\ buffer[t][j] \in 1 .. producer[t].made
        /\ \A i \in 1 .. r : read[i][1] = t => read[i][2] < buffer[t][j]
        /\ \A i \in 1 .. k : output[i][1] = t => output[i][2] < buffer[t][j]
        /\ Held(t) => forwarder[t].chunk < buffer[t][j]
        /\ \A m \in 1 .. Len(buffer[t]) : m < j => buffer[t][m] < buffer[t][j]
    BY <1>1 DEF BufferInOrder, r, k
  <2>2. \A i \in 1 .. Len(read') : read'[i][1] = t => read'[i][2] < buffer[t][j]
    BY <1>6, <1>7, <2>1
  <2>3. \A i \in 1 .. k - 1 : output'[i][1] = t => output'[i][2] < buffer[t][j]
    BY <1>4, <1>5, <2>1
  <2> QED BY <2>1, <2>2, <2>3
<1>15. ChunksSomewhere'
  <2> SUFFICES ASSUME closing = "no", NEW t \in Source, NEW m \in 1 .. producer[t].made
               PROVE  Somewhere(t, m)'
    BY <1>2 DEF ChunksSomewhere
  <2>1. Somewhere(t, m)
    BY <1>1 DEF ChunksSomewhere
  <2>2. (\E i \in 1 .. r : read[i] = <<t, m>>) => \E i \in 1 .. Len(read') : read'[i] = <<t, m>>
    BY <1>7
  <2>3. <<t, m>> \in dropped => <<t, m>> \in dropped'
    BY <1>7
  <2>4. ASSUME NEW i \in 1 .. k, output[i] = <<t, m>>
        PROVE  \/ \E j \in 1 .. k - 1 : output'[j] = <<t, m>>
               \/ <<t, m>> \in dropped'
               \/ \E j \in 1 .. Len(read') : read'[j] = <<t, m>>
    <3>1. CASE i = 1
      BY <1>2, <1>7, <2>4, <3>1
    <3>2. CASE i # 1
      <4>1. i - 1 \in 1 .. k - 1 /\ (i - 1) + 1 = i
        BY <1>3, <2>4, <3>2
      <4> QED BY <1>4, <2>4, <4>1
    <3> QED BY <3>1, <3>2
  <2>5. /\ Held(t) <=> (Held(t))'
        /\ forwarder' = forwarder /\ buffer' = buffer
    BY <1>2 DEF Held
  <2> QED BY <1>4, <2>1, <2>2, <2>3, <2>4, <2>5 DEF Somewhere, r, k
<1>16. DuplexClosing'
  BY <1>1, <1>2 DEF DuplexClosing
<1> QED BY <1>8, <1>9, <1>11, <1>12, <1>13, <1>14, <1>15, <1>16 DEF DuplexInv

LEMMA DuplexInvNext ==
    ASSUME DuplexConstants, DuplexInv, DuplexNext \/ UNCHANGED channelStreamVars
    PROVE  DuplexInv'
<1> DEFINE Producing == [pc : {"idle", "send"}, made : Nat]
<1>1. DuplexTypeOK /\ DuplexClosing
  BY DEF DuplexInv
<1>2. /\ producer \in [Source -> Producing] /\ forwarder \in [Source -> Forwarder]
      /\ sourceClosed \subseteq Source /\ outputClosed \in BOOLEAN
      /\ closing \in {"no", "wait", "closed"}
  BY <1>1 DEF DuplexTypeOK
<1>3. ASSUME NEW s \in Source, EmitLooks(s) \/ EmitCancelled(s) PROVE DuplexInv'
  <2> DEFINE p == IF EmitLooks(s) THEN "send" ELSE "idle"
  <2>1. /\ producer' = [producer EXCEPT ![s].pc = p] /\ p \in {"idle", "send"}
        /\ channelPanic = "none"
        /\ UNCHANGED <<buffer, sourceClosed, forwarder, output, outputClosed, closing, read, dropped,
                       channelPanic>>
    BY <1>3 DEF EmitLooks, EmitCancelled, Calm
  <2> HIDE DEF p
  <2>2. producer' \in [Source -> Producing] /\ \A t \in Source : producer'[t].made = producer[t].made
    BY <1>2, <2>1
  <2>3. DuplexClosing'
    BY <1>1, <2>1 DEF DuplexClosing, DuplexConstants
  <2> QED BY <1>2, <2>1, <2>2, <2>3, DuplexRests DEF Held
<1>4. ASSUME NEW s \in Source, CloseSource(s) PROVE DuplexInv'
  <2>1. /\ UNCHANGED <<buffer, producer, forwarder, output, outputClosed, closing, read, dropped,
                       channelPanic>>
        /\ sourceClosed' = sourceClosed \cup {s}
    BY <1>4 DEF CloseSource
  <2>2. DuplexClosing'
    BY <1>1, <2>1 DEF DuplexClosing
  <2> QED BY <1>2, <2>1, <2>2, DuplexRests DEF Held
<1>5. ASSUME NEW s \in Source, ForwarderEnds(s) PROVE DuplexInv'
  <2>1. /\ UNCHANGED <<buffer, sourceClosed, producer, output, outputClosed, closing, read, dropped,
                       channelPanic>>
        /\ forwarder' = [forwarder EXCEPT ![s] = [pc |-> "ended", chunk |-> 0]]
        /\ closing = "no" => forwarder[s].pc = "next"
    BY <1>5 DEF ForwarderEnds
  <2>2. /\ forwarder' \in [Source -> Forwarder] /\ forwarder'[s].pc = "ended"
        /\ \A t \in Source \ {s} : forwarder'[t] = forwarder[t]
    BY <1>2, <2>1 DEF Forwarder
  <2>3. /\ \A t \in Source : (Held(t))' => Held(t) /\ forwarder'[t].chunk = forwarder[t].chunk
        /\ closing = "no" => \A t \in Source : (Held(t))' <=> Held(t)
    BY <2>1, <2>2 DEF Held
  <2>4. DuplexClosing'
    BY <1>1, <2>1, <2>2 DEF DuplexClosing
  <2> QED BY <1>2, <2>1, <2>2, <2>3, <2>4, DuplexRests
<1>6. ASSUME NEW s \in Source, ForwarderLooks(s) PROVE DuplexInv'
  <2> DEFINE p == IF outputClosed THEN "ended" ELSE "send"
  <2>1. /\ UNCHANGED <<buffer, sourceClosed, producer, output, outputClosed, closing, read, dropped,
                       channelPanic>>
        /\ forwarder' = [forwarder EXCEPT ![s].pc = p] /\ forwarder[s].pc = "emit"
        /\ p \in {"ended", "send"}
    BY <1>6 DEF ForwarderLooks
  <2>2. ~outputClosed
    BY <1>1, <2>1 DEF DuplexClosing
  <2>3. p = "send"
    BY <2>2
  <2> HIDE DEF p
  <2>4. /\ forwarder' \in [Source -> Forwarder] /\ forwarder'[s].pc = "send"
        /\ forwarder'[s].chunk = forwarder[s].chunk
        /\ \A t \in Source \ {s} : forwarder'[t] = forwarder[t]
    BY <1>2, <2>1, <2>3 DEF Forwarder
  <2>5. \A t \in Source : ((Held(t))' <=> Held(t)) /\ forwarder'[t].chunk = forwarder[t].chunk
    BY <2>1, <2>4 DEF Held
  <2>6. DuplexClosing'
    BY <1>1, <2>1, <2>2 DEF DuplexClosing
  <2> QED BY <1>2, <2>1, <2>4, <2>5, <2>6, DuplexRests
<1>7. ASSUME NextFails \/ CloseCancels \/ CloseWaited \/ UNCHANGED channelStreamVars PROVE DuplexInv'
  <2>1. /\ UNCHANGED <<buffer, producer, forwarder, output, read, dropped, channelPanic>>
        /\ sourceClosed' \subseteq Source /\ outputClosed' \in BOOLEAN
        /\ closing' \in {"no", "wait", "closed"} /\ (closing' = "no" => closing = "no")
    BY <1>2, <1>7 DEF NextFails, CloseCancels, CloseWaited, channelStreamVars
  <2>2. outputClosed' => closing' = "closed" /\ \A s \in Source : forwarder[s].pc = "ended"
    BY <1>1, <1>7
      DEF NextFails, CloseCancels, CloseWaited, channelStreamVars, DuplexClosing
  <2>3. DuplexClosing'
    BY <1>1, <2>1, <2>2 DEF DuplexClosing
  <2> QED BY <1>2, <2>1, <2>3, DuplexRests DEF Held
<1> QED
  BY <1>3, <1>4, <1>5, <1>6, <1>7, ChunkEmitted, ChunkTaken, ChunkForwarded,
     ChunkRead DEF DuplexNext

-----------------------------------------------------------------------------
(* GraphStream: what the goroutine of Stream has sent is in its channel or *)
(* written, and what is written grows by the result, by an error with      *)
(* "done", and by how the handler returned.                                *)

StreamTypeOK ==
    /\ run \in {"run", "send", "closeErr", "closeOut", "ended"}
    /\ outcome \in {"none", "result", "error"}
    /\ outputs \in Seq({"result"}) /\ failures \in Seq({"error"}) /\ Len(failures) <= 1
    /\ outputsClosed \in BOOLEAN /\ failuresClosed \in BOOLEAN /\ ctxEnded \in BOOLEAN
    /\ written \in Seq({"data", "error", "done", "ctx"})
RunProgress ==
    /\ run \in {"run", "send"} => outputs = <<>> /\ failures = <<>>
    /\ outcome = "none" <=> run = "run"
    /\ run \in {"run", "send", "closeErr"} => ~failuresClosed
    /\ run # "ended" => ~outputsClosed
    /\ outputs # <<>> => outcome = "result"
    /\ failures # <<>> => outcome = "error"
WrittenInOrder ==
    \A i \in 1 .. Len(written) :
      /\ i < Len(written) => written[i] \notin {"done", "ctx"}
      /\ written[i] = "data" => i = 1 /\ outcome = "result" /\ outputs = <<>>
      /\ written[i] = "error" => outcome = "error"
      /\ written[i] # "ctx" => run \notin {"run", "send"}
      /\ written[i] = "ctx" => ctxEnded
ErrorWritten ==
    outcome = "error" /\ ~ctxEnded /\ run \notin {"run", "send"} =>
      \/ Len(failures) = 1 /\ Len(written) = 0
      \/ /\ Len(failures) = 0 /\ Len(written) = 2
         /\ written[1] = "error" /\ written[2] = "done"
GraphStreamInv == StreamTypeOK /\ RunProgress /\ WrittenInOrder /\ ErrorWritten

LEMMA GraphStreamInvInit == ASSUME StreamInit PROVE GraphStreamInv
<1>1. /\ run = "run" /\ outcome = "none" /\ outputs = <<>> /\ failures = <<>> /\ written = <<>>
      /\ ~outputsClosed /\ ~failuresClosed /\ outputsClosed \in BOOLEAN
      /\ failuresClosed \in BOOLEAN /\ ctxEnded \in BOOLEAN
  BY DEF StreamInit
<1>2. Len(failures) = 0 /\ Len(written) = 0
  BY <1>1
<1>3. StreamTypeOK
  BY <1>1, <1>2 DEF StreamTypeOK
<1> QED
  BY <1>1, <1>2, <1>3
    DEF GraphStreamInv, RunProgress, WrittenInOrder, ErrorWritten

LEMMA GraphStreamInvSound == ASSUME GraphStreamInv PROVE FailureBeforeDone
<1>1. StreamTypeOK /\ RunProgress /\ WrittenInOrder /\ ErrorWritten
  BY DEF GraphStreamInv
<1> SUFFICES ASSUME Returned PROVE FailureBeforeDone!2
  BY DEF FailureBeforeDone
<1>2. Len(written) \in Nat \ {0} /\ written \in Seq({"data", "error", "done", "ctx"})
  BY <1>1 DEF Returned, StreamTypeOK
<1>3. outcome = "error" /\ ~ctxEnded => written = <<"error", "done">>
  <2> SUFFICES ASSUME outcome = "error", ~ctxEnded PROVE written = <<"error", "done">>
    OBVIOUS
  <2>1. written[Len(written)] = "done" /\ run \notin {"run", "send"}
    BY <1>1, <1>2 DEF WrittenInOrder, Returned
  <2>2. Len(written) = 2 /\ written[1] = "error" /\ written[2] = "done"
    BY <1>1, <1>2, <2>1 DEF ErrorWritten
  <2> QED BY <1>2, <2>2
<1>4. written[Len(written)] = "done" => outcome # "none"
  BY <1>1, <1>2 DEF WrittenInOrder, RunProgress
<1>5. /\ \A i \in 1 .. Len(written) - 1 : written[i] \notin {"done", "ctx"}
      /\ \A i \in 1 .. Len(written) : written[i] = "data" => written[1] = "data"
  BY <1>1, <1>2 DEF WrittenInOrder
<1> QED BY <1>3, <1>4, <1>5

LEMMA GraphStreamInvNext ==
    ASSUME GraphStreamInv, StreamNext \/ UNCHANGED streamVars
    PROVE  GraphStreamInv'
<1>1. StreamTypeOK /\ RunProgress /\ WrittenInOrder /\ ErrorWritten
  BY DEF GraphStreamInv
<1> DEFINE n == Len(written)
<1>2. n \in Nat /\ written \in Seq({"data", "error", "done", "ctx"})
  BY <1>1 DEF StreamTypeOK
<1>3. ASSUME Invoke \/ CloseErrCh \/ CloseOutputCh \/ EndContext \/ UNCHANGED streamVars
      PROVE  GraphStreamInv'
  <2>1. /\ UNCHANGED <<outputs, failures, written>>
        /\ run' # run => ctxEnded' = ctxEnded /\ (outcome' = outcome \/ run' = "send")
        /\ run = "run" /\ run' = "run" => outcome' = outcome
        /\ run' = run \/ (run = "run" /\ run' = "send")
           \/ (run \in {"closeErr", "closeOut"} /\ run' \notin {"run", "send"})
        /\ ctxEnded => ctxEnded'
        /\ run' = run \/ run # "run" => outcome' = outcome
    BY <1>3 DEF Invoke, CloseErrCh, CloseOutputCh, EndContext, streamVars
  <2>2. StreamTypeOK'
    BY <1>1, <1>3
      DEF StreamTypeOK, Invoke, CloseErrCh, CloseOutputCh, EndContext,
          streamVars
  <2>3. RunProgress'
    BY <1>1, <1>3
      DEF RunProgress, Invoke, CloseErrCh, CloseOutputCh, EndContext, streamVars
  <2>4. WrittenInOrder'
    BY <1>1, <1>2, <2>1 DEF WrittenInOrder, RunProgress
  <2>5. ErrorWritten'
    BY <1>1, <2>1 DEF ErrorWritten
  <2> QED BY <2>2, <2>3, <2>4, <2>5 DEF GraphStreamInv
<1>4. CASE Send
  <2>1. /\ outputs = <<>> /\ failures = <<>> /\ run = "send" /\ run' = "closeErr"
        /\ outcome \in {"result", "error"} /\ ~failuresClosed /\ ~outputsClosed
        /\ UNCHANGED <<outcome, outputsClosed, failuresClosed, ctxEnded, written>>
    BY <1>1, <1>4 DEF Send, RunProgress, StreamTypeOK
  <2>2. /\ outputs' \in Seq({"result"}) /\ failures' \in Seq({"error"}) /\ Len(failures') <= 1
        /\ outputs' # <<>> => outcome = "result"
        /\ failures' # <<>> => outcome = "error"
        /\ outcome = "error" /\ ~ctxEnded => Len(failures') = 1
    <3>1. <<"result">> \in Seq({"result"})
      OBVIOUS
    <3>2. <<"error">> \in Seq({"error"}) /\ Len(<<"error">>) = 1
      OBVIOUS
    <3>3. Len(<<>>) = 0 /\ <<>> \in Seq({"result"}) /\ <<>> \in Seq({"error"})
      OBVIOUS
    <3>4. /\ outputs' = <<>> \/ (outcome = "result" /\ outputs' = <<"result">>)
          /\ failures' = <<>> \/ (outcome = "error" /\ failures' = <<"error">>)
          /\ outcome = "error" /\ ~ctxEnded => failures' = <<"error">>
      BY <1>4, <2>1 DEF Send
    <3>5. outputs' \in Seq({"result"}) /\ (outputs' # <<>> => outcome = "result")
      BY <3>1, <3>3, <3>4
    <3>6. failures' \in Seq({"error"}) /\ (failures' # <<>> => outcome = "error")
      BY <3>2, <3>3, <3>4
    <3>7. Len(failures') = 0 \/ Len(failures') = 1
      BY <3>2, <3>3, <3>4
    <3>8. outcome = "error" /\ ~ctxEnded => Len(failures') = 1
      BY <3>2, <3>4
    <3> DEFINE m == Len(failures')
    <3>9. m <= 1
      <4>1. m = 0 \/ m = 1
        BY <3>7
      <4> HIDE DEF m
      <4> QED BY <4>1
    <3> QED BY <3>5, <3>6, <3>8, <3>9
  <2>3. \A i \in 1 .. n : written[i] = "ctx" /\ ctxEnded
    BY <1>1, <1>2, <2>1 DEF WrittenInOrder
  <2>4. StreamTypeOK'
    BY <1>1, <2>1, <2>2 DEF StreamTypeOK
  <2>5. RunProgress'
    BY <2>1, <2>2 DEF RunProgress
  <2>6. WrittenInOrder'
    BY <1>1, <1>2, <2>1, <2>3 DEF WrittenInOrder
  <2>7. ErrorWritten'
    BY <1>2, <2>1, <2>2, <2>3 DEF ErrorWritten
  <2> QED BY <2>4, <2>5, <2>6, <2>7 DEF GraphStreamInv
<1>5. ASSUME ~Returned PROVE \A i \in 1 .. n : written[i] \notin {"done", "ctx"}
  BY <1>1, <1>2, <1>5 DEF Returned, WrittenInOrder
<1>6. ASSUME ReceiveOutput \/ ContextEnded PROVE GraphStreamInv'
  <2> DEFINE e == IF ReceiveOutput THEN "data" ELSE "ctx"
  <2>1. /\ written' = Append(written, e) /\ outputs' \in Seq({"result"})
        /\ UNCHANGED <<run, outcome, outputsClosed, failuresClosed, ctxEnded, failures>>
        /\ outputs' # <<>> => outputs' = outputs
        /\ \A i \in 1 .. n : written[i] \notin {"done", "ctx"}
        /\ outputs = <<>> => outputs' = <<>>
        /\ e = "data" => outputs # <<>> /\ outputs' = <<>> /\ run \notin {"run", "send"}
        /\ e = "ctx" => ctxEnded
        /\ e \in {"data", "ctx"}
    <3>1. outputs \in Seq({"result"}) /\ <<>> \in Seq({"result"})
      BY <1>1 DEF StreamTypeOK
    <3>2. CASE ReceiveOutput
      <4>1. e = "data"
        BY <3>2
      <4> HIDE DEF e
      <4> QED
        BY <1>1, <1>5, <3>1, <3>2, <4>1 DEF ReceiveOutput, Reads, RunProgress
    <3>3. CASE ~ReceiveOutput
      <4>1. e = "ctx" /\ ContextEnded
        BY <1>6, <3>3
      <4> HIDE DEF e
      <4> QED BY <1>5, <3>1, <4>1 DEF ContextEnded, Reads
    <3> QED BY <3>2, <3>3
  <2> HIDE DEF e
  <2>2. /\ written' \in Seq({"data", "error", "done", "ctx"}) /\ Len(written') = n + 1
        /\ written'[n + 1] = e /\ \A i \in 1 .. n : written'[i] = written[i]
    BY <1>2, <2>1
  <2>3. e = "data" => outcome = "result" /\ n = 0
    <3>1. \A i \in 1 .. n : outputs # <<>> => written[i] \notin {"data", "error", "done", "ctx"}
      BY <1>1, <2>1 DEF WrittenInOrder, RunProgress
    <3>2. \A i \in 1 .. n : written[i] \in {"data", "error", "done", "ctx"}
      BY <1>2
    <3> QED BY <1>1, <1>2, <2>1, <3>1, <3>2 DEF RunProgress
  <2> HIDE DEF n
  <2>4. \A i \in 1 .. n + 1 : i \in 1 .. n \/ i = n + 1
    BY <1>2
  <2>5. StreamTypeOK'
    BY <1>1, <2>1, <2>2 DEF StreamTypeOK
  <2>6. RunProgress'
    BY <1>1, <2>1 DEF RunProgress
  <2>7. WrittenInOrder'
    <3> SUFFICES ASSUME NEW i \in 1 .. n + 1
                 PROVE  /\ i < n + 1 => written'[i] \notin {"done", "ctx"}
                        /\ written'[i] = "data" => i = 1 /\ outcome = "result" /\ outputs' = <<>>
                        /\ written'[i] = "error" => outcome = "error"
                        /\ written'[i] # "ctx" => run \notin {"run", "send"}
                        /\ written'[i] = "ctx" => ctxEnded
      BY <2>1, <2>2 DEF WrittenInOrder
    <3>1. CASE i \in 1 .. n
      BY <1>1, <2>1, <2>2, <3>1 DEF WrittenInOrder, n
    <3>2. CASE i = n + 1
      BY <1>2, <2>1, <2>2, <2>3, <3>2
    <3> QED BY <2>4, <3>1, <3>2
  <2>8. ErrorWritten'
    <3> SUFFICES ASSUME outcome = "error", ~ctxEnded PROVE FALSE
      BY <2>1 DEF ErrorWritten
    <3> QED BY <2>1, <2>3
  <2> QED BY <2>5, <2>6, <2>7, <2>8 DEF GraphStreamInv
<1>7. ASSUME OutputClosed \/ ReceiveError PROVE GraphStreamInv'
  <2>1. /\ failures' = <<>> /\ written' = written \o failures \o <<"done">>
        /\ UNCHANGED <<run, outcome, outputs, outputsClosed, failuresClosed, ctxEnded>>
        /\ \A i \in 1 .. n : written[i] \notin {"done", "ctx"}
        /\ failures # <<>> \/ failuresClosed \/ outputsClosed
    BY <1>5, <1>7 DEF OutputClosed, ReceiveError, Reads
  <2>2. failures \in Seq({"error"}) /\ Len(failures) \in {0, 1} /\ Len(<<>>) = 0
    <3>1. failures \in Seq({"error"}) /\ Len(failures) <= 1
      BY <1>1 DEF StreamTypeOK
    <3>2. Len(failures) \in {0, 1}
      BY <3>1
    <3>3. Len(<<>>) = 0
      OBVIOUS
    <3> QED BY <3>1, <3>2, <3>3
  <2>3. run \notin {"run", "send"} /\ outcome # "none"
    BY <1>1, <2>1 DEF RunProgress
  <2>4. StreamTypeOK'
    <3>1. written' \in Seq({"data", "error", "done", "ctx"})
      BY <1>2, <2>1, <2>2
    <3> QED BY <1>1, <2>1, <3>1 DEF StreamTypeOK
  <2>5. RunProgress'
    BY <1>1, <2>1 DEF RunProgress
  <2>6. CASE Len(failures) = 0
    <3>1. /\ Len(written') = n + 1 /\ written'[n + 1] = "done"
          /\ \A i \in 1 .. n : written'[i] = written[i]
      BY <1>2, <2>1, <2>2, <2>6
    <3> HIDE DEF n
    <3>2. \A i \in 1 .. n + 1 : i \in 1 .. n \/ i = n + 1
      BY <1>2
    <3>3. WrittenInOrder'
      <4> SUFFICES ASSUME NEW i \in 1 .. n + 1
                   PROVE  /\ i < n + 1 => written'[i] \notin {"done", "ctx"}
                          /\ written'[i] = "data" => i = 1 /\ outcome = "result" /\ outputs = <<>>
                          /\ written'[i] = "error" => outcome = "error"
                          /\ written'[i] # "ctx" => run \notin {"run", "send"}
                          /\ written'[i] = "ctx" => ctxEnded
        BY <2>1, <3>1 DEF WrittenInOrder
      <4>1. CASE i \in 1 .. n
        BY <1>1, <2>1, <3>1, <4>1 DEF WrittenInOrder, n
      <4>2. CASE i = n + 1
        BY <1>2, <2>3, <3>1, <4>2
      <4> QED BY <3>2, <4>1, <4>2
    <3>4. ErrorWritten'
      <4> SUFFICES ASSUME outcome = "error", ~ctxEnded PROVE FALSE
        BY <2>1 DEF ErrorWritten
      <4>1. n = 2 /\ written[2] = "done"
        BY <1>1, <2>3, <2>6 DEF ErrorWritten, n
      <4> QED BY <2>1, <4>1
    <3> QED BY <2>4, <2>5, <3>3, <3>4 DEF GraphStreamInv
  <2>7. CASE Len(failures) = 1
    <3>1. /\ Len(written') = n + 2 /\ written'[n + 1] = "error" /\ written'[n + 2] = "done"
          /\ \A i \in 1 .. n : written'[i] = written[i]
      <4>1. failures[1] = "error"
        BY <2>2, <2>7
      <4> DEFINE w == written \o failures
      <4>2. /\ w \in Seq({"data", "error", "done", "ctx"}) /\ Len(w) = n + 1 /\ w[n + 1] = "error"
            /\ \A i \in 1 .. n : w[i] = written[i]
        <5>1. failures \in Seq({"data", "error", "done", "ctx"})
          BY <2>2
        <5>2. w \in Seq({"data", "error", "done", "ctx"})
          BY <1>2, <5>1
        <5>3. Len(w) = n + 1
          <6>1. Len(w) = n + Len(failures)
            BY <1>2, <5>1
          <6> QED BY <2>7, <6>1
        <5>4. \A i \in 1 .. n : w[i] = written[i]
          BY <1>2, <5>1
        <5>5. w[n + 1] = failures[1]
          BY <1>2, <2>7, <5>1, SMTT(20)
        <5> QED BY <4>1, <5>2, <5>3, <5>4, <5>5
      <4> HIDE DEF w
      <4>3. /\ Len(w \o <<"done">>) = n + 2 /\ (w \o <<"done">>)[n + 2] = "done"
            /\ \A i \in 1 .. n + 1 : (w \o <<"done">>)[i] = w[i]
        BY <1>2, <4>2
      <4>4. n + 1 \in 1 .. n + 1 /\ \A i \in 1 .. n : i \in 1 .. n + 1
        BY <1>2
      <4> QED BY <2>1, <4>2, <4>3, <4>4 DEF w
    <3>2. outcome = "error"
      <4>1. failures # <<>>
        BY <2>2, <2>7
      <4> QED BY <1>1, <4>1 DEF RunProgress
    <3> HIDE DEF n
    <3>3. \A i \in 1 .. n + 2 : i \in 1 .. n \/ i = n + 1 \/ i = n + 2
      BY <1>2
    <3>4. WrittenInOrder'
      <4> SUFFICES ASSUME NEW i \in 1 .. n + 2
                   PROVE  /\ i < n + 2 => written'[i] \notin {"done", "ctx"}
                          /\ written'[i] = "data" => i = 1 /\ outcome = "result" /\ outputs = <<>>
                          /\ written'[i] = "error" => outcome = "error"
                          /\ written'[i] # "ctx" => run \notin {"run", "send"}
                          /\ written'[i] = "ctx" => ctxEnded
        BY <2>1, <3>1 DEF WrittenInOrder
      <4>1. CASE i \in 1 .. n
        BY <1>1, <2>1, <3>1, <4>1 DEF WrittenInOrder, n
      <4>2. CASE i = n + 1
        BY <1>2, <2>3, <3>1, <3>2, <4>2
      <4>3. CASE i = n + 2
        BY <1>2, <2>3, <3>1, <4>3
      <4> QED BY <3>3, <4>1, <4>2, <4>3
    <3>5. ErrorWritten'
      <4> SUFFICES ASSUME ~ctxEnded PROVE n = 0
        BY <2>1, <2>2, <3>1 DEF ErrorWritten
      <4> QED BY <1>1, <2>3, <2>7, <3>2 DEF ErrorWritten, n
    <3> QED BY <2>4, <2>5, <3>4, <3>5 DEF GraphStreamInv
  <2> QED BY <2>2, <2>6, <2>7
<1> QED BY <1>3, <1>4, <1>6, <1>7 DEF StreamNext

-----------------------------------------------------------------------------
(* CheckpointManager: the histories and what the clients hold.             *)

ManagerConstants == MaxId \in Nat /\ MaxVersions \in Nat \ {0} /\ VersionSteps \subseteq Nat

\* q is what one write makes of a clone of p.
Follows(p, q) ==
    \E ch \in CpChannel : q.channelVersions = [p.channelVersions EXCEPT ![ch] = @ + 1]

\* What was saved on the latest checkpoint is the one after it and behind it.
StaysBehind(s, i, j) ==
    s[j].parent = s[i].id /\ s[j].behind => j = i + 1 /\ s[j].version = s[i].version + 1

\* A history s of the thread t, with ids below n.
HistoryGood(s, t, n) ==
    /\ s \in Seq(Checkpoint)
    /\ \A i \in DOMAIN s : s[i].thread = t /\ s[i].parent < s[i].id /\ s[i].id < n
    /\ \A i, j \in DOMAIN s : /\ s[i].id = s[j].id => i = j
                              /\ s[j].parent = s[i].id => Follows(s[i], s[j])
                              /\ StaysBehind(s, i, j)

\* What a client holds, h[c], has an id of its own, which no history has and
\* nobody was loaded from, and is at the channel versions of its parent if the
\* history has it.
ApartFrom(cp, s) ==
    \A i \in DOMAIN s :
        /\ s[i].id # cp.id /\ s[i].parent # cp.id
        /\ cp.parent = s[i].id => cp.channelVersions = s[i].channelVersions
HeldGood(h, H, n) ==
    \A c \in CpClient : h[c] # NoCheckpoint =>
        /\ h[c] \in Checkpoint /\ h[c].parent < h[c].id /\ h[c].id < n
        /\ ApartFrom(h[c], H[h[c].thread])
        /\ \A t \in CpThread : \A i \in DOMAIN H[t] : H[t][i].id # h[c].id
        /\ \A d \in CpClient : h[d] # NoCheckpoint =>
             (d # c => h[d].id # h[c].id) /\ h[d].parent # h[c].id

ManagerGood(H, h, n) ==
    /\ H \in [CpThread -> Seq(Checkpoint)]
    /\ h \in [CpClient -> Checkpoint \cup {NoCheckpoint}]
    /\ n \in 1 .. MaxId + 1
    /\ \A t \in CpThread : HistoryGood(H[t], t, n)
    /\ HeldGood(h, H, n)
ManagerInv == ManagerGood(checkpoints, held, nextId)

LEMMA ManagerInvInit == ASSUME ManagerConstants, ManagerInit PROVE ManagerInv
  BY DEF ManagerConstants, ManagerInit, ManagerInv, ManagerGood, HistoryGood,
         HeldGood, NoCheckpoint

\* A history from which checkpoints were taken is as good.
LEMMA HistoryShrinks ==
    ASSUME NEW H, NEW h, NEW n, ManagerGood(H, h, n), NEW t \in CpThread,
           NEW s \in Seq(Checkpoint), NEW f \in [DOMAIN s -> DOMAIN H[t]],
           \A i, j \in DOMAIN s : i < j => f[i] < f[j],
           \A i \in DOMAIN s : s[i] = H[t][f[i]]
    PROVE  ManagerGood([H EXCEPT ![t] = s], h, n)
<1> DEFINE J == [H EXCEPT ![t] = s]
<1>1. J \in [CpThread -> Seq(Checkpoint)] /\ J[t] = s /\ \A u \in CpThread : u # t => J[u] = H[u]
  BY DEF ManagerGood
<1>0. H[t] \in Seq(Checkpoint) /\ HistoryGood(H[t], t, n)
  BY DEF ManagerGood
<1>01. PICK l \in Nat : DOMAIN s = 1 .. l
  OBVIOUS
<1>02. \A i \in DOMAIN s : f[i] \in Int /\ f[i] \in DOMAIN H[t]
  BY <1>0
<1>03. \A i, j \in DOMAIN s : f[i] = f[j] => i = j
  BY <1>01, <1>02
<1>2. HistoryGood(s, t, n)
  <2>1. \A i \in DOMAIN s : s[i].thread = t /\ s[i].parent < s[i].id /\ s[i].id < n
    BY <1>0, <1>02 DEF HistoryGood
  <2>2. ASSUME NEW i \in DOMAIN s, NEW j \in DOMAIN s
        PROVE  /\ s[i].id = s[j].id => i = j
               /\ s[j].parent = s[i].id => Follows(s[i], s[j])
    BY <1>0, <1>02, <1>03, <2>2 DEF HistoryGood
  <2>3. ASSUME NEW i \in DOMAIN s, NEW j \in DOMAIN s PROVE StaysBehind(s, i, j)
    <3> SUFFICES ASSUME s[j].parent = s[i].id, s[j].behind
                 PROVE  j = i + 1 /\ s[j].version = s[i].version + 1
      BY DEF StaysBehind
    <3>1. f[j] = f[i] + 1 /\ s[j].version = s[i].version + 1
      <4>1. /\ f[i] \in DOMAIN H[t] /\ s[i] = H[t][f[i]]
            /\ f[j] \in DOMAIN H[t] /\ s[j] = H[t][f[j]]
        BY <1>02
      <4>2. StaysBehind(H[t], f[i], f[j])
        BY <1>0, <4>1 DEF HistoryGood
      <4> QED BY <4>1, <4>2 DEF StaysBehind
    <3>2. i < j
      BY <1>01, <1>02, <3>1
    <3>3. ~(i + 1 < j)
      <4> SUFFICES ASSUME i + 1 < j PROVE FALSE
        OBVIOUS
      <4>1. i + 1 \in DOMAIN s
        BY <1>01, <3>2
      <4>2. f[i] < f[i + 1] /\ f[i + 1] < f[j]
        BY <1>01, <3>2, <4>1
      <4> QED BY <1>02, <3>1, <4>1, <4>2
    <3> QED BY <1>01, <3>1, <3>2, <3>3
  <2> QED BY <2>1, <2>2, <2>3 DEF HistoryGood
<1>3. \A cp : ApartFrom(cp, H[t]) => ApartFrom(cp, s)
  BY DEF ApartFrom
<1>4. HeldGood(h, J, n)
  <2> SUFFICES ASSUME NEW c \in CpClient, h[c] # NoCheckpoint
               PROVE  /\ ApartFrom(h[c], J[h[c].thread])
                      /\ \A u \in CpThread : \A i \in DOMAIN J[u] : J[u][i].id # h[c].id
    BY DEF ManagerGood, HeldGood
  <2>1. /\ ApartFrom(h[c], H[h[c].thread]) /\ h[c].thread \in CpThread
        /\ \A u \in CpThread : \A i \in DOMAIN H[u] : H[u][i].id # h[c].id
    BY DEF ManagerGood, HeldGood, Checkpoint
  <2>2. \A i \in DOMAIN s : s[i].id # h[c].id
    BY <2>1
  <2> QED BY <1>1, <1>3, <2>1, <2>2
<1>5. \A u \in CpThread : HistoryGood(J[u], u, n)
  BY <1>1, <1>2 DEF ManagerGood
<1> HIDE DEF J
<1>6. ManagerGood(J, h, n)
  BY <1>1, <1>4, <1>5 DEF ManagerGood
<1> QED BY <1>6 DEF J

\* A checkpoint with an id of its own is appended to its thread's history.
LEMMA HistoryGrows ==
    ASSUME NEW H, NEW h, NEW n, ManagerGood(H, h, n), NEW cp \in Checkpoint,
           cp.parent < cp.id, cp.id < n,
           \A i \in DOMAIN H[cp.thread] : LET p == H[cp.thread][i] IN
              /\ p.id # cp.id /\ p.parent # cp.id
              /\ cp.parent = p.id => Follows(p, cp)
              /\ cp.parent = p.id /\ cp.behind =>
                   i = Len(H[cp.thread]) /\ cp.version = p.version + 1,
           \A c \in CpClient : h[c] # NoCheckpoint =>
              h[c].id # cp.id /\ h[c].parent # cp.id /\ cp.parent # h[c].id
    PROVE  ManagerGood([H EXCEPT ![cp.thread] = Append(@, cp)], h, n)
<1> DEFINE t == cp.thread
           s == Append(H[t], cp)
           J == [H EXCEPT ![t] = s]
<1>1. t \in CpThread /\ H[t] \in Seq(Checkpoint) /\ cp.id \in Nat /\ cp.parent \in Nat
  <2>1. t \in CpThread /\ cp.id \in Nat /\ cp.parent \in Nat
    BY DEF Checkpoint
  <2> QED BY <2>1 DEF ManagerGood
<1>2. /\ s \in Seq(Checkpoint)
      /\ \A i \in DOMAIN s : \/ i \in DOMAIN H[t] /\ s[i] = H[t][i]
                             \/ i = Len(H[t]) + 1 /\ s[i] = cp
      /\ \A i \in DOMAIN H[t] : i # Len(H[t]) + 1
  <2>1. PICK m \in Nat : m = Len(H[t]) /\ DOMAIN H[t] = 1 .. m
    BY <1>1
  <2>2. cp \in Checkpoint
    OBVIOUS
  <2> HIDE DEF t
  <2>3. s \in Seq(Checkpoint) /\ DOMAIN s = 1 .. m + 1 /\ s[m + 1] = cp
        /\ \A i \in 1 .. m : s[i] = H[t][i]
    BY <1>1, <2>1, <2>2
  <2> QED BY <2>1, <2>3
<1> HIDE DEF s
<1>3. J \in [CpThread -> Seq(Checkpoint)] /\ J[t] = s /\ \A u \in CpThread : u # t => J[u] = H[u]
  BY <1>1, <1>2 DEF ManagerGood
<1>4. HistoryGood(s, t, n)
  <2>1. HistoryGood(H[t], t, n)
    BY <1>1 DEF ManagerGood
  <2>2. \A i \in DOMAIN s : s[i].thread = t /\ s[i].parent < s[i].id /\ s[i].id < n
    BY <1>2, <2>1 DEF HistoryGood
  <2>3. ASSUME NEW i \in DOMAIN s, NEW j \in DOMAIN s
        PROVE  /\ s[i].id = s[j].id => i = j
               /\ s[j].parent = s[i].id => Follows(s[i], s[j])
               /\ StaysBehind(s, i, j)
    <3>1. CASE i \in DOMAIN H[t] /\ s[i] = H[t][i] /\ j \in DOMAIN H[t] /\ s[j] = H[t][j]
      BY <2>1, <3>1 DEF HistoryGood, StaysBehind
    <3>2. CASE i \in DOMAIN H[t] /\ s[i] = H[t][i] /\ j = Len(H[t]) + 1 /\ s[j] = cp
      BY <3>2 DEF StaysBehind
    <3>3. CASE i = Len(H[t]) + 1 /\ s[i] = cp /\ j \in DOMAIN H[t] /\ s[j] = H[t][j]
      BY <3>3 DEF StaysBehind
    <3>4. CASE i = Len(H[t]) + 1 /\ s[i] = cp /\ j = Len(H[t]) + 1 /\ s[j] = cp
      BY <1>1, <3>4 DEF StaysBehind
    <3> QED BY <1>2, <3>1, <3>2, <3>3, <3>4
  <2> QED BY <1>2, <2>2, <2>3 DEF HistoryGood
<1>5. HeldGood(h, J, n)
  <2> SUFFICES ASSUME NEW c \in CpClient, h[c] # NoCheckpoint
               PROVE  /\ ApartFrom(h[c], J[h[c].thread])
                      /\ \A u \in CpThread : \A i \in DOMAIN J[u] : J[u][i].id # h[c].id
    BY DEF ManagerGood, HeldGood
  <2>1. /\ ApartFrom(h[c], H[h[c].thread]) /\ h[c].thread \in CpThread
        /\ \A u \in CpThread : \A i \in DOMAIN H[u] : H[u][i].id # h[c].id
    BY DEF ManagerGood, HeldGood, Checkpoint
  <2>2. ASSUME h[c].thread = t PROVE ApartFrom(h[c], s)
    <3>1. h[c].id # cp.id /\ h[c].parent # cp.id /\ cp.parent # h[c].id
      OBVIOUS
    <3>2. ApartFrom(h[c], H[t])
      BY <2>1, <2>2
    <3> QED BY <1>2, <3>1, <3>2 DEF ApartFrom
  <2>3. \A i \in DOMAIN s : s[i].id # h[c].id
    BY <1>1, <1>2, <2>1
  <2>4. \A u \in CpThread : \A i \in DOMAIN J[u] : J[u][i].id # h[c].id
    BY <1>3, <2>1, <2>3
  <2> QED BY <1>3, <2>1, <2>2, <2>4
<1>6. \A u \in CpThread : HistoryGood(J[u], u, n)
  BY <1>3, <1>4 DEF ManagerGood
<1> HIDE DEF J
<1>7. ManagerGood(J, h, n)
  BY <1>3, <1>5, <1>6 DEF ManagerGood
<1> QED BY <1>7 DEF J, s

\* A client gives up what it held, or ids are used up.
LEMMA HeldGivenUp ==
    ASSUME NEW H, NEW h, NEW n, ManagerGood(H, h, n), NEW c \in CpClient
    PROVE  ManagerGood(H, [h EXCEPT ![c] = NoCheckpoint], n)
<1> DEFINE g == [h EXCEPT ![c] = NoCheckpoint]
<1>1. g \in [CpClient -> Checkpoint \cup {NoCheckpoint}]
      /\ \A d \in CpClient : g[d] # NoCheckpoint => g[d] = h[d]
  BY DEF ManagerGood
<1> HIDE DEF g
<1>2. HeldGood(g, H, n)
  BY <1>1 DEF ManagerGood, HeldGood
<1>3. ManagerGood(H, g, n)
  BY <1>1, <1>2 DEF ManagerGood
<1> QED BY <1>3 DEF g

LEMMA IdsUsedUp ==
    ASSUME NEW H, NEW h, NEW n, ManagerGood(H, h, n), n <= MaxId, ManagerConstants
    PROVE  ManagerGood(H, h, n + 1)
<1>1. n \in Nat /\ n + 1 \in 1 .. MaxId + 1 /\ \A i \in Int : i < n => i < n + 1
  BY DEF ManagerGood, ManagerConstants
<1>2. \A t \in CpThread : HistoryGood(H[t], t, n + 1)
  <2> SUFFICES ASSUME NEW t \in CpThread PROVE \A i \in DOMAIN H[t] : H[t][i].id < n + 1
    BY DEF ManagerGood, HistoryGood
  <2>1. \A i \in DOMAIN H[t] : H[t][i] \in Checkpoint /\ H[t][i].id < n
    BY DEF ManagerGood, HistoryGood
  <2> QED BY <1>1, <2>1 DEF Checkpoint
<1>3. HeldGood(h, H, n + 1)
  <2> SUFFICES ASSUME NEW c \in CpClient, h[c] # NoCheckpoint PROVE h[c].id < n + 1
    BY DEF ManagerGood, HeldGood
  <2>1. h[c] \in Checkpoint /\ h[c].id < n
    BY DEF ManagerGood, HeldGood
  <2> QED BY <1>1, <2>1 DEF Checkpoint
<1> QED BY <1>1, <1>2, <1>3 DEF ManagerGood

\* A client takes a new checkpoint, or a clone.
LEMMA HeldTaken ==
    ASSUME NEW H, NEW h, NEW n, ManagerGood(H, h, n), n <= MaxId, ManagerConstants,
           NEW c \in CpClient, NEW cp \in Checkpoint, cp.id = n, cp.parent < n,
           \A i \in DOMAIN H[cp.thread] : cp.parent = H[cp.thread][i].id =>
              cp.channelVersions = H[cp.thread][i].channelVersions,
           \A d \in CpClient : h[d] # NoCheckpoint => cp.parent # h[d].id
    PROVE  ManagerGood(H, [h EXCEPT ![c] = cp], n + 1)
<1> DEFINE g == [h EXCEPT ![c] = cp]
<1>1. /\ g \in [CpClient -> Checkpoint \cup {NoCheckpoint}] /\ g[c] = cp
      /\ \A d \in CpClient : d # c => g[d] = h[d]
  BY DEF ManagerGood
<1> HIDE DEF g
<1>2. ManagerGood(H, h, n + 1)
  BY IdsUsedUp
<1>3. n \in Nat /\ n < n + 1 /\ cp.thread \in CpThread
  BY DEF ManagerGood, ManagerConstants, Checkpoint
<1>41. ASSUME NEW t \in CpThread, NEW i \in DOMAIN H[t]
       PROVE  H[t][i].id # n /\ H[t][i].parent # n
  <2>1. HistoryGood(H[t], t, n)
    BY DEF ManagerGood
  <2>2. H[t][i] \in Checkpoint /\ H[t][i].id < n /\ H[t][i].parent < H[t][i].id
    BY <2>1 DEF HistoryGood
  <2> QED BY <1>3, <2>2 DEF Checkpoint
<1>4. ApartFrom(cp, H[cp.thread])
  BY <1>3, <1>41 DEF ApartFrom
<1>5. \A d \in CpClient : d # c /\ h[d] # NoCheckpoint =>
         h[d] \in Checkpoint /\ h[d].id # n /\ h[d].parent # n
  <2> SUFFICES ASSUME NEW d \in CpClient, h[d] # NoCheckpoint
               PROVE  h[d] \in Checkpoint /\ h[d].id # n /\ h[d].parent # n
    OBVIOUS
  <2>1. h[d] \in Checkpoint /\ h[d].id < n /\ h[d].parent < h[d].id
    BY DEF ManagerGood, HeldGood
  <2> QED BY <1>3, <2>1 DEF Checkpoint
<1>6. ASSUME NEW d \in CpClient, g[d] # NoCheckpoint
      PROVE  /\ g[d] \in Checkpoint /\ g[d].parent < g[d].id /\ g[d].id < n + 1
             /\ ApartFrom(g[d], H[g[d].thread])
             /\ \A t \in CpThread : \A i \in DOMAIN H[t] : H[t][i].id # g[d].id
             /\ \A e \in CpClient : g[e] # NoCheckpoint =>
                  (e # d => g[e].id # g[d].id) /\ g[e].parent # g[d].id
  <2>1. CASE d = c
    BY <1>1, <1>3, <1>4, <1>41, <1>5, <2>1
  <2>2. CASE d # c
    <3>1. g[d] = h[d] /\ h[d] # NoCheckpoint
      BY <1>1, <1>6, <2>2
    <3>2. HeldGood(h, H, n + 1)
      BY <1>2 DEF ManagerGood
    <3>3. /\ g[d] \in Checkpoint /\ g[d].parent < g[d].id /\ g[d].id < n + 1
          /\ ApartFrom(g[d], H[g[d].thread])
          /\ \A t \in CpThread : \A i \in DOMAIN H[t] : H[t][i].id # g[d].id
          /\ \A e \in CpClient : h[e] # NoCheckpoint =>
               (e # d => h[e].id # g[d].id) /\ h[e].parent # g[d].id
      BY <3>1, <3>2 DEF HeldGood
    <3>4. g[d].id # n
      BY <1>5, <2>2, <3>1
    <3> QED BY <1>1, <3>1, <3>3, <3>4
  <2> QED BY <2>1, <2>2
<1>7. HeldGood(g, H, n + 1)
  BY <1>6 DEF HeldGood
<1>8. ManagerGood(H, g, n + 1)
  BY <1>1, <1>2, <1>7 DEF ManagerGood
<1> QED BY <1>8 DEF g

\* A write to a channel.
LEMMA ApplyFollows ==
    ASSUME NEW cp \in Checkpoint, NEW ch \in CpChannel
    PROVE  /\ Apply(cp, ch) \in Checkpoint
           /\ Apply(cp, ch).id = cp.id /\ Apply(cp, ch).parent = cp.parent
           /\ Apply(cp, ch).version = cp.version /\ Apply(cp, ch).thread = cp.thread
           /\ Apply(cp, ch).behind = cp.behind
           /\ Apply(cp, ch).channelVersions = [cp.channelVersions EXCEPT ![ch] = @ + 1]
<1> DEFINE state == [cp.state EXCEPT ![ch] = cp.id]
           vs == [cp.channelVersions EXCEPT ![ch] = @ + 1]
           a == [cp EXCEPT !.state = state]
           b == [a EXCEPT !.channelVersions = vs]
<1>1. state \in [CpChannel -> CpWrite] /\ vs \in [CpChannel -> Nat]
  BY DEF Checkpoint, CpWrite
<1>2. Apply(cp, ch) = [a EXCEPT !.channelVersions = [a.channelVersions EXCEPT ![ch] = @ + 1]]
  BY DEF Apply, IncrementChannel
<1> HIDE DEF state, vs
<1>3. /\ a \in Checkpoint /\ a.id = cp.id /\ a.parent = cp.parent /\ a.version = cp.version
      /\ a.thread = cp.thread /\ a.channelVersions = cp.channelVersions
      /\ a.behind = cp.behind
  BY <1>1 DEF Checkpoint
<1> HIDE DEF a
<1>4. /\ b \in Checkpoint /\ b.id = a.id /\ b.parent = a.parent /\ b.version = a.version
      /\ b.thread = a.thread /\ b.channelVersions = vs /\ b.behind = a.behind
  BY <1>1, <1>3 DEF Checkpoint
<1>5. Apply(cp, ch) = b
  BY <1>2, <1>3 DEF vs
<1> QED BY <1>3, <1>4, <1>5 DEF vs

LEMMA ClonesFollow ==
    ASSUME NEW p \in Checkpoint, nextId \in 1 .. MaxId
    PROVE  /\ CloneOf(p) \in Checkpoint
           /\ CloneOf(p).id = nextId /\ CloneOf(p).parent = p.id /\ CloneOf(p).thread = p.thread
           /\ CloneOf(p).version = p.version /\ CloneOf(p).channelVersions = p.channelVersions
<1> DEFINE a == [p EXCEPT !.id = nextId]
           b == [a EXCEPT !.parent = p.id]
<1>1. /\ a \in Checkpoint /\ a.id = nextId /\ a.thread = p.thread
      /\ a.version = p.version /\ a.channelVersions = p.channelVersions
  BY DEF Checkpoint
<1>2. CloneOf(p) = [b EXCEPT !.behind = FALSE] /\ p.id \in 0 .. MaxId
  BY DEF CloneOf, Checkpoint
<1> HIDE DEF a
<1>3. /\ b \in Checkpoint /\ b.id = nextId /\ b.parent = p.id /\ b.thread = p.thread
      /\ b.version = p.version /\ b.channelVersions = p.channelVersions
  BY <1>1, <1>2 DEF Checkpoint
<1> HIDE DEF b
<1> QED BY <1>2, <1>3 DEF Checkpoint

LEMMA Trims ==
    ASSUME NEW s \in Seq(Checkpoint), ManagerConstants
    PROVE  /\ Trim(s) \in Seq(Checkpoint)
           /\ \E d \in Nat : \A i \in DOMAIN Trim(s) :
                 i + d \in DOMAIN s /\ Trim(s)[i] = s[i + d]
<1>1. CASE Len(s) > MaxVersions
  <2>1. PICK n \in Nat : n = Len(s) /\ DOMAIN s = 1 .. n
    OBVIOUS
  <2> DEFINE d == n - MaxVersions
  <2>2. d \in Nat
    BY <1>1, <2>1 DEF ManagerConstants
  <2>3. Trim(s) = SubSeq(s, d + 1, n) /\ d + 1 \in 1 .. n + 1
    BY <1>1, <2>1, <2>2 DEF Trim, ManagerConstants
  <2> HIDE DEF d
  <2>4. /\ Trim(s) \in Seq(Checkpoint) /\ DOMAIN Trim(s) = 1 .. n - d
        /\ \A i \in 1 .. n - d : Trim(s)[i] = s[d + i]
    BY <2>1, <2>2, <2>3
  <2>5. \A i \in DOMAIN Trim(s) : i + d \in DOMAIN s /\ Trim(s)[i] = s[i + d]
    BY <2>1, <2>2, <2>4
  <2> QED BY <2>2, <2>4, <2>5
<1>2. CASE ~(Len(s) > MaxVersions)
  <2>1. Trim(s) = s
    BY <1>2 DEF Trim
  <2>2. \A i \in DOMAIN s : i + 0 \in DOMAIN s /\ s[i] = s[i + 0]
    OBVIOUS
  <2> QED BY <2>1, <2>2
<1> QED BY <1>1, <1>2

\* The first checkpoint with a version.
LEMMA SelectsFirst ==
    ASSUME NEW t \in CpThread, checkpoints[t] \in Seq(Checkpoint), NEW v,
           NEW j \in DOMAIN checkpoints[t], checkpoints[t][j].version = v
    PROVE  /\ IndexOfVersion(t, v) \in DOMAIN checkpoints[t]
           /\ IndexOfVersion(t, v) <= j
<1> DEFINE I == {i \in 1 .. Len(checkpoints[t]) : checkpoints[t][i].version = v}
<1>1. j \in I /\ I \subseteq Nat /\ I # {}
  OBVIOUS
<1>4. IndexOfVersion(t, v) = Min(I)
  BY <1>1 DEF IndexOfVersion, SelectInSeq
<1>5. Min(I) \in I /\ \A i \in I : Min(I) <= i
  BY <1>1, FirstOf
<1> QED BY <1>1, <1>4, <1>5

LEMMA ManagerInvNext ==
    ASSUME ManagerConstants, ManagerInv, ManagerNext \/ UNCHANGED managerVars PROVE ManagerInv'
<1> USE ManagerConstants
<1>1. /\ ManagerGood(checkpoints, held, nextId) /\ nextId \in Nat
      /\ checkpoints \in [CpThread -> Seq(Checkpoint)]
      /\ \A t \in CpThread : HistoryGood(checkpoints[t], t, nextId)
  BY DEF ManagerInv, ManagerGood, ManagerConstants
<1>2. ASSUME NEW c \in CpClient, NEW cp \in Checkpoint, Fresh, UNCHANGED checkpoints,
             held' = [held EXCEPT ![c] = cp], cp.id = nextId, cp.parent < nextId,
             \A i \in DOMAIN checkpoints[cp.thread] : cp.parent = checkpoints[cp.thread][i].id =>
                cp.channelVersions = checkpoints[cp.thread][i].channelVersions,
             \A d \in CpClient : held[d] # NoCheckpoint => cp.parent # held[d].id
      PROVE  ManagerInv'
  <2>1. nextId <= MaxId /\ nextId' = nextId + 1
    BY <1>2 DEF Fresh
  <2>2. ManagerGood(checkpoints, [held EXCEPT ![c] = cp], nextId + 1)
    BY <1>1, <1>2, <2>1, HeldTaken
  <2> QED BY <1>2, <2>1, <2>2 DEF ManagerInv
<1>3. \A c \in CpClient : held[c] # NoCheckpoint => held[c] \in Checkpoint /\ held[c].id < nextId
                       /\ held[c].parent < held[c].id
  BY <1>1 DEF ManagerGood, HeldGood
<1>5. ASSUME NEW c \in CpClient, NEW t \in CpThread, Begin(c, t) PROVE ManagerInv'
  <2> DEFINE cp == NewCheckpoint(t)
  <2>1. nextId \in 1 .. MaxId
    BY <1>1, <1>5 DEF Begin, Fresh, ManagerGood, ManagerConstants
  <2>2. cp \in Checkpoint /\ cp.id = nextId /\ cp.parent = 0 /\ cp.thread = t
    BY <2>1 DEF NewCheckpoint, Checkpoint, CpWrite, NoId, ManagerConstants
  <2>3. Fresh /\ UNCHANGED checkpoints /\ held' = [held EXCEPT ![c] = cp]
    BY <1>5 DEF Begin
  <2> HIDE DEF cp
  <2>4. \A i \in DOMAIN checkpoints[t] : checkpoints[t][i].id # 0
    <3>1. \A i \in DOMAIN checkpoints[t] : checkpoints[t][i] \in Checkpoint
      BY <1>1 DEF HistoryGood
    <3> QED BY <3>1 DEF Checkpoint
  <2>5. \A d \in CpClient : held[d] # NoCheckpoint => held[d].id # 0
    BY <1>3 DEF Checkpoint
  <2>6. cp.parent < nextId
    BY <2>1, <2>2
  <2> QED BY <1>2, <2>2, <2>3, <2>4, <2>5, <2>6
<1>6. ASSUME NEW c \in CpClient, NEW t \in CpThread, NEW k \in DOMAIN checkpoints[t],
             LoadAny(c, checkpoints[t][k])
      PROVE  ManagerInv'
  <2> DEFINE p == checkpoints[t][k]
             cp == CloneOf(p)
  <2>1. p \in Checkpoint /\ p.thread = t /\ p.id < nextId
    BY <1>1 DEF HistoryGood
  <2>2. nextId \in 1 .. MaxId
    BY <1>1, <1>6 DEF LoadAny, Fresh, ManagerGood, ManagerConstants
  <2>3. Fresh /\ UNCHANGED checkpoints /\ held' = [held EXCEPT ![c] = cp]
    BY <1>6 DEF LoadAny
  <2>4. \A i \in DOMAIN checkpoints[t] : checkpoints[t][i].id = p.id => checkpoints[t][i] = p
    BY <1>1 DEF HistoryGood
  <2>5. \A d \in CpClient : held[d] # NoCheckpoint => p.id # held[d].id
    BY <1>1 DEF ManagerGood, HeldGood
  <2> HIDE DEF p
  <2>6. /\ cp \in Checkpoint /\ cp.id = nextId /\ cp.parent = p.id /\ cp.thread = t
        /\ cp.channelVersions = p.channelVersions
    BY <2>1, <2>2, ClonesFollow
  <2> HIDE DEF cp
  <2>7. \A i \in DOMAIN checkpoints[cp.thread] : cp.parent = checkpoints[cp.thread][i].id =>
                cp.channelVersions = checkpoints[cp.thread][i].channelVersions
    BY <2>4, <2>6
  <2>8. cp.parent < nextId /\ \A d \in CpClient : held[d] # NoCheckpoint => cp.parent # held[d].id
    BY <2>1, <2>5, <2>6
  <2>9. cp \in Checkpoint /\ cp.id = nextId
    BY <2>6
  <2> HIDE DEF ManagerInv
  <2> QED BY <1>2, <2>3, <2>7, <2>8, <2>9
<1>7. ASSUME NEW c \in CpClient, NEW t \in CpThread, Load(c, t) \/ LoadByCheckpointID(c, t)
      PROVE  ManagerInv'
  <2>1. CASE LoadByCheckpointID(c, t)
    BY <1>6, <2>1 DEF LoadByCheckpointID
  <2>2. CASE Load(c, t)
    <3>1. checkpoints[t] \in Seq(Checkpoint) /\ checkpoints[t] # <<>>
      BY <1>1, <2>2 DEF Load, HasAny
    <3>2. Len(checkpoints[t]) \in DOMAIN checkpoints[t]
      BY <3>1
    <3> QED BY <1>6, <2>2, <3>2 DEF Load, Latest, Last
  <2> QED BY <1>7, <2>1, <2>2
<1>8. ASSUME NEW H, NEW h, NEW n, ManagerGood(H, h, n), NEW t \in CpThread,
             NEW s \in Seq(Checkpoint), NEW d \in Nat,
             \A i \in DOMAIN s : i + d \in DOMAIN H[t] /\ s[i] = H[t][i + d]
      PROVE  ManagerGood([H EXCEPT ![t] = s], h, n)
  <2> DEFINE f == [i \in DOMAIN s |-> i + d]
  <2>1. \A i, j \in DOMAIN s : i < j => f[i] < f[j]
    BY <1>8
  <2>2. f \in [DOMAIN s -> DOMAIN H[t]] /\ \A i \in DOMAIN s : s[i] = H[t][f[i]]
    BY <1>8
  <2> HIDE DEF f
  <2> QED BY <1>8, <2>1, <2>2, HistoryShrinks
<1>9. ASSUME NEW c \in CpClient, NEW ch \in CpChannel, NEW by \in VersionSteps, Save(c, ch, by)
      PROVE  ManagerInv'
  <2> DEFINE x == held[c]
             on == OnLatest(x)
             v == [x EXCEPT !.version = @ + by, !.behind = on]
             cp == Apply(v, ch)
             t == cp.thread
             h == [held EXCEPT ![c] = NoCheckpoint]
  <2>1. /\ x # NoCheckpoint /\ h = held' /\ nextId' = nextId
        /\ \/ checkpoints' = checkpoints
           \/ /\ ~Conflict(cp)
              /\ checkpoints' = [checkpoints EXCEPT ![t] = Trim(Append(checkpoints[t], cp))]
    BY <1>9 DEF Save
  <2>2. ManagerGood(checkpoints, h, nextId)
    BY <1>1, HeldGivenUp
  <2>3. /\ x \in Checkpoint /\ x.parent < x.id /\ x.id < nextId
        /\ ApartFrom(x, checkpoints[x.thread])
        /\ \A d \in CpClient : held[d] # NoCheckpoint =>
             (d # c => held[d].id # x.id) /\ held[d].parent # x.id
        /\ \A d \in CpClient : held[d] # NoCheckpoint => x.parent # held[d].id
    BY <1>1, <2>1 DEF ManagerGood, HeldGood
  <2>4. \A d \in CpClient : h[d] # NoCheckpoint => d # c /\ h[d] = held[d]
    BY <1>1 DEF ManagerGood
  <2> HIDE DEF x, h
  <2>5. /\ v \in Checkpoint /\ v.id = x.id /\ v.parent = x.parent /\ v.thread = x.thread
        /\ v.channelVersions = x.channelVersions /\ v.behind = on
    <3> DEFINE w == [x EXCEPT !.version = x.version + by]
    <3>1. x.version + by \in Nat
      BY <2>3 DEF Checkpoint, ManagerConstants
    <3>2. /\ w \in Checkpoint /\ w.id = x.id /\ w.parent = x.parent /\ w.thread = x.thread
          /\ w.channelVersions = x.channelVersions
      BY <2>3, <3>1 DEF Checkpoint
    <3>3. on \in BOOLEAN
      BY DEF OnLatest, HasAny
    <3>4. v = [w EXCEPT !.behind = on]
      BY <2>3 DEF Checkpoint
    <3> HIDE DEF w, on
    <3> QED BY <3>2, <3>3, <3>4 DEF Checkpoint
  <2> HIDE DEF v, on
  <2>7. /\ cp \in Checkpoint /\ cp.id = x.id /\ cp.parent = x.parent /\ cp.thread = x.thread
        /\ cp.behind = on /\ cp.version \in Nat
        /\ cp.channelVersions = [x.channelVersions EXCEPT ![ch] = @ + 1]
    <3>1. /\ cp \in Checkpoint /\ cp.id = v.id /\ cp.parent = v.parent /\ cp.thread = v.thread
          /\ cp.behind = v.behind
          /\ cp.channelVersions = [v.channelVersions EXCEPT ![ch] = @ + 1]
      BY <2>5, ApplyFollows
    <3> HIDE DEF cp
    <3>2. cp.version \in Nat
      BY <3>1 DEF Checkpoint
    <3> QED BY <2>5, <3>1, <3>2
  <2> HIDE DEF cp
  <2>8. t \in CpThread /\ checkpoints[t] \in Seq(Checkpoint)
    BY <1>1, <2>7 DEF Checkpoint
  <2>9. ASSUME ~Conflict(cp), NEW i \in DOMAIN checkpoints[t]
        PROVE  LET p == checkpoints[t][i] IN
               /\ p.id # cp.id /\ p.parent # cp.id
               /\ cp.parent = p.id => Follows(p, cp)
               /\ cp.parent = p.id /\ cp.behind =>
                    i = Len(checkpoints[t]) /\ cp.version = p.version + 1
    <3> DEFINE p == checkpoints[t][i]
               n == Len(checkpoints[t])
    <3>1. /\ p.id # cp.id /\ p.parent # cp.id
          /\ cp.parent = p.id => x.channelVersions = p.channelVersions
      BY <2>3, <2>7 DEF ApartFrom
    <3>2. cp.parent = p.id => Follows(p, cp)
      BY <2>7, <3>1 DEF Follows
    <3>3. ASSUME cp.parent = p.id, cp.behind PROVE i = n /\ cp.version = p.version + 1
      <4>1. OnLatest(x)
        BY <2>7, <3>3 DEF on
      <4>2. /\ checkpoints[t] # <<>> /\ checkpoints[t][n].id = cp.parent
            /\ checkpoints[t][n].version = cp.version - 1
        BY <1>9, <2>7, <2>9, <4>1 DEF OnLatest, HasAny, Latest, Last, Conflict
      <4>3. n \in DOMAIN checkpoints[t]
        BY <2>8, <4>2
      <4>4. i = n
        BY <1>1, <2>8, <3>3, <4>2, <4>3 DEF HistoryGood
      <4>5. p.version \in Nat
        <5>1. p \in Checkpoint
          BY <2>8
        <5> HIDE DEF p
        <5> QED BY <5>1 DEF Checkpoint
      <4> QED BY <2>7, <4>2, <4>4, <4>5
    <3> HIDE DEF p
    <3> QED BY <3>1, <3>2, <3>3 DEF p
  <2>10. ASSUME ~Conflict(cp)
         PROVE  ManagerGood([checkpoints EXCEPT ![t] = Append(@, cp)], h, nextId)
    <3>1. cp.parent < cp.id /\ cp.id < nextId
      BY <2>3, <2>7
    <3>2. \A d \in CpClient : h[d] # NoCheckpoint =>
             h[d].id # cp.id /\ h[d].parent # cp.id /\ cp.parent # h[d].id
      BY <2>3, <2>4, <2>7
    <3>3. cp \in Checkpoint
      BY <2>7
    <3> QED BY <2>2, <2>9, <2>10, <3>1, <3>2, <3>3, HistoryGrows
  <2>11. ASSUME ~Conflict(cp)
         PROVE  ManagerGood([checkpoints EXCEPT ![t] = Trim(Append(checkpoints[t], cp))], h, nextId)
    <3> DEFINE s == Append(checkpoints[t], cp)
               J == [checkpoints EXCEPT ![t] = s]
    <3>1. s \in Seq(Checkpoint) /\ J[t] = s
      BY <1>1, <2>7, <2>8
    <3> HIDE DEF s
    <3>2. /\ Trim(s) \in Seq(Checkpoint)
          /\ \E d \in Nat : \A i \in DOMAIN Trim(s) : i + d \in DOMAIN s /\ Trim(s)[i] = s[i + d]
      BY <3>1, Trims
    <3>3. ManagerGood(J, h, nextId)
      BY <2>10, <2>11 DEF s
    <3>4. ManagerGood([J EXCEPT ![t] = Trim(s)], h, nextId)
      <4> HIDE DEF J
      <4> QED BY <1>8, <2>8, <3>1, <3>2, <3>3
    <3>5. [J EXCEPT ![t] = Trim(s)] = [checkpoints EXCEPT ![t] = Trim(s)]
      BY <1>1, <2>8
    <3> QED BY <3>4, <3>5 DEF s
  <2> QED BY <2>1, <2>2, <2>11 DEF ManagerInv
<1>10. ASSUME NEW t \in CpThread, NEW ch \in CpChannel, PutWrites(t, ch) PROVE ManagerInv'
  <2> DEFINE k == Len(checkpoints[t])
             p == checkpoints[t][k]
             v == [CloneOf(p) EXCEPT !.version = p.version + 1, !.behind = TRUE]
             cp == Apply(v, ch)
  <2>1. /\ checkpoints[t] # <<>> /\ Fresh /\ held' = held
        /\ checkpoints' = [checkpoints EXCEPT ![t] = Append(@, cp)]
    BY <1>10 DEF PutWrites, HasAny, Latest, Last
  <2>2. k \in DOMAIN checkpoints[t] /\ checkpoints[t] \in Seq(Checkpoint)
    BY <1>1, <2>1
  <2>3. p \in Checkpoint /\ p.thread = t /\ p.id < nextId
    BY <1>1, <2>2 DEF HistoryGood
  <2>4. nextId \in 1 .. MaxId /\ nextId' = nextId + 1
    BY <1>1, <2>1 DEF Fresh, ManagerGood, ManagerConstants
  <2>5. \A i \in DOMAIN checkpoints[t] : checkpoints[t][i].id = p.id => checkpoints[t][i] = p
    BY <1>1, <2>2 DEF HistoryGood
  <2>6. \A d \in CpClient : held[d] # NoCheckpoint => p.id # held[d].id
    BY <1>1, <2>2 DEF ManagerGood, HeldGood
  <2>7. \A i \in DOMAIN checkpoints[t] :
          checkpoints[t][i].id # nextId /\ checkpoints[t][i].parent # nextId
    <3>1. \A i \in DOMAIN checkpoints[t] : checkpoints[t][i] \in Checkpoint
             /\ checkpoints[t][i].id < nextId /\ checkpoints[t][i].parent < checkpoints[t][i].id
      BY <1>1 DEF HistoryGood
    <3> QED BY <3>1, <2>4 DEF Checkpoint
  <2>8. \A d \in CpClient : held[d] # NoCheckpoint => held[d].id # nextId /\ held[d].parent # nextId
    BY <1>3, <2>4 DEF Checkpoint
  <2> HIDE DEF p, k
  <2>9. /\ v \in Checkpoint /\ v.id = nextId /\ v.parent = p.id /\ v.thread = t
        /\ v.version = p.version + 1 /\ v.channelVersions = p.channelVersions
    <3>1. /\ CloneOf(p) \in Checkpoint
          /\ CloneOf(p).id = nextId /\ CloneOf(p).parent = p.id /\ CloneOf(p).thread = p.thread
          /\ CloneOf(p).channelVersions = p.channelVersions
      BY <2>3, <2>4, ClonesFollow
    <3>2. p.version + 1 \in Nat
      BY <2>3 DEF Checkpoint
    <3> DEFINE w == [CloneOf(p) EXCEPT !.version = p.version + 1]
    <3>3. /\ w \in Checkpoint /\ w.id = nextId /\ w.parent = p.id /\ w.thread = t
          /\ w.version = p.version + 1 /\ w.channelVersions = p.channelVersions
      BY <2>3, <3>1, <3>2 DEF Checkpoint
    <3>4. v = [w EXCEPT !.behind = TRUE]
      OBVIOUS
    <3> HIDE DEF w
    <3> QED BY <3>3, <3>4 DEF Checkpoint
  <2> HIDE DEF v
  <2>10. /\ cp \in Checkpoint /\ cp.id = nextId /\ cp.parent = p.id /\ cp.thread = t
         /\ Follows(p, cp) /\ cp.version = p.version + 1
    <3>1. /\ cp \in Checkpoint /\ cp.id = v.id /\ cp.parent = v.parent /\ cp.thread = v.thread
          /\ cp.version = v.version
          /\ cp.channelVersions = [v.channelVersions EXCEPT ![ch] = @ + 1]
      BY <2>9, ApplyFollows
    <3> HIDE DEF cp
    <3>2. /\ cp.version = p.version + 1
          /\ cp.channelVersions = [p.channelVersions EXCEPT ![ch] = @ + 1]
      BY <2>9, <3>1
    <3> QED BY <2>9, <3>1, <3>2 DEF Follows
  <2> HIDE DEF cp
  <2>11. ManagerGood(checkpoints, held, nextId + 1)
    BY <1>1, <2>4, IdsUsedUp, SMTT(20)
  <2>12. \A i \in DOMAIN checkpoints[cp.thread] : LET q == checkpoints[cp.thread][i] IN
              /\ q.id # cp.id /\ q.parent # cp.id
              /\ cp.parent = q.id => Follows(q, cp)
              /\ cp.parent = q.id /\ cp.behind =>
                   i = Len(checkpoints[cp.thread]) /\ cp.version = q.version + 1
    <3>1. \A i \in DOMAIN checkpoints[t] : checkpoints[t][i].id = p.id => i = k
      BY <1>1, <2>2 DEF HistoryGood, p
    <3> QED BY <2>5, <2>7, <2>10, <3>1 DEF k
  <2>13. \A c \in CpClient : held[c] # NoCheckpoint =>
              held[c].id # cp.id /\ held[c].parent # cp.id /\ cp.parent # held[c].id
    BY <2>6, <2>8, <2>10
  <2>14. cp.parent < cp.id /\ cp.id < nextId + 1
    BY <2>3, <2>4, <2>10
  <2>15. ManagerGood([checkpoints EXCEPT ![cp.thread] = Append(@, cp)], held, nextId + 1)
    BY <2>10, <2>11, <2>12, <2>13, <2>14, HistoryGrows
  <2> QED BY <2>1, <2>4, <2>10, <2>15 DEF ManagerInv
<1>11. ASSUME NEW t \in CpThread, NEW k \in 1 .. MaxId, Delete(t, k) PROVE ManagerInv'
  <2> DEFINE s == checkpoints[t]
             r == RemoveAt(s, k)
             f == [i \in DOMAIN r |-> IF i < k THEN i ELSE i + 1]
  <2>1. s \in Seq(Checkpoint) /\ k \in DOMAIN s /\ UNCHANGED <<held, nextId>>
        /\ checkpoints' = [checkpoints EXCEPT ![t] = r]
    BY <1>1, <1>11 DEF Delete
  <2>2. PICK n \in Nat : n = Len(s) /\ DOMAIN s = 1 .. n
    BY <2>1
  <2> HIDE DEF s
  <2>3. /\ r \in Seq(Checkpoint) /\ DOMAIN r = 1 .. n - 1
        /\ \A i \in 1 .. n - 1 : r[i] = IF i < k THEN s[i] ELSE s[i + 1]
    <3>1. /\ SubSeq(s, 1, k - 1) \in Seq(Checkpoint) /\ Len(SubSeq(s, 1, k - 1)) = k - 1
          /\ \A i \in 1 .. k - 1 : SubSeq(s, 1, k - 1)[i] = s[i]
      BY <2>1, <2>2
    <3>2. /\ SubSeq(s, k + 1, n) \in Seq(Checkpoint) /\ Len(SubSeq(s, k + 1, n)) = n - k
          /\ \A i \in 1 .. n - k : SubSeq(s, k + 1, n)[i] = s[k + i]
      BY <2>1, <2>2
    <3>3. r = SubSeq(s, 1, k - 1) \o SubSeq(s, k + 1, n)
      BY <2>2 DEF RemoveAt
    <3> DEFINE u == SubSeq(s, 1, k - 1)
               w == SubSeq(s, k + 1, n)
    <3>8. u \in Seq(Checkpoint) /\ w \in Seq(Checkpoint) /\ Len(u) = k - 1 /\ Len(w) = n - k
      BY <3>1, <3>2
    <3>9. k \in 1 .. n
      BY <2>1, <2>2
    <3> HIDE DEF u, w
    <3>4. /\ u \o w \in Seq(Checkpoint) /\ Len(u \o w) = n - 1
          /\ \A i \in 1 .. n - 1 : (u \o w)[i] = IF i <= k - 1 THEN u[i] ELSE w[i - (k - 1)]
      BY <3>8, <3>9
    <3>5. \A i \in 1 .. n - 1 : (u \o w)[i] = IF i < k THEN s[i] ELSE s[i + 1]
      <4> SUFFICES ASSUME NEW i \in 1 .. n - 1
                   PROVE  (u \o w)[i] = IF i < k THEN s[i] ELSE s[i + 1]
        OBVIOUS
      <4>1. CASE i < k
        BY <2>1, <2>2, <3>1, <3>4, <4>1 DEF u
      <4>2. CASE ~(i < k)
        <5>1. i - (k - 1) \in 1 .. n - k /\ k + (i - (k - 1)) = i + 1 /\ ~(i <= k - 1)
          BY <2>1, <2>2, <4>2
        <5> QED BY <3>2, <3>4, <4>2, <5>1 DEF w
      <4> QED BY <4>1, <4>2
    <3>6. DOMAIN (u \o w) = 1 .. n - 1
      BY <3>4
    <3> QED BY <3>3, <3>4, <3>5, <3>6 DEF u, w
  <2> HIDE DEF r
  <2>4. /\ \A i, j \in DOMAIN r : i < j => f[i] < f[j]
        /\ f \in [DOMAIN r -> DOMAIN s] /\ \A i \in DOMAIN r : r[i] = s[f[i]]
    BY <2>1, <2>2, <2>3
  <2> HIDE DEF f
  <2>5. ManagerGood([checkpoints EXCEPT ![t] = r], held, nextId)
    BY <1>1, <2>3, <2>4, HistoryShrinks DEF s
  <2> QED BY <2>1, <2>5 DEF ManagerInv
<1>12. ASSUME NEW t \in CpThread, ClearThread(t) PROVE ManagerInv'
  <2>1. UNCHANGED <<held, nextId>> /\ checkpoints' = [checkpoints EXCEPT ![t] = <<>>]
    BY <1>12 DEF ClearThread
  <2>2. <<>> \in Seq(Checkpoint) /\ DOMAIN <<>> = {}
    OBVIOUS
  <2>3. ManagerGood([checkpoints EXCEPT ![t] = <<>>], held, nextId)
    BY <1>1, <1>8, <2>2
  <2> QED BY <2>1, <2>3 DEF ManagerInv
<1>13. ASSUME ClearAll PROVE ManagerInv'
  <2>1. UNCHANGED <<held, nextId>> /\ checkpoints' \in [CpThread -> Seq(Checkpoint)]
        /\ \A t \in CpThread : checkpoints'[t] = <<>>
    BY <1>13 DEF ClearAll
  <2>2. \A t \in CpThread : HistoryGood(checkpoints'[t], t, nextId)
    BY <2>1 DEF HistoryGood
  <2>3. HeldGood(held, checkpoints', nextId)
    <3>1. \A c \in CpClient : held[c] # NoCheckpoint => held[c].thread \in CpThread
      BY <1>3 DEF Checkpoint
    <3> QED BY <1>1, <2>1, <3>1 DEF ManagerGood, HeldGood, ApartFrom
  <2> QED BY <1>1, <2>1, <2>2, <2>3 DEF ManagerInv, ManagerGood
<1>14. ASSUME UNCHANGED managerVars PROVE ManagerInv'
  BY <1>14 DEF managerVars, ManagerInv
<1> QED
  BY <1>5, <1>7, <1>9, <1>10, <1>11, <1>12, <1>13, <1>14 DEF ManagerNext

LEMMA ManagerInvSound == ASSUME ManagerInv PROVE VersionsFollowParents
<1> SUFFICES ASSUME NEW t \in CpThread, NEW i \in DOMAIN checkpoints[t], NEW j \in DOMAIN checkpoints[t]
    PROVE   LET p == checkpoints[t][i]
                q == checkpoints[t][j]
            IN  /\ p.id = q.id => i = j
                /\ q.parent = p.id => Follows(p, q)
                /\ q.parent = p.id /\ q.behind => j = i + 1 /\ q.version = p.version + 1
                /\ Len(List(t, i)) = i /\ List(t, 0)[i].parent = p.id
                /\ Last(GetLineage(t, i)).checkpoint = GetTuple(t).checkpoint
                /\ j < i /\ q.version = p.version =>
                     GetTupleByVersion(t, p.version).checkpoint.parent # p.id
  BY DEF VersionsFollowParents, Follows
<1> DEFINE s == checkpoints[t]
<1>1. HistoryGood(s, t, nextId) /\ s \in Seq(Checkpoint)
  BY DEF ManagerInv, ManagerGood
<1>2. PICK n \in Nat : n = Len(s) /\ DOMAIN s = 1 .. n
  BY <1>1
<1>3. n >= 1 /\ i \in 1 .. n /\ j \in 1 .. n
  BY <1>2
<1>4. Newest(0, n) = n /\ Newest(i, n) = i
  BY <1>3 DEF Newest
<1>41. \A m \in 1 .. n : Copy(s[m]).parent = s[m].id
  <2> SUFFICES ASSUME NEW m \in 1 .. n PROVE Copy(s[m]).parent = s[m].id
    OBVIOUS
  <2>1. PICK e : e = s[m]
    OBVIOUS
  <2>2. e \in Checkpoint
    BY <1>1, <1>2, <2>1
  <2>3. Copy(e).parent = e.id
    <3>1. [e EXCEPT !.id = NewId].parent = e.parent /\ e.parent \in 0 .. MaxId
      BY <2>2 DEF Checkpoint
    <3> QED BY <2>2 DEF Copy, Checkpoint
  <2> QED BY <2>1, <2>3
<1>5. List(t, 0)[i].parent = s[i].id /\ Len(List(t, i)) = i
  <2>1. /\ List(t, 0) = [m \in 1 .. n |-> Copy(s[n - n + m])]
        /\ List(t, i) = [m \in 1 .. i |-> Copy(s[n - i + m])]
    BY <1>2, <1>4 DEF List
  <2>2. n - n + i = i
    BY <1>3
  <2> HIDE DEF s
  <2>3. List(t, 0)[i] = Copy(s[i]) /\ Len(List(t, i)) = i
    BY <1>3, <2>1, <2>2
  <2> QED BY <1>3, <1>41, <2>3
<1>7. Last(GetLineage(t, i)).checkpoint = GetTuple(t).checkpoint
  <2> DEFINE g(m) == [Tuple(t, n - i + m) EXCEPT
                        !.parentConfig = IF n - i + m > 1 THEN s[n - i + m - 1].id ELSE @]
  <2>1. GetLineage(t, i) = [m \in 1 .. i |-> g(m)]
    BY <1>2, <1>4 DEF GetLineage
  <2>2. g(i).checkpoint = Tuple(t, n - i + i).checkpoint /\ n - i + i = n
    BY <1>3 DEF Tuple
  <2> HIDE DEF g
  <2>3. Len(GetLineage(t, i)) = i /\ GetLineage(t, i)[i] = g(i)
    BY <1>3, <2>1
  <2> QED BY <1>2, <2>2, <2>3 DEF Last, GetTuple
<1>8. ASSUME j < i, s[j].version = s[i].version
      PROVE  GetTupleByVersion(t, s[i].version).checkpoint.parent # s[i].id
  <2> DEFINE k == IndexOfVersion(t, s[i].version)
  <2>1. k \in DOMAIN s /\ k <= j
    BY <1>1, <1>8, SelectsFirst
  <2>2. k # i
    BY <1>2, <1>3, <1>8, <2>1
  <2>3. s[k].id # s[i].id
    BY <1>1, <2>1, <2>2 DEF HistoryGood
  <2> QED BY <1>2, <1>41, <2>1, <2>3 DEF GetTupleByVersion, Tuple
<1>9. s[i].id = s[j].id => i = j
  BY <1>1 DEF HistoryGood
<1>10. /\ s[j].parent = s[i].id => Follows(s[i], s[j])
       /\ s[j].parent = s[i].id /\ s[j].behind => j = i + 1 /\ s[j].version = s[i].version + 1
  BY <1>1 DEF HistoryGood, StaysBehind
<1> QED BY <1>5, <1>7, <1>8, <1>9, <1>10

-----------------------------------------------------------------------------
(* CheckpointSavers: what the storage of a saver has of what was put.      *)

SaversConstants ==
    /\ Savers \subseteq {"memory", "sqlite", "nats"}
    /\ History \in Nat \ {0} /\ MaxGraphIdle \in Nat /\ MaxPuts \in Nat /\ MaxClock \in Nat
    /\ \A n \in 1 .. MaxPuts : Uuid(n) \notin CallerId

SaverId == CallerId \cup {Uuid(n) : n \in 1 .. MaxPuts}
\* An id that was made is that of its checkpoint.
OwnId(e, p) == e.id \in SaverId /\ e.cp \in 1 .. p /\ \A n \in 1 .. MaxPuts : e.id = Uuid(n) => e.cp = n

KvEntry == [op : {"put", "delete"}, cp : 0 .. MaxPuts, at : Nat]

MemoryEntry == [id : SaverId, cp : 1 .. MaxPuts]
SavedRow == [id : SaverId, thread : SaverThread, cp : 1 .. MaxPuts, at : Nat]
GcState == [pc : {"idle", "key", "delete"}, cutoff : Int, keys : SUBSET SaverThread,
            key : SaverThread \cup {None}, seen : KvEntry \cup {None}]

SaversTypeOK ==
    /\ saver \in {"memory", "sqlite", "nats"}
    /\ versions \in [SaverThread -> Seq(MemoryEntry)]
    /\ rows \in Seq(SavedRow)
    /\ stream \in [SaverThread -> Seq(KvEntry)]
    /\ clock \in Nat /\ put \in 0 .. MaxPuts
    /\ puts \in [SaverThread -> Seq(1 .. MaxPuts)]
    /\ gc \in GcState

MemoryKeeps ==
    \A t \in SaverThread :
        /\ Len(versions[t]) = Len(puts[t])
        /\ \A i \in DOMAIN versions[t] : versions[t][i].cp = puts[t][i] /\ OwnId(versions[t][i], put)

SqliteKeeps ==
    /\ \A i \in DOMAIN rows : OwnId(rows[i], put) /\ rows[i].at <= clock
    /\ \A i, j \in DOMAIN rows : i <= j => rows[i].at <= rows[j].at
    /\ \A i, j \in DOMAIN rows : rows[i].cp = rows[j].cp => i = j
    /\ \A t \in SaverThread :
         IF puts[t] = <<>> THEN RowsOf(t) = {}
         ELSE \E i \in RowsOf(t) : rows[i].cp = Last(puts[t]) /\ \A j \in RowsOf(t) : j <= i

NatsKeeps ==
    /\ \A t \in SaverThread \ lostThreads :
         IF puts[t] = <<>> THEN ~KvHas(t) ELSE KvHas(t) /\ Last(stream[t]).cp = Last(puts[t])
    /\ gc.pc = "delete" => /\ gc.key \in SaverThread /\ gc.seen \in KvEntry
                           /\ gc.seen.at < gc.cutoff

SaversInv ==
    /\ SaversTypeOK
    /\ saver = "memory" => MemoryKeeps
    /\ saver = "sqlite" => SqliteKeeps
    /\ saver = "nats" => NatsKeeps
    /\ gc.pc # "idle" => saver = "nats"

LEMMA SaversInvInit == ASSUME SaversConstants, SaversInit PROVE SaversInv
<1>1. SaversTypeOK
  BY DEF SaversConstants, SaversInit, SaversTypeOK, GcIdle, None, GcState
<1>2. MemoryKeeps
  BY DEF SaversInit, MemoryKeeps
<1>3. SqliteKeeps
  BY DEF SaversInit, SqliteKeeps, RowsOf
<1>4. NatsKeeps
  BY DEF SaversInit, NatsKeeps, KvHas, GcIdle
<1> QED BY <1>1, <1>2, <1>3, <1>4 DEF SaversInv, SaversInit, GcIdle

LEMMA Appended ==
    ASSUME NEW S, NEW s \in Seq(S), NEW e \in S
    PROVE  /\ Append(s, e) \in Seq(S) /\ Len(Append(s, e)) = Len(s) + 1
           /\ DOMAIN s = 1 .. Len(s) /\ DOMAIN Append(s, e) = 1 .. Len(s) + 1
           /\ Append(s, e) # <<>> /\ Len(s) \in Nat
           /\ Append(s, e)[Len(s) + 1] = e /\ Last(Append(s, e)) = e
           /\ \A i \in 1 .. Len(s) : Append(s, e)[i] = s[i]
  BY DEF Last

LEMMA Uuids == ASSUME NEW m, NEW n PROVE Uuid(m) = Uuid(n) <=> m = n
  BY DEF Uuid

\* What KvAppend leaves of a key ends with what was appended.
LEMMA KvAppends ==
    ASSUME SaversConstants, NEW t \in SaverThread, stream[t] \in Seq(KvEntry), NEW e \in KvEntry
    PROVE  /\ KvAppend(t, e) \in Seq(KvEntry)
           /\ KvAppend(t, e) # <<>> /\ Last(KvAppend(t, e)) = e
<1> DEFINE s == Append(stream[t], e)
           n == Len(stream[t]) + 1
           a == IF n > History THEN n - History + 1 ELSE 1
<1>1. s \in Seq(KvEntry) /\ Len(s) = n /\ s[n] = e /\ n \in Nat /\ n >= 1
  BY Appended
<1>2. a \in 1 .. n
  BY <1>1 DEF SaversConstants
<1>3. KvAppend(t, e) = SubSeq(s, a, n)
  BY <1>1 DEF KvAppend
<1> HIDE DEF s, n, a
<1>4. /\ SubSeq(s, a, n) \in Seq(KvEntry) /\ Len(SubSeq(s, a, n)) = n - a + 1
      /\ SubSeq(s, a, n)[n - a + 1] = s[n]
  BY <1>1, <1>2
<1>5. SubSeq(s, a, n) # <<>>
  BY <1>2, <1>1, <1>4
<1> QED BY <1>1, <1>3, <1>4, <1>5 DEF Last

\* A saver's Put.
LEMMA PutKeeps ==
    ASSUME SaversConstants, SaversInv, NEW t \in SaverThread, NEW id \in SaverId,
           \A n \in 1 .. MaxPuts : id = Uuid(n) => n = put + 1, PutWith(t, id)
    PROVE  SaversInv'
<1> USE SaversConstants
<1> DEFINE n == put + 1
<1>1. /\ SaversTypeOK /\ n \in 1 .. MaxPuts /\ put' = n
      /\ UNCHANGED <<saver, gc, clock>> /\ lostThreads' = lostThreads \ {t}
  <2>1. SaversTypeOK
    BY DEF SaversInv
  <2>2. put \in 0 .. MaxPuts /\ put < MaxPuts /\ put' = n
    BY <2>1 DEF SaversTypeOK, PutWith
  <2>3. UNCHANGED <<saver, gc, clock>> /\ lostThreads' = lostThreads \ {t}
    BY DEF PutWith
  <2> QED BY <2>1, <2>2, <2>3 DEF SaversConstants
<1>2. puts' = IF Refused(id) THEN puts ELSE [puts EXCEPT ![t] = Append(@, n)]
  BY <1>1 DEF PutWith
<1>3. puts[t] \in Seq(1 .. MaxPuts)
  BY <1>1 DEF SaversTypeOK
<1>31. Append(puts[t], n) # <<>> /\ Last(Append(puts[t], n)) = n
  <2> DEFINE S == 1 .. MaxPuts
  <2>1. n \in S /\ puts[t] \in Seq(S)
    BY <1>1, <1>3
  <2> HIDE DEF n, S
  <2> QED BY <2>1, Appended
<1>4. puts' \in [SaverThread -> Seq(1 .. MaxPuts)]
  BY <1>1, <1>2, <1>3 DEF SaversTypeOK
<1>5. \A e : OwnId(e, put) => OwnId(e, n)
  BY <1>1 DEF OwnId, SaversTypeOK
<1>6. CASE saver = "memory"
  <2> DEFINE e == [id |-> id, cp |-> n]
  <2>1. /\ versions' = [versions EXCEPT ![t] = Append(@, e)] /\ UNCHANGED <<rows, stream>>
        /\ puts' = [puts EXCEPT ![t] = Append(@, n)]
    BY <1>1, <1>2, <1>6 DEF PutWith, MemoryPut, Refused
  <2>2. e \in MemoryEntry /\ OwnId(e, n) /\ e.cp = n
    BY <1>1 DEF OwnId, MemoryEntry
  <2> HIDE DEF e
  <2>3. versions[t] \in Seq(MemoryEntry)
    BY <1>1 DEF SaversTypeOK
  <2>4. SaversTypeOK'
    BY <1>1, <1>4, <2>1, <2>2, <2>3 DEF SaversTypeOK
  <2>5. ASSUME NEW u \in SaverThread
        PROVE  /\ Len(versions'[u]) = Len(puts'[u])
               /\ \A i \in DOMAIN versions'[u] :
                    versions'[u][i].cp = puts'[u][i] /\ OwnId(versions'[u][i], n)
    <3>0. /\ Len(versions[u]) = Len(puts[u])
          /\ \A i \in DOMAIN versions[u] : versions[u][i].cp = puts[u][i] /\ OwnId(versions[u][i], n)
      BY <1>5, <1>6 DEF SaversInv, MemoryKeeps
    <3>1. CASE u = t
      <4>1. versions'[u] = Append(versions[t], e) /\ puts'[u] = Append(puts[t], n)
        BY <1>1, <2>1, <3>1 DEF SaversTypeOK
      <4>2. /\ Len(versions'[u]) = Len(versions[t]) + 1 /\ versions'[u][Len(versions[t]) + 1] = e
            /\ DOMAIN versions'[u] = 1 .. Len(versions[t]) + 1
            /\ DOMAIN versions[t] = 1 .. Len(versions[t]) /\ Len(versions[t]) \in Nat
            /\ \A i \in 1 .. Len(versions[t]) : versions'[u][i] = versions[t][i]
        BY <2>2, <2>3, <4>1, Appended
      <4>3. /\ Len(puts'[u]) = Len(puts[t]) + 1 /\ puts'[u][Len(puts[t]) + 1] = n
            /\ \A i \in 1 .. Len(puts[t]) : puts'[u][i] = puts[t][i]
        BY <1>1, <1>3, <4>1, Appended
      <4>4. PICK m \in Nat : m = Len(versions[t])
        BY <4>2
      <4>5. m = Len(puts[t]) /\ Len(versions'[u]) = Len(puts'[u])
        BY <3>0, <3>1, <4>2, <4>3, <4>4
      <4>6. \A i \in 1 .. m :
               versions'[u][i].cp = puts'[u][i] /\ OwnId(versions'[u][i], n)
        BY <3>0, <3>1, <4>2, <4>3, <4>4, <4>5
      <4>7. versions'[u][m + 1].cp = puts'[u][m + 1] /\ OwnId(versions'[u][m + 1], n)
        BY <2>2, <4>2, <4>3, <4>4, <4>5
      <4>8. \A i \in 1 .. m + 1 : i \in 1 .. m \/ i = m + 1
        OBVIOUS
      <4> QED BY <4>2, <4>4, <4>5, <4>6, <4>7, <4>8
    <3>2. CASE u # t
      <4>1. versions'[u] = versions[u] /\ puts'[u] = puts[u]
        BY <1>1, <2>1, <3>2 DEF SaversTypeOK
      <4> QED BY <3>0, <4>1
    <3> QED BY <3>1, <3>2
  <2>6. MemoryKeeps'
    BY <1>1, <2>5 DEF MemoryKeeps
  <2> QED BY <1>1, <1>6, <2>4, <2>6 DEF SaversInv
<1>7. CASE saver = "sqlite"
  <2>1. UNCHANGED <<versions, stream>>
    BY <1>7 DEF PutWith, SqlitePut
  <2>2. CASE Taken(id)
    <3>1. UNCHANGED <<rows, puts>>
      BY <1>2, <1>7, <2>2 DEF PutWith, SqlitePut, Refused
    <3>2. SaversTypeOK'
      BY <1>1, <2>1, <3>1 DEF SaversTypeOK
    <3>3. SqliteKeeps'
      <4>1. SqliteKeeps
        BY <1>7 DEF SaversInv
      <4> QED BY <1>1, <1>5, <3>1, <4>1 DEF SqliteKeeps, RowsOf
    <3> QED BY <1>1, <1>7, <3>2, <3>3 DEF SaversInv
  <2>3. CASE ~Taken(id)
    <3> DEFINE e == [id |-> id, thread |-> t, cp |-> n, at |-> clock]
               m == Len(rows)
    <3>1. rows' = Append(rows, e) /\ puts' = [puts EXCEPT ![t] = Append(@, n)]
      BY <1>1, <1>2, <1>7, <2>3 DEF PutWith, SqlitePut, Refused
    <3>2. /\ e \in SavedRow /\ OwnId(e, n) /\ e.cp = n /\ e.at = clock /\ e.thread = t
          /\ clock \in Nat
      BY <1>1 DEF OwnId, SaversTypeOK, SavedRow
    <3> HIDE DEF e
    <3>3. /\ rows' \in Seq(SavedRow)
          /\ DOMAIN rows = 1 .. m /\ DOMAIN rows' = 1 .. m + 1 /\ m \in Nat
          /\ rows'[m + 1] = e /\ \A i \in 1 .. m : rows'[i] = rows[i]
      BY <1>1, <3>1, <3>2, Appended DEF SaversTypeOK
    <3> HIDE DEF m
    <3>4. SaversTypeOK'
      BY <1>1, <1>4, <2>1, <3>3 DEF SaversTypeOK
    <3>5. SqliteKeeps
      BY <1>7 DEF SaversInv
    <3>6. ASSUME NEW i \in 1 .. m
          PROVE  /\ rows[i].cp \in Nat /\ rows[i].cp < n /\ rows[i].at \in Nat
                 /\ OwnId(rows[i], n) /\ rows[i].at <= clock
      <4>1. rows \in Seq(SavedRow) /\ put \in Nat
        BY <1>1 DEF SaversTypeOK
      <4>2. rows[i] \in SavedRow
        BY <3>3, <4>1
      <4>3. OwnId(rows[i], put) /\ rows[i].at <= clock
        BY <3>3, <3>5 DEF SqliteKeeps
      <4> QED BY <1>5, <4>1, <4>2, <4>3 DEF OwnId, SavedRow
    <3>7. \A i \in DOMAIN rows' : OwnId(rows'[i], n) /\ rows'[i].at <= clock'
      BY <1>1, <3>2, <3>3, <3>6
    <3>8. ASSUME NEW i \in DOMAIN rows', NEW j \in DOMAIN rows'
          PROVE  /\ i <= j => rows'[i].at <= rows'[j].at
                 /\ rows'[i].cp = rows'[j].cp => i = j
      <4>1. CASE i \in 1 .. m /\ j \in 1 .. m
        BY <3>3, <3>5, <4>1 DEF SqliteKeeps
      <4>2. CASE i = m + 1 /\ j \in 1 .. m
        BY <3>2, <3>3, <3>6, <4>2
      <4>3. CASE i \in 1 .. m /\ j = m + 1
        BY <3>2, <3>3, <3>5, <3>6, <4>3 DEF SqliteKeeps
      <4>4. CASE i = m + 1 /\ j = m + 1
        BY <1>1, <3>2, <3>3, <4>4 DEF SaversTypeOK
      <4> QED BY <3>3, <4>1, <4>2, <4>3, <4>4
    <3>9. ASSUME NEW u \in SaverThread
          PROVE  IF puts'[u] = <<>> THEN RowsOf(u)' = {}
                 ELSE \E i \in RowsOf(u)' : /\ rows'[i].cp = Last(puts'[u])
                                            /\ \A j \in RowsOf(u)' : j <= i
      <4>1. CASE u = t
        <5>1. puts'[u] # <<>> /\ Last(puts'[u]) = n
          <6>1. puts'[u] = Append(puts[t], n)
            BY <1>1, <3>1, <4>1 DEF SaversTypeOK
          <6> QED BY <1>31, <6>1
        <5>2. m + 1 \in RowsOf(u)' /\ \A j \in RowsOf(u)' : j <= m + 1
          BY <3>2, <3>3, <4>1 DEF RowsOf
        <5> QED BY <3>2, <3>3, <5>1, <5>2
      <4>2. CASE u # t
        <5>1. puts'[u] = puts[u]
          BY <1>1, <3>1, <4>2 DEF SaversTypeOK
        <5>2. RowsOf(u)' = RowsOf(u) /\ RowsOf(u) \subseteq 1 .. m
          BY <3>2, <3>3, <4>2 DEF RowsOf
        <5> QED BY <3>3, <3>5, <5>1, <5>2 DEF SqliteKeeps
      <4> QED BY <4>1, <4>2
    <3>10. SqliteKeeps'
      BY <1>1, <3>7, <3>8, <3>9 DEF SqliteKeeps
    <3> QED BY <1>1, <1>7, <3>4, <3>10 DEF SaversInv
  <2> QED BY <2>2, <2>3
<1>8. CASE saver = "nats"
  <2> DEFINE e == [op |-> "put", cp |-> n, at |-> clock]
  <2>1. /\ stream' = [stream EXCEPT ![t] = KvAppend(t, e)] /\ UNCHANGED <<versions, rows>>
        /\ puts' = [puts EXCEPT ![t] = Append(@, n)]
    BY <1>1, <1>2, <1>8 DEF PutWith, NatsPut, Refused
  <2>2. e \in KvEntry /\ e.op = "put" /\ e.cp = n /\ stream[t] \in Seq(KvEntry)
    <3>1. n \in 0 .. MaxPuts /\ clock \in Nat /\ stream[t] \in Seq(KvEntry)
      BY <1>1 DEF SaversTypeOK
    <3> HIDE DEF n
    <3> QED BY <3>1 DEF KvEntry
  <2> HIDE DEF e
  <2>3. KvAppend(t, e) \in Seq(KvEntry) /\ KvAppend(t, e) # <<>> /\ Last(KvAppend(t, e)) = e
    BY <2>2, KvAppends
  <2>4. SaversTypeOK'
    BY <1>1, <1>4, <2>1, <2>3 DEF SaversTypeOK
  <2>5. NatsKeeps
    BY <1>8 DEF SaversInv
  <2>6. ASSUME NEW u \in SaverThread \ lostThreads'
        PROVE  IF puts'[u] = <<>> THEN ~KvHas(u)'
               ELSE KvHas(u)' /\ Last(stream'[u]).cp = Last(puts'[u])
    <3>1. CASE u = t
      <4>1. puts'[u] # <<>> /\ Last(puts'[u]) = n
        <5>1. puts'[u] = Append(puts[t], n)
          BY <1>1, <2>1, <3>1 DEF SaversTypeOK
        <5> QED BY <1>31, <5>1
      <4>2. stream'[u] # <<>> /\ Last(stream'[u]) = e
        <5>1. stream'[u] = KvAppend(t, e)
          BY <1>1, <2>1, <3>1 DEF SaversTypeOK
        <5> QED BY <2>3, <5>1
      <4> QED BY <2>2, <4>1, <4>2 DEF KvHas
    <3>2. CASE u # t
      <4>1. puts'[u] = puts[u] /\ stream'[u] = stream[u]
        BY <1>1, <2>1, <3>2 DEF SaversTypeOK
      <4> QED BY <1>1, <2>5, <3>2, <4>1 DEF NatsKeeps, KvHas
    <3> QED BY <3>1, <3>2
  <2>7. NatsKeeps'
    BY <1>1, <2>5, <2>6 DEF NatsKeeps
  <2> QED BY <1>1, <1>8, <2>4, <2>7 DEF SaversInv
<1> QED BY <1>1, <1>6, <1>7, <1>8 DEF SaversTypeOK

LEMMA SaversInvNext ==
    ASSUME SaversConstants, SaversInv, SaversNext \/ UNCHANGED saverVars PROVE SaversInv'
<1> USE SaversConstants
<1>1. SaversTypeOK
  BY DEF SaversInv
<1>2. ASSUME NEW t \in SaverThread, SaverPut(t) PROVE SaversInv'
  <2>1. put \in 0 .. MaxPuts /\ put < MaxPuts
    BY <1>1, <1>2 DEF SaversTypeOK, SaverPut, PutWith
  <2>2. put + 1 \in 1 .. MaxPuts
    BY <2>1 DEF SaversConstants
  <2>3. Uuid(put + 1) \in SaverId /\ \A n \in 1 .. MaxPuts : Uuid(put + 1) = Uuid(n) => n = put + 1
    BY <2>2, Uuids DEF SaverId
  <2>4. \A id \in CallerId : id \in SaverId /\ \A n \in 1 .. MaxPuts : id # Uuid(n)
    BY DEF SaversConstants, SaverId
  <2> QED BY <1>2, <2>3, <2>4, PutKeeps DEF SaverPut
<1>3. ASSUME UNCHANGED <<saver, versions, rows, stream, clock, put, puts, lostThreads>>, gc' \in GcState,
             gc'.pc # "idle" => saver = "nats",
             gc'.pc = "delete" => gc'.seen.at < gc'.cutoff /\ gc'.key \in SaverThread /\ gc'.seen \in KvEntry
      PROVE  SaversInv'
  <2>1. SaversTypeOK'
    BY <1>1, <1>3 DEF SaversTypeOK
  <2>2. MemoryKeeps => MemoryKeeps'
    BY <1>3 DEF MemoryKeeps
  <2>3. SqliteKeeps => SqliteKeeps'
    BY <1>3 DEF SqliteKeeps, RowsOf
  <2>4. NatsKeeps => NatsKeeps'
    BY <1>3 DEF NatsKeeps, KvHas
  <2> QED BY <1>3, <2>1, <2>2, <2>3, <2>4 DEF SaversInv
<1>4. gc.pc = "delete" /\ saver = "nats" =>
         gc.seen.at < gc.cutoff /\ gc.key \in SaverThread /\ gc.seen \in KvEntry
  BY DEF SaversInv, NatsKeeps
<1>5. ASSUME CollectStart PROVE SaversInv'
  <2>1. clock - MaxGraphIdle \in Int
    BY <1>1 DEF SaversTypeOK, SaversConstants
  <2>2. gc' \in GcState /\ gc'.pc = "key"
    BY <1>5, <2>1 DEF CollectStart, GcState
  <2> QED BY <1>3, <1>5, <2>2 DEF CollectStart
<1>6. ASSUME NEW t \in SaverThread, CollectRead(t) PROVE SaversInv'
  <2>1. gc \in GcState /\ gc.pc = "key" /\ saver = "nats" /\ stream[t] \in Seq(KvEntry)
        /\ gc.cutoff \in Int /\ gc.keys \subseteq SaverThread
    <3>1. gc \in GcState /\ gc.pc = "key" /\ stream[t] \in Seq(KvEntry)
      BY <1>1, <1>6 DEF SaversTypeOK, CollectRead
    <3>2. saver = "nats"
      BY <3>1 DEF SaversInv
    <3> QED BY <3>1, <3>2 DEF GcState
  <2>2. CASE KvHas(t) /\ Last(stream[t]).at < gc.cutoff
    <3> DEFINE e == Last(stream[t])
               a == [gc EXCEPT !.pc = "delete"]
               b == [a EXCEPT !.key = t]
               d == [b EXCEPT !.keys = @ \ {t}]
               f == [d EXCEPT !.seen = e]
    <3>1. e \in KvEntry
      BY <2>1, <2>2 DEF KvHas, Last
    <3>2. gc' = f
      BY <1>6, <2>2 DEF CollectRead
    <3>3. e.at < gc.cutoff
      BY <2>2
    <3> HIDE DEF e
    <3>4. a \in GcState /\ a.pc = "delete" /\ a.cutoff = gc.cutoff
      BY <2>1 DEF GcState
    <3> HIDE DEF a
    <3>5. b \in GcState /\ b.pc = "delete" /\ b.cutoff = gc.cutoff /\ b.key = t
      BY <3>4 DEF GcState
    <3> HIDE DEF b
    <3>6. d \in GcState /\ d.pc = "delete" /\ d.cutoff = gc.cutoff /\ d.key = t
      BY <3>5 DEF GcState
    <3> HIDE DEF d
    <3>7. f \in GcState /\ f.pc = "delete" /\ f.cutoff = gc.cutoff /\ f.key = t /\ f.seen = e
      BY <3>1, <3>6 DEF GcState
    <3> HIDE DEF f
    <3> QED BY <1>3, <1>6, <2>1, <3>1, <3>2, <3>3, <3>7 DEF CollectRead
  <2>3. CASE ~(KvHas(t) /\ Last(stream[t]).at < gc.cutoff)
    <3>1. gc' = [gc EXCEPT !.keys = @ \ {t}]
      BY <1>6, <2>3 DEF CollectRead
    <3>2. gc' \in GcState /\ gc'.pc = "key"
      BY <2>1, <3>1 DEF GcState
    <3> QED BY <1>3, <1>6, <2>1, <3>2 DEF CollectRead
  <2> QED BY <2>2, <2>3
<1>7. ASSUME CollectEnd PROVE SaversInv'
  <2>1. gc' \in GcState /\ gc'.pc = "idle"
    BY <1>7 DEF CollectEnd, GcIdle, GcState, None
  <2> QED BY <1>3, <1>7, <2>1 DEF CollectEnd
<1>8. ASSUME NatsClose \/ UNCHANGED saverVars PROVE SaversInv'
  <2>1. UNCHANGED <<saver, versions, rows, stream, gc, clock, put, puts, lostThreads>>
    BY <1>8 DEF NatsClose, saverVars
  <2> QED BY <1>1, <1>3, <1>4, <2>1 DEF SaversTypeOK, SaversInv
<1>9. ASSUME ClockTick PROVE SaversInv'
  <2>1. clock \in Nat /\ clock' = clock + 1 /\ clock' \in Nat
    BY <1>1, <1>9 DEF SaversTypeOK, ClockTick
  <2>2. UNCHANGED <<saver, versions, rows, stream, gc, put, puts, lostThreads>>
    BY <1>9 DEF ClockTick
  <2>3. SaversTypeOK'
    BY <1>1, <2>1, <2>2 DEF SaversTypeOK
  <2>4. MemoryKeeps => MemoryKeeps'
    BY <2>2 DEF MemoryKeeps
  <2>5. SqliteKeeps => SqliteKeeps'
    <3>1. ASSUME NEW i \in DOMAIN rows, rows[i].at <= clock PROVE rows[i].at <= clock'
      <4>1. rows \in Seq(SavedRow)
        BY <1>1 DEF SaversTypeOK
      <4>2. rows[i] \in SavedRow
        BY <4>1
      <4> QED BY <2>1, <3>1, <4>2 DEF SavedRow
    <3> QED BY <2>2, <3>1 DEF SqliteKeeps, RowsOf
  <2>6. NatsKeeps => NatsKeeps'
    BY <2>2 DEF NatsKeeps, KvHas
  <2> QED BY <2>2, <2>3, <2>4, <2>5, <2>6 DEF SaversInv
<1>10. ASSUME NEW t \in SaverThread
       PROVE  /\ KvDelete(t) \in Seq(KvEntry) /\ KvDelete(t) # <<>>
              /\ Last(KvDelete(t)).op = "delete"
  <2> DEFINE e == [op |-> "delete", cp |-> None, at |-> clock]
  <2>1. clock \in Nat /\ stream[t] \in Seq(KvEntry) /\ None \in 0 .. MaxPuts
    BY <1>1 DEF SaversTypeOK, None, SaversConstants
  <2>2. e \in KvEntry /\ e.op = "delete"
    BY <2>1 DEF KvEntry
  <2> HIDE DEF e
  <2>3. KvDelete(t) = KvAppend(t, e)
    BY DEF KvDelete, e
  <2> QED BY <2>1, <2>2, <2>3, KvAppends
<1>11. ASSUME CollectDelete PROVE SaversInv'
  <2> DEFINE k == gc.key
  <2>1. gc.pc = "delete" /\ saver = "nats" /\ NatsKeeps
    BY <1>11 DEF CollectDelete, SaversInv
  <2>2. k \in SaverThread /\ gc.seen \in KvEntry /\ gc.seen.at < gc.cutoff
    BY <1>4, <2>1
  <2>3. /\ stream' = [stream EXCEPT ![k] = KvDelete(k)]
        /\ puts' = IF Last(stream[k]) = gc.seen THEN [puts EXCEPT ![k] = <<>>] ELSE puts
        /\ lostThreads' = IF KvHas(k) /\ Last(stream[k]) # gc.seen
                            THEN lostThreads \cup {k} ELSE lostThreads
        /\ UNCHANGED <<saver, versions, rows, clock, put>>
    BY <1>11, <2>2 DEF CollectDelete
  <2>4. gc' \in GcState /\ gc'.pc = "key"
    <3> DEFINE a == [gc EXCEPT !.pc = "key"]
               b == [a EXCEPT !.key = None]
               d == [b EXCEPT !.seen = None]
    <3>1. gc' = d /\ gc \in GcState
      BY <1>1, <1>11 DEF CollectDelete, SaversTypeOK
    <3>2. a \in GcState /\ a.pc = "key"
      BY <3>1 DEF GcState
    <3> HIDE DEF a
    <3>3. b \in GcState /\ b.pc = "key"
      BY <3>2 DEF GcState
    <3> HIDE DEF b
    <3>4. d \in GcState /\ d.pc = "key"
      BY <3>3 DEF GcState
    <3> QED BY <3>1, <3>4
  <2> HIDE DEF k
  <2>5. /\ stream' \in [SaverThread -> Seq(KvEntry)] /\ stream'[k] = KvDelete(k)
        /\ \A t \in SaverThread : t # k => stream'[t] = stream[t]
    BY <1>1, <1>10, <2>2, <2>3 DEF SaversTypeOK
  <2>6. /\ puts' \in [SaverThread -> Seq(1 .. MaxPuts)]
        /\ \A t \in SaverThread : t # k => puts'[t] = puts[t]
        /\ Last(stream[k]) = gc.seen => puts'[k] = <<>>
        /\ Last(stream[k]) # gc.seen => puts'[k] = puts[k]
    <3>1. puts \in [SaverThread -> Seq(1 .. MaxPuts)] /\ <<>> \in Seq(1 .. MaxPuts)
      BY <1>1 DEF SaversTypeOK
    <3> QED BY <2>2, <2>3, <3>1
  <2>7. SaversTypeOK'
    BY <1>1, <2>3, <2>4, <2>5, <2>6 DEF SaversTypeOK
  <2>8. ASSUME NEW t \in SaverThread \ lostThreads'
        PROVE  IF puts'[t] = <<>> THEN ~KvHas(t)'
               ELSE KvHas(t)' /\ Last(stream'[t]).cp = Last(puts'[t])
    <3>1. t \notin lostThreads
      BY <2>3
    <3>2. CASE t # k
      BY <2>1, <2>5, <2>6, <3>1, <3>2 DEF NatsKeeps, KvHas
    <3>3. CASE t = k
      <4>1. ~KvHas(t)'
        BY <1>10, <2>2, <2>5, <3>3 DEF KvHas
      <4>2. puts'[t] = <<>>
        <5>1. CASE Last(stream[k]) = gc.seen
          BY <2>6, <3>3, <5>1
        <5>2. CASE Last(stream[k]) # gc.seen
          <6>1. ~KvHas(k)
            BY <2>3, <3>3, <5>2
          <6>2. puts[k] = <<>>
            BY <2>1, <2>2, <3>1, <3>3, <6>1 DEF NatsKeeps
          <6> QED BY <2>6, <3>3, <5>2, <6>2
        <5> QED BY <5>1, <5>2
      <4> QED BY <4>1, <4>2
    <3> QED BY <3>2, <3>3
  <2>9. NatsKeeps'
    BY <2>4, <2>8 DEF NatsKeeps
  <2> QED BY <2>1, <2>3, <2>7, <2>9 DEF SaversInv
<1>12. ASSUME NEW ts \in SUBSET SaverThread, Purge(ts) PROVE SaversInv'
  <2>1. saver = "nats" /\ NatsKeeps
    BY <1>12 DEF Purge, SaversInv
  <2>2. /\ UNCHANGED <<saver, versions, rows, gc, clock, put>> /\ lostThreads' = lostThreads \ ts
        /\ stream' = [t \in SaverThread |-> IF t \in ts /\ KvHas(t) THEN KvDelete(t) ELSE stream[t]]
        /\ puts' = [t \in SaverThread |-> IF t \in ts THEN <<>> ELSE puts[t]]
    BY <1>12 DEF Purge
  <2>3. /\ stream \in [SaverThread -> Seq(KvEntry)] /\ puts \in [SaverThread -> Seq(1 .. MaxPuts)]
        /\ <<>> \in Seq(1 .. MaxPuts)
    BY <1>1 DEF SaversTypeOK
  <2>4. stream' \in [SaverThread -> Seq(KvEntry)]
    BY <1>10, <2>2, <2>3
  <2>5. puts' \in [SaverThread -> Seq(1 .. MaxPuts)]
    BY <2>2, <2>3
  <2>6. SaversTypeOK'
    BY <1>1, <2>2, <2>4, <2>5 DEF SaversTypeOK
  <2>7. ASSUME NEW t \in SaverThread \ lostThreads'
        PROVE  IF puts'[t] = <<>> THEN ~KvHas(t)'
               ELSE KvHas(t)' /\ Last(stream'[t]).cp = Last(puts'[t])
    <3>1. CASE t \in ts /\ KvHas(t)
      <4>1. puts'[t] = <<>> /\ stream'[t] = KvDelete(t)
        BY <2>2, <3>1
      <4> QED BY <1>10, <4>1 DEF KvHas
    <3>2. CASE t \in ts /\ ~KvHas(t)
      <4>1. puts'[t] = <<>> /\ stream'[t] = stream[t]
        BY <2>2, <3>2
      <4> QED BY <3>2, <4>1 DEF KvHas
    <3>3. CASE t \notin ts
      <4>1. puts'[t] = puts[t] /\ stream'[t] = stream[t] /\ t \notin lostThreads
        BY <2>2, <3>3
      <4> QED BY <2>1, <4>1 DEF NatsKeeps, KvHas
    <3> QED BY <3>1, <3>2, <3>3
  <2>8. NatsKeeps'
    BY <2>1, <2>2, <2>7 DEF NatsKeeps
  <2>9. gc'.pc # "idle" => saver' = "nats"
    BY <2>1, <2>2
  <2> QED BY <2>1, <2>2, <2>6, <2>8, <2>9 DEF SaversInv
<1> QED
  BY <1>2, <1>5, <1>6, <1>7, <1>8, <1>9, <1>11, <1>12 DEF SaversNext

\* A sequence without repetitions begins with what precedes all the rest.
LEMMA HeadIsFirst ==
    ASSUME NEW S, IsFiniteSet(S), NEW s \in SetToSeqs(S), s # <<>>, NEW m,
           \A n \in S \ {m} : \E x, y \in DOMAIN s : x < y /\ s[x] = m /\ s[y] = n
    PROVE  Head(s) = m
<1>1. PICK k \in Nat : k = Cardinality(S)
  BY FS_CardinalityType
<1>2. s \in [1 .. k -> S] /\ \A i, j \in 1 .. k : i # j => s[i] # s[j]
  BY <1>1 DEF SetToSeqs
<1>3. s \in Seq(S) /\ 1 \in 1 .. k
  BY <1>2
<1>4. Head(s) = s[1] /\ s[1] \in S
  BY <1>2, <1>3
<1>5. ASSUME s[1] # m PROVE FALSE
  <2>1. PICK x, y \in 1 .. k : x < y /\ s[y] = s[1]
    BY <1>2, <1>4, <1>5
  <2>2. y = 1
    BY <1>2, <1>3, <2>1
  <2> QED BY <2>1, <2>2
<1> QED BY <1>4, <1>5

LEMMA SaversInvSound == ASSUME SaversConstants, SaversInv PROVE GetIsLastPut
<1> SUFFICES ASSUME NEW t \in SaverThread \ lostThreads, LastAlone(t)
             PROVE  /\ Gets(t) = {LastPut(t)}
                    /\ \A l \in Lists(t) : l # <<>> /\ puts[t] # <<>> => Head(l) = LastPut(t)
                    /\ \A n \in 1 .. put : GetById(t, Uuid(n)) \in {n, None}
  BY DEF GetIsLastPut
<1>1. SaversTypeOK /\ put \in 0 .. MaxPuts
  BY DEF SaversInv, SaversTypeOK
<1>2. \A n \in 1 .. put : n \in 1 .. MaxPuts
  BY <1>1 DEF SaversConstants
<1>3. CASE saver = "memory"
  <2> DEFINE v == versions[t]
             p == puts[t]
  <2>1. MemoryKeeps /\ v \in Seq(MemoryEntry) /\ p \in Seq(1 .. MaxPuts)
    BY <1>1, <1>3 DEF SaversInv, SaversTypeOK
  <2>2. PICK m \in Nat : m = Len(v) /\ m = Len(p) /\ DOMAIN v = 1 .. m /\ DOMAIN p = 1 .. m
    BY <2>1 DEF MemoryKeeps
  <2>3. \A i \in 1 .. m : v[i].cp = p[i] /\ OwnId(v[i], put)
    BY <2>1, <2>2 DEF MemoryKeeps
  <2> HIDE DEF v, p
  <2>4. (v = <<>> <=> m = 0) /\ (p = <<>> <=> m = 0)
    BY <2>1, <2>2
  <2>5. m # 0 => Last(v).cp = Last(p)
    BY <2>2, <2>3 DEF Last
  <2>6. MemoryGet(t) = LastPut(t)
    BY <2>4, <2>5 DEF MemoryGet, LastPut, v, p
  <2>7. p # <<>> => Head(MemoryList(t)) = LastPut(t)
    <3> SUFFICES ASSUME p # <<>> PROVE Head(MemoryList(t)) = LastPut(t)
      OBVIOUS
    <3> DEFINE l == [i \in 1 .. m |-> v[m - i + 1].cp]
    <3>1. MemoryList(t) = l
      BY <2>2 DEF MemoryList, Reverse, v
    <3>2. \A i \in 1 .. m : v[m - i + 1].cp \in 1 .. MaxPuts
      <4>1. \A j \in 1 .. m : v[j].cp \in 1 .. MaxPuts
        <5>1. \A j \in 1 .. m : v[j] \in MemoryEntry
          BY <2>1, <2>2
        <5> QED BY <5>1 DEF MemoryEntry
      <4> QED BY <4>1
    <3>3. l \in Seq(1 .. MaxPuts) /\ 1 \in 1 .. m
      BY <2>4, <3>2
    <3>4. Head(l) = l[1] /\ l[1] = v[m].cp
      BY <3>3
    <3>5. v[m].cp = p[m] /\ LastPut(t) = p[m]
      BY <2>2, <2>3, <3>3 DEF LastPut, Last, p
    <3> HIDE DEF l
    <3> QED BY <3>1, <3>4, <3>5
  <2>8. ASSUME NEW n \in 1 .. put PROVE MemoryGetById(t, Uuid(n)) \in {n, None}
    <3> DEFINE I == {i \in 1 .. Len(v) : v[i].id = Uuid(n)}
               k == SelectInSeq(v, LAMBDA e : e.id = Uuid(n))
    <3>1. MemoryGetById(t, Uuid(n)) = IF k = 0 THEN None ELSE v[k].cp
      BY DEF MemoryGetById, v
    <3>2. k = IF I # {} THEN Min(I) ELSE 0
      BY DEF SelectInSeq
    <3>3. I \subseteq 1 .. m /\ I \in SUBSET Nat
      BY <2>2
    <3> HIDE DEF k
    <3>4. k # 0 => k \in I
      BY <3>2, <3>3, FirstOf
    <3>5. k # 0 => v[k].cp = n
      BY <1>2, <2>3, <3>3, <3>4 DEF OwnId
    <3> QED BY <3>1, <3>5
  <2> QED BY <1>3, <2>6, <2>7, <2>8 DEF Gets, Lists, GetById, p
<1>4. CASE saver = "sqlite"
  <2>1. SqliteKeeps /\ rows \in Seq(SavedRow) /\ \A i, j \in LatestRows(t) : i = j
    BY <1>1, <1>4 DEF SaversInv, SaversTypeOK, LastAlone
  <2>2. ASSUME NEW i \in RowsOf(t)
        PROVE  /\ i \in DOMAIN rows /\ rows[i].at \in Nat /\ rows[i].cp \in 1 .. put
               /\ OwnId(rows[i], put)
    <3>1. i \in DOMAIN rows
      BY DEF RowsOf
    <3>2. rows[i] \in SavedRow /\ OwnId(rows[i], put)
      BY <2>1, <3>1 DEF SqliteKeeps
    <3> QED BY <3>1, <3>2 DEF SavedRow, OwnId
  <2>3. ASSUME puts[t] # <<>>, NEW m \in RowsOf(t), rows[m].cp = Last(puts[t]),
               \A j \in RowsOf(t) : j <= m
        PROVE  /\ LatestRows(t) = {m}
               /\ \A j \in RowsOf(t) : j # m => rows[m].at > rows[j].at
    <3>1. ASSUME NEW j \in RowsOf(t) PROVE rows[j].at <= rows[m].at
      BY <2>1, <2>2, <2>3 DEF SqliteKeeps
    <3>2. m \in LatestRows(t)
      BY <2>3, <3>1 DEF LatestRows
    <3>3. ASSUME NEW j \in RowsOf(t), ~(rows[m].at > rows[j].at) PROVE j = m
      <4>1. rows[j].at = rows[m].at
        BY <2>2, <3>1, <3>3
      <4>2. j \in LatestRows(t)
        BY <3>1, <4>1 DEF LatestRows
      <4> QED BY <2>1, <3>2, <4>2
    <3> QED BY <2>1, <3>2, <3>3
  <2>4. SqliteGets(t) = {LastPut(t)}
    <3>1. CASE puts[t] = <<>>
      <4>1. RowsOf(t) = {}
        BY <2>1, <3>1 DEF SqliteKeeps
      <4> QED BY <3>1, <4>1 DEF SqliteGets, LastPut
    <3>2. CASE puts[t] # <<>>
      <4>1. PICK m \in RowsOf(t) : rows[m].cp = Last(puts[t]) /\ \A j \in RowsOf(t) : j <= m
        BY <2>1, <3>2 DEF SqliteKeeps
      <4>2. LatestRows(t) = {m}
        BY <2>3, <3>2, <4>1
      <4> QED BY <3>2, <4>1, <4>2 DEF SqliteGets, LastPut
    <3> QED BY <3>1, <3>2
  <2>5. ASSUME NEW l \in SqliteLists(t), l # <<>>, puts[t] # <<>> PROVE Head(l) = LastPut(t)
    <3> DEFINE S == {rows[i].cp : i \in RowsOf(t)}
    <3>1. S \subseteq 1 .. put
      BY <2>2
    <3>2. IsFiniteSet(S)
      <4>1. put \in Int
        BY <1>1 DEF SaversConstants
      <4> HIDE DEF S
      <4>2. S \in SUBSET (1 .. put) /\ 1 \in Int
        BY <3>1
      <4> QED BY <4>1, <4>2, FiniteRange
    <3>3. /\ l \in SetToSeqs(S)
          /\ \A i, j \in RowsOf(t) : rows[i].at > rows[j].at =>
               \E x, y \in DOMAIN l : x < y /\ l[x] = rows[i].cp /\ l[y] = rows[j].cp
      BY <2>5 DEF SqliteLists
    <3>4. PICK m \in RowsOf(t) : rows[m].cp = Last(puts[t]) /\ \A j \in RowsOf(t) : j <= m
      BY <2>1, <2>5 DEF SqliteKeeps
    <3>5. \A j \in RowsOf(t) : j # m => rows[m].at > rows[j].at
      BY <2>3, <2>5, <3>4
    <3>6. \A n \in S \ {rows[m].cp} :
             \E x, y \in DOMAIN l : x < y /\ l[x] = rows[m].cp /\ l[y] = n
      BY <3>3, <3>4, <3>5
    <3>7. Head(l) = rows[m].cp
      <4> DEFINE M == rows[m].cp
      <4>1. l \in SetToSeqs(S) /\ l # <<>>
        BY <2>5, <3>3
      <4>2. \A n \in S \ {M} : \E x, y \in DOMAIN l : x < y /\ l[x] = M /\ l[y] = n
        BY <3>6
      <4> HIDE DEF S, M
      <4>3. Head(l) = M
        BY <3>2, <4>1, <4>2, HeadIsFirst
      <4> QED BY <4>3 DEF M
    <3> QED BY <2>5, <3>4, <3>7 DEF LastPut
  <2>6. ASSUME NEW n \in 1 .. put PROVE SqliteGetById(t, Uuid(n)) \in {n, None}
    <3> DEFINE found == {i \in RowsOf(t) : rows[i].id = Uuid(n)}
               k == CHOOSE i \in found : TRUE
    <3>1. SqliteGetById(t, Uuid(n)) = IF found = {} THEN None ELSE rows[k].cp
      BY DEF SqliteGetById
    <3>2. found # {} => k \in found
      OBVIOUS
    <3> HIDE DEF k
    <3>3. \A i \in found : rows[i].cp = n
      BY <1>2, <2>2 DEF OwnId
    <3> QED BY <3>1, <3>2, <3>3
  <2> QED BY <1>4, <2>4, <2>5, <2>6 DEF Gets, Lists, GetById
<1>5. CASE saver = "nats"
  <2>1. NatsKeeps /\ stream[t] \in Seq(KvEntry)
    BY <1>1, <1>5 DEF SaversInv, SaversTypeOK
  <2>2. NatsGet(t) = LastPut(t)
    BY <2>1 DEF NatsKeeps, NatsGet, LastPut
  <2>3. ASSUME NEW l \in NatsLists(t), l # <<>>, puts[t] # <<>> PROVE Head(l) = LastPut(t)
    <3> DEFINE S == {stream[t][i].cp : i \in KvPuts(t)}
    <3>1. S \subseteq 0 .. MaxPuts
      <4>1. \A i \in DOMAIN stream[t] : stream[t][i] \in KvEntry
        BY <2>1
      <4>2. \A e \in KvEntry : e.cp \in 0 .. MaxPuts
        BY DEF KvEntry
      <4> QED BY <4>1, <4>2 DEF KvPuts
    <3>2. IsFiniteSet(S)
      <4>1. MaxPuts \in Int
        BY DEF SaversConstants
      <4> HIDE DEF S
      <4>2. S \in SUBSET (0 .. MaxPuts) /\ 0 \in Int
        BY <3>1
      <4> QED BY <4>1, <4>2, FiniteRange
    <3>3. /\ l \in SetToSeqs(S)
          /\ \A i, j \in KvPuts(t) : i > j =>
               \E x, y \in DOMAIN l : x < y /\ l[x] = stream[t][i].cp /\ l[y] = stream[t][j].cp
      BY <2>3 DEF NatsLists
    <3>4. KvHas(t) /\ Last(stream[t]).cp = Last(puts[t])
      BY <2>1, <2>3 DEF NatsKeeps
    <3>5. PICK m \in Nat : m = Len(stream[t]) /\ DOMAIN stream[t] = 1 .. m
      BY <2>1
    <3>6. m \in KvPuts(t) /\ stream[t][m].cp = Last(puts[t])
      BY <2>1, <3>4, <3>5 DEF KvPuts, KvHas, Last
    <3>7. \A j \in KvPuts(t) : j # m => m > j
      BY <3>5 DEF KvPuts
    <3>8. \A n \in S \ {stream[t][m].cp} :
             \E x, y \in DOMAIN l : x < y /\ l[x] = stream[t][m].cp /\ l[y] = n
      BY <3>3, <3>6, <3>7
    <3>9. Head(l) = stream[t][m].cp
      <4> DEFINE M == stream[t][m].cp
      <4>1. l \in SetToSeqs(S) /\ l # <<>>
        BY <2>3, <3>3
      <4>2. \A n \in S \ {M} : \E x, y \in DOMAIN l : x < y /\ l[x] = M /\ l[y] = n
        BY <3>8
      <4> HIDE DEF S, M
      <4>3. Head(l) = M
        BY <3>2, <4>1, <4>2, HeadIsFirst
      <4> QED BY <4>3 DEF M
    <3> QED BY <2>3, <3>6, <3>9 DEF LastPut
  <2> QED BY <1>5, <2>2, <2>3 DEF Gets, Lists, GetById
<1> QED BY <1>1, <1>3, <1>4, <1>5 DEF SaversTypeOK

-----------------------------------------------------------------------------
(* PostgresSaver: the rows, the blobs and what the readers have read.      *)

PgReads(n) ==
    [pc : {"rest", "blobs", "done"}, row : 0 .. n, blob : SUBSET PgChannel,
     thread : PgThread \cup {Absent}, tuple : BOOLEAN, deleted : BOOLEAN, values : [PgChannel -> 0 .. n]]

\* The rows, the blobs and what the clients have read.
PgTypeOK ==
    /\ \A r \in table : r.thread \in PgThread /\ r.blob \subseteq PgChannel
                        /\ r.blob \cap r.prim = {} /\ r.cp \in 1 .. pgPut
    /\ blobs \in [PgThread -> [PgChannel -> 0 .. pgPut]]
    /\ pgPut \in Nat
    /\ reads \in [PgClient -> PgReads(pgPut)]

\* No row lacks a blob, and the blobs of a row that a client has read are
\* there, as old at least, until they are read or the thread is deleted.
BlobsKept ==
    /\ \A r \in table : \A c \in r.blob : blobs[r.thread][c] >= r.cp
    /\ \A k \in PgClient : reads[k].pc = "blobs" =>
         /\ reads[k].thread \in PgThread /\ reads[k].row >= 1
         /\ \A c \in reads[k].blob :
              /\ reads[k].values[c] = Absent
              /\ \/ blobs[reads[k].thread][c] >= reads[k].row
                 \/ blobs[reads[k].thread][c] = Absent /\ reads[k].deleted
    /\ \A k \in PgClient : reads[k].pc = "done" /\ ~reads[k].tuple => \A c \in reads[k].blob :
         \/ reads[k].values[c] >= reads[k].row
         \/ reads[k].values[c] = Absent /\ reads[k].deleted

PgInv == PgTypeOK /\ BlobsKept

LEMMA PgInvInit == ASSUME PgInit PROVE PgInv
  BY DEF PgInit, PgInv, PgTypeOK, BlobsKept, AtRest, Absent, PgReads

PgConstants == IsFiniteSet(PgClient) /\ PoolSize \in Nat

LEMMA PgInvSound == ASSUME PgConstants, PgInv PROVE ReadsNeverOlder
<1>1. Cardinality({k \in PgClient : reads[k].pc = "blobs"}) <= Cardinality(PgClient)
      /\ Cardinality({k \in PgClient : reads[k].pc = "blobs"}) \in Nat
      /\ Cardinality(PgClient) \in Nat
  <2>1. {k \in PgClient : reads[k].pc = "blobs"} \subseteq PgClient
    OBVIOUS
  <2> QED BY <2>1, FS_Subset, FS_CardinalityType DEF PgConstants
<1>2. Cardinality(PgClient) < PoolSize => Free
  BY <1>1 DEF Free, InUse, PgConstants
<1> QED BY <1>2 DEF PgInv, BlobsKept, ReadsNeverOlder

\* A Put replaces blobs by newer ones.
LEMMA RowIsPut ==
    ASSUME PgInv, NEW t \in PgThread, NEW id \in PgId, NEW chans \in SUBSET PgChannel,
           NEW prim \in SUBSET chans, PutRow(t, id, prim, chans)
    PROVE  PgInv'
<1> DEFINE n == pgPut + 1
<1>1. pgPut \in Nat /\ pgPut' = n /\ n \in Nat /\ n > pgPut
  BY DEF PutRow, PgInv, PgTypeOK, PgReads
<1>2. /\ blobs' \in [PgThread -> [PgChannel -> 0 .. n]]
      /\ \A u \in PgThread, c \in PgChannel :
           blobs'[u][c] = IF u = t /\ c \in chans \ prim THEN n ELSE blobs[u][c]
  <2> blobs \in [PgThread -> [PgChannel -> 0 .. pgPut]]
    BY DEF PgInv, PgTypeOK, PgReads
  <2>1. \A u \in PgThread, c \in PgChannel : blobs[u][c] \in 0 .. n
    BY <1>1
  <2>2. blobs' = [blobs EXCEPT ![t] = [c \in PgChannel |-> IF c \in chans \ prim THEN n ELSE blobs[t][c]]]
    BY DEF PutRow, saveBlobs
  <2> QED BY <1>1, <2>1, <2>2
<1>3. \A r \in table' :
        r \in table \/ (r.thread = t /\ r.cp = n /\ r.blob = chans \ prim /\ r.prim = prim)
  <2>1. \A r \in table' : r \in table \/ \E m : r = [thread |-> t, id |-> id, cp |-> n,
              prim |-> prim, blob |-> chans \ prim, created |-> m]
    BY DEF PutRow, Upsert
  <2> QED
    <3> HIDE DEF n
    <3> QED BY <2>1
<1>4. \A u \in PgThread, c \in PgChannel : blobs[u][c] \in 0 .. pgPut /\ blobs'[u][c] >= blobs[u][c]
                             /\ blobs'[u][c] \in {blobs[u][c], n}
  BY <1>1, <1>2 DEF PgInv, PgTypeOK, PgReads
<1>5. reads' = reads
  BY DEF PutRow
<1>6. PgTypeOK'
  <2>1. \A r \in table' : r.thread \in PgThread /\ r.blob \subseteq PgChannel
                        /\ r.blob \cap r.prim = {} /\ r.cp \in 1 .. n
    BY <1>1, <1>3 DEF PgInv, PgTypeOK, PgReads
  <2>2. reads \in [PgClient ->
         PgReads(n)]
    BY <1>1, 0 .. pgPut \subseteq 0 .. n DEF PgInv, PgTypeOK, PgReads
  <2> QED BY <1>1, <1>2, <1>5, <2>1, <2>2 DEF PgTypeOK, PgReads
<1>7. \A r \in table' : \A c \in r.blob : blobs'[r.thread][c] >= r.cp
  <2> SUFFICES ASSUME NEW r \in table', NEW c \in r.blob PROVE blobs'[r.thread][c] >= r.cp
    OBVIOUS
  <2>1. CASE r \in table
    <3>1. blobs[r.thread][c] >= r.cp /\ r.thread \in PgThread /\ c \in PgChannel /\ r.cp \in 1 .. pgPut
      BY <2>1 DEF PgInv, PgTypeOK, PgReads, BlobsKept
    <3> QED BY <3>1, <1>1, <1>4
  <2>2. CASE r.thread = t /\ r.cp = n /\ r.blob = chans \ prim
    BY <2>2, <1>1, <1>2
  <2> QED BY <1>3, <2>1, <2>2
<1>8. ASSUME NEW k \in PgClient, reads[k].pc = "blobs"
      PROVE  /\ reads[k].thread \in PgThread /\ reads[k].row >= 1
             /\ \A c \in reads[k].blob :
                /\ reads[k].values[c] = Absent
                /\ \/ blobs'[reads[k].thread][c] >= reads[k].row
                   \/ blobs'[reads[k].thread][c] = Absent /\ reads[k].deleted
  <2>1. reads[k].thread \in PgThread /\ reads[k].row \in 1 .. pgPut /\ reads[k].blob \subseteq PgChannel
    BY <1>8 DEF PgInv, PgTypeOK, PgReads, BlobsKept
  <2>2. SUFFICES ASSUME NEW c \in reads[k].blob
        PROVE  /\ reads[k].values[c] = Absent
               /\ \/ blobs'[reads[k].thread][c] >= reads[k].row
                  \/ blobs'[reads[k].thread][c] = Absent /\ reads[k].deleted
    BY <2>1
  <2>3. reads[k].values[c] = Absent
               /\ \/ blobs[reads[k].thread][c] >= reads[k].row
                  \/ blobs[reads[k].thread][c] = Absent /\ reads[k].deleted
    BY <1>8 DEF PgInv, BlobsKept
  <2> QED BY <2>1, <2>3, <1>1, <1>4
<1> QED BY <1>5, <1>6, <1>7, <1>8 DEF PgInv, BlobsKept

\* A client reads a row, and then the blobs.
LEMMA RowIsRead ==
    ASSUME PgInv, NEW k \in PgClient, NEW r \in table, NEW tuple \in BOOLEAN, ReadRow(k, r, tuple)
    PROVE  PgInv'
<1>1. r.thread \in PgThread /\ r.blob \subseteq PgChannel
                        /\ r.blob \cap r.prim = {} /\ r.cp \in 1 .. pgPut /\ pgPut \in Nat
  BY DEF PgInv, PgTypeOK, PgReads
<1> DEFINE new == [pc |-> "blobs", row |-> r.cp, blob |-> r.blob,
                    thread |-> r.thread, tuple |-> tuple, deleted |-> FALSE,
                    values |-> [c \in PgChannel |-> IF c \in r.prim THEN r.cp ELSE Absent]]
<1>2. UNCHANGED <<table, blobs, pgPut>> /\ reads' = [reads EXCEPT ![k] = new]
  BY DEF ReadRow
<1>3. new \in PgReads(pgPut)
  BY <1>1 DEF Absent, PgReads
<1>4. PgTypeOK'
  BY <1>2, <1>3 DEF PgInv, PgTypeOK, PgReads
<1>5. \A j \in PgClient : reads'[j] = IF j = k THEN new ELSE reads[j]
  BY <1>2 DEF PgInv, PgTypeOK, PgReads
<1>6. \A c \in r.blob : new.values[c] = Absent /\ blobs[r.thread][c] >= r.cp
  BY <1>1 DEF PgInv, BlobsKept
<1> QED BY <1>1, <1>2, <1>4, <1>5, <1>6 DEF PgInv, BlobsKept

LEMMA BlobsAreRead ==
    ASSUME PgInv, NEW k \in PgClient, loadBlobs(k) PROVE PgInv'
<1> DEFINE loaded == [c \in PgChannel |-> IF blobs[reads[k].thread][c] # Absent
                                      THEN blobs[reads[k].thread][c]
                                      ELSE reads[k].values[c]]
           shown == IF reads[k].tuple THEN FromMap(loaded) ELSE loaded
           new == [reads[k] EXCEPT !.pc = "done", !.values = shown]
<1>1. reads[k].pc = "blobs" /\ UNCHANGED <<table, blobs, pgPut>> /\ reads' = [reads EXCEPT ![k] = new]
  BY DEF loadBlobs, PgInv, PgTypeOK, PgReads
<1>2. /\ reads[k].thread \in PgThread /\ reads[k].row >= 1
      /\ \A c \in reads[k].blob :
              /\ reads[k].values[c] = Absent
              /\ \/ blobs[reads[k].thread][c] >= reads[k].row
                 \/ blobs[reads[k].thread][c] = Absent /\ reads[k].deleted
  BY <1>1 DEF PgInv, BlobsKept
<1>3. loaded \in [PgChannel -> 0 .. pgPut]
  BY <1>2 DEF PgInv, PgTypeOK, PgReads
<1>4. new \in PgReads(pgPut)
  <2>1. reads[k] \in PgReads(pgPut) /\ pgPut \in Nat
    BY DEF PgInv, PgTypeOK
  <2>2. shown \in [PgChannel -> 0 .. pgPut]
    BY <1>3, <2>1 DEF FromMap, Absent
  <2> HIDE DEF shown
  <2> QED BY <2>1, <2>2 DEF PgReads
<1>5. PgTypeOK' /\ \A j \in PgClient : reads'[j] = IF j = k THEN new ELSE reads[j]
  <2> HIDE DEF new
  <2> QED BY <1>1, <1>4 DEF PgInv, PgTypeOK
<1>6. new.pc = "done" /\ new.blob = reads[k].blob /\ new.row = reads[k].row
      /\ new.deleted = reads[k].deleted /\ (~new.tuple => new.values = loaded)
      /\ reads[k].blob \subseteq PgChannel /\ reads[k].row \in Nat
  BY DEF PgInv, PgTypeOK, PgReads
<1>7. ~new.tuple => \A c \in new.blob :
        new.values[c] >= new.row \/ (new.values[c] = Absent /\ new.deleted)
  BY <1>2, <1>6 DEF Absent
<1> HIDE DEF new
<1> QED BY <1>1, <1>5, <1>6, <1>7 DEF PgInv, BlobsKept

LEMMA ThreadIsDeleted ==
    ASSUME PgInv, NEW t \in PgThread, DeleteThread(t) PROVE PgInv'
<1>1. /\ pgPut' = pgPut /\ table' = table \ RowsOfThread(t)
      /\ blobs' = [blobs EXCEPT ![t] = [c \in PgChannel |-> Absent]]
  BY DEF DeleteThread
<1> DEFINE overtaken(k) == reads[k].pc = "blobs" /\ reads[k].thread = t
<1>2. \A k \in PgClient : /\ reads[k] \in PgReads(pgPut)
                           /\ reads'[k] = IF overtaken(k) THEN [reads[k] EXCEPT !.deleted = TRUE]
                                                         ELSE reads[k]
  BY DEF DeleteThread, PgInv, PgTypeOK
<1> HIDE DEF overtaken
<1>3. PgTypeOK'
  <2>1. blobs' \in [PgThread -> [PgChannel -> 0 .. pgPut]]
    BY <1>1 DEF PgInv, PgTypeOK, PgReads, Absent
  <2>2. \A k \in PgClient : reads'[k] \in PgReads(pgPut)
    BY <1>2 DEF PgReads
  <2>3. reads' \in [PgClient -> PgReads(pgPut)]
    BY <2>2 DEF DeleteThread
  <2> QED BY <1>1, <2>1, <2>3 DEF PgInv, PgTypeOK, PgReads
<1>4. \A u \in PgThread, c \in PgChannel : blobs'[u][c] = IF u = t THEN Absent ELSE blobs[u][c]
  BY <1>1 DEF PgInv, PgTypeOK, PgReads
<1>5. \A r \in table' : r \in table /\ r.thread # t
  BY <1>1 DEF RowsOfThread
<1>6. \A k \in PgClient :
         /\ reads'[k].pc = reads[k].pc /\ reads'[k].thread = reads[k].thread
         /\ reads'[k].row = reads[k].row /\ reads'[k].blob = reads[k].blob
         /\ reads'[k].values = reads[k].values /\ reads'[k].tuple = reads[k].tuple
         /\ reads[k].blob \subseteq PgChannel
         /\ overtaken(k) => reads'[k].deleted
         /\ reads[k].deleted => reads'[k].deleted
  <2> SUFFICES ASSUME NEW k \in PgClient
               PROVE  /\ reads'[k].pc = reads[k].pc /\ reads'[k].thread = reads[k].thread
                      /\ reads'[k].row = reads[k].row /\ reads'[k].blob = reads[k].blob
                      /\ reads'[k].values = reads[k].values /\ reads'[k].tuple = reads[k].tuple
                      /\ reads[k].blob \subseteq PgChannel
                      /\ overtaken(k) => reads'[k].deleted
                      /\ reads[k].deleted => reads'[k].deleted
    OBVIOUS
  <2>1. CASE overtaken(k)
    <3>1. /\ reads[k] \in PgReads(pgPut)
          /\ reads'[k] = [reads[k] EXCEPT !.deleted = TRUE]
      BY <1>2, <2>1
    <3> QED BY <3>1 DEF PgReads
  <2>2. CASE ~overtaken(k)
    <3>1. /\ reads[k] \in PgReads(pgPut) /\ reads'[k] = reads[k]
      BY <1>2, <2>2
    <3> QED BY <3>1, <2>2 DEF PgReads
  <2> QED BY <2>1, <2>2
<1>7. \A r \in table' : \A c \in r.blob : blobs'[r.thread][c] >= r.cp
  BY <1>4, <1>5 DEF PgInv, PgTypeOK, PgReads, BlobsKept
<1>8. ASSUME NEW k \in PgClient, reads[k].pc = "blobs"
      PROVE  /\ reads[k].thread \in PgThread /\ reads[k].row >= 1
             /\ \A c \in reads[k].blob :
                /\ reads[k].values[c] = Absent
                /\ \/ blobs'[reads[k].thread][c] >= reads[k].row
                   \/ blobs'[reads[k].thread][c] = Absent /\ reads'[k].deleted
  <2> SUFFICES ASSUME NEW c \in reads[k].blob
               PROVE  /\ reads[k].values[c] = Absent
                      /\ \/ blobs'[reads[k].thread][c] >= reads[k].row
                         \/ blobs'[reads[k].thread][c] = Absent /\ reads'[k].deleted
    BY <1>8 DEF PgInv, BlobsKept
  <2>1. /\ reads[k].thread \in PgThread /\ c \in PgChannel
        /\ reads[k].values[c] = Absent
        /\ \/ blobs[reads[k].thread][c] >= reads[k].row
           \/ blobs[reads[k].thread][c] = Absent /\ reads[k].deleted
    BY <1>6, <1>8 DEF PgInv, BlobsKept
  <2>2. (reads[k].deleted \/ reads[k].thread = t) => reads'[k].deleted
    BY <1>6, <1>8 DEF overtaken
  <2> QED BY <1>4, <2>1, <2>2
<1>9. \A k \in PgClient : reads[k].pc = "done" /\ ~reads[k].tuple => \A c \in reads[k].blob :
         \/ reads[k].values[c] >= reads[k].row
         \/ reads[k].values[c] = Absent /\ reads'[k].deleted
  BY <1>6 DEF PgInv, BlobsKept
<1> QED BY <1>3, <1>6, <1>7, <1>8, <1>9 DEF PgInv, BlobsKept

LEMMA PgInvNext == ASSUME PgInv, PgNext \/ UNCHANGED pgVars PROVE PgInv'
<1>1. ASSUME NEW t \in PgThread, NEW id \in PgId, NEW chans \in SUBSET PgChannel,
             NEW prim \in SUBSET chans, PutRow(t, id, prim, chans)
      PROVE  PgInv'
  BY <1>1, RowIsPut
<1>2. ASSUME NEW k \in PgClient, NEW t \in PgThread,
             GetLatest(k, t) \/ ListRows(k, t) \/ \E id \in PgId : GetRow(k, t, id)
      PROVE  PgInv'
  <2>1. \E r \in table, tuple \in BOOLEAN : ReadRow(k, r, tuple)
    BY <1>2 DEF GetLatest, ListRows, GetRow, RowsOfThread, RowOf, NewestRows
  <2> QED BY <2>1, RowIsRead
<1>3. ASSUME NEW k \in PgClient, Forget(k) PROVE PgInv'
  <2>1. reads' = [reads EXCEPT ![k] = AtRest] /\ UNCHANGED <<table, blobs, pgPut>>
    BY <1>3 DEF Forget
  <2>2. AtRest \in PgReads(pgPut)
    BY DEF AtRest, Absent, PgInv, PgTypeOK, PgReads
  <2>3. PgTypeOK' /\ \A j \in PgClient : reads'[j] = IF j = k THEN AtRest ELSE reads[j]
    BY <2>1, <2>2 DEF PgInv, PgTypeOK, PgReads
  <2>4. AtRest.pc = "rest"
    BY DEF AtRest
  <2> QED BY <2>1, <2>3, <2>4 DEF PgInv, BlobsKept
<1>4. ASSUME UNCHANGED <<table, blobs, reads, pgPut>> PROVE PgInv'
  BY <1>4 DEF PgInv, PgTypeOK, PgReads, BlobsKept
<1> QED
  BY <1>1, <1>2, <1>3, <1>4, BlobsAreRead, ThreadIsDeleted
    DEF PgNext, pgVars, PutRowWrites

-----------------------------------------------------------------------------
(* MemoryStore: what is hidden, indexed and listed of the values.          *)

StoreConstants == Namespace \subseteq Seq(STRING)

In(d, ns, k) == ns \in DOMAIN d /\ k \in DOMAIN d[ns]

StoreTypeOK ==
    /\ storeTime \in Nat /\ storePuts \in Nat
    /\ \A ns \in DOMAIN data : \A k \in DOMAIN data[ns] :
         ns \in Namespace /\ k \in StoreKey /\ data[ns][k].put \in 0 .. storePuts
    /\ \A p \in DOMAIN ttl : p \in Places /\ ttl[p] \in Int

\* No embedding is newer than its value, or than the last Put.
IndexesBehind ==
    \A ns \in DOMAIN indexes : \A k \in DOMAIN indexes[ns] :
        /\ indexes[ns][k] \in 0 .. storePuts
        /\ HasKey(ns, k) => indexes[ns][k] <= data[ns][k].put

\* A value whose time has passed is gone, or has an expiry that has passed.
ExpiredBehind ==
    \A p \in expired :
        /\ p \in Places
        /\ p[2] \notin ColonKey /\ HasKey(p[1], p[2]) =>
             p \in DOMAIN ttl /\ ttl[p] <= storeTime

StoreInv == StoreTypeOK /\ IndexesBehind /\ ExpiredBehind

LEMMA StoreInvInit == ASSUME StoreInit PROVE StoreInv
  BY DEF StoreInit, StoreInv, StoreTypeOK, IndexesBehind, ExpiredBehind,
         NoEntry, Places

\* What Store, WithEntry and WithoutKeys make of a map of maps.
LEMMA StoreAt ==
    ASSUME NEW d, NEW ns, NEW k, NEW v, NEW m, NEW j
    PROVE  /\ In(Store(d, ns, k, v), m, j) <=> (m = ns /\ j = k) \/ In(d, m, j)
           /\ In(Store(d, ns, k, v), m, j) =>
                Store(d, ns, k, v)[m][j] = IF m = ns /\ j = k THEN v ELSE d[m][j]
<1> DEFINE old == IF ns \in DOMAIN d THEN d[ns] ELSE NoEntry
           new == [z \in DOMAIN old \cup {k} |-> IF z = k THEN v ELSE old[z]]
<1>1. Store(d, ns, k, v) = [z \in DOMAIN d \cup {ns} |-> IF z = ns THEN new ELSE d[z]]
  BY DEF Store, WithEntry
<1>2. DOMAIN new = DOMAIN old \cup {k} /\ (\A z \in DOMAIN new : new[z] = IF z = k THEN v ELSE old[z])
  OBVIOUS
<1>3. \A z : z \in DOMAIN old <=> In(d, ns, z)
  BY DEF In, NoEntry
<1>4. ns \in DOMAIN d => old = d[ns]
  OBVIOUS
<1> HIDE DEF old, new
<1>5. CASE m = ns
  <2>1. ns \in DOMAIN Store(d, ns, k, v) /\ Store(d, ns, k, v)[m] = new
    BY <1>1, <1>5
  <2>2. In(d, ns, j) => old[j] = d[ns][j]
    BY <1>4 DEF In
  <2> QED BY <1>2, <1>3, <1>5, <2>1, <2>2 DEF In
<1>6. CASE m # ns
  <2>1. (m \in DOMAIN Store(d, ns, k, v) <=> m \in DOMAIN d)
        /\ (m \in DOMAIN d => Store(d, ns, k, v)[m] = d[m])
    BY <1>1, <1>6
  <2> QED BY <1>6, <2>1 DEF In
<1> QED BY <1>5, <1>6

\* A value is written: those written to are new, or all others are as before.
LEMMA ValuesWritten ==
    ASSUME StoreInv, NEW W \in SUBSET Places, NEW v, v.put = storePuts + 1,
           \A m, j : In(data', m, j) <=> <<m, j>> \in W \/ In(data, m, j),
           \A m, j : In(data', m, j) =>
              data'[m][j] = IF <<m, j>> \in W THEN v ELSE data[m][j],
           storePuts' = storePuts + 1, storeTime' = storeTime,
           expired' = expired \ W,
           \A p \in DOMAIN ttl' : (p \in Places /\ ttl'[p] \in Int) ,
           \A p : p \notin W => (p \in DOMAIN ttl' <=> p \in DOMAIN ttl),
           \A p \in DOMAIN ttl : p \notin W => ttl'[p] = ttl[p],
           \A m, j : In(indexes', m, j) =>
             \/ In(indexes, m, j) /\ indexes'[m][j] = indexes[m][j]
             \/ indexes'[m][j] = storePuts + 1 /\ <<m, j>> \in W
    PROVE  StoreInv'
<1>1. storePuts \in Nat /\ storeTime \in Nat /\ storePuts' = storePuts + 1
  BY DEF StoreInv, StoreTypeOK
<1>2. \A m, j : In(data, m, j) => m \in Namespace /\ j \in StoreKey /\ data[m][j].put \in 0 .. storePuts
  BY DEF StoreInv, StoreTypeOK, In
<1>3. \A m, j : In(data', m, j) => m \in Namespace /\ j \in StoreKey /\ data'[m][j].put \in 0 .. storePuts'
  <2> SUFFICES ASSUME NEW m, NEW j, In(data', m, j)
               PROVE  m \in Namespace /\ j \in StoreKey /\ data'[m][j].put \in 0 .. storePuts'
    OBVIOUS
  <2>1. CASE <<m, j>> \in W
    BY <1>1, <2>1 DEF Places
  <2>2. CASE <<m, j>> \notin W
    BY <1>1, <1>2, <2>2
  <2> QED BY <2>1, <2>2
<1>4. StoreTypeOK'
  BY <1>1, <1>3 DEF StoreTypeOK, In
<1>5. \A m, j : In(indexes, m, j) =>
        /\ indexes[m][j] \in 0 .. storePuts
        /\ In(data, m, j) => indexes[m][j] <= data[m][j].put
  BY DEF StoreInv, IndexesBehind, In, HasKey
<1>6. \A m, j : In(indexes', m, j) =>
        /\ indexes'[m][j] \in 0 .. storePuts'
        /\ In(data', m, j) => indexes'[m][j] <= data'[m][j].put
  <2> SUFFICES ASSUME NEW m, NEW j, In(indexes', m, j)
               PROVE  /\ indexes'[m][j] \in 0 .. storePuts'
                      /\ In(data', m, j) => indexes'[m][j] <= data'[m][j].put
    OBVIOUS
  <2>1. CASE <<m, j>> \in W
    BY <1>1, <1>5, <2>1
  <2>2. CASE <<m, j>> \notin W
    BY <1>1, <1>5, <2>2
  <2> QED BY <2>1, <2>2
<1>7. IndexesBehind'
  BY <1>6 DEF IndexesBehind, In, HasKey
<1>8. ExpiredBehind'
  <2> SUFFICES ASSUME NEW p \in expired'
               PROVE  /\ p \in Places
                      /\ p[2] \notin ColonKey /\ In(data', p[1], p[2]) =>
                            p \in DOMAIN ttl' /\ ttl'[p] <= storeTime'
    BY DEF ExpiredBehind, HasKey, In
  <2>1. p \in expired /\ p \notin W /\ p \in Places /\ p = <<p[1], p[2]>>
    BY DEF StoreInv, ExpiredBehind, Places
  <2>2. p[2] \notin ColonKey /\ In(data, p[1], p[2]) => p \in DOMAIN ttl /\ ttl[p] <= storeTime
    BY <2>1 DEF StoreInv, ExpiredBehind, HasKey, In
  <2>3. In(data', p[1], p[2]) => In(data, p[1], p[2])
    BY <2>1
  <2> QED BY <2>1, <2>2, <2>3
<1> QED BY <1>4, <1>7, <1>8 DEF StoreInv

\* Values are taken away, or times change: no value is new.
LEMMA ValuesTaken ==
    ASSUME StoreInv,
           \A m, j : In(data', m, j) => In(data, m, j) /\ data'[m][j] = data[m][j],
           UNCHANGED <<storePuts, indexes>>, storeTime' \in Nat,
           \A p \in DOMAIN ttl' : p \in Places /\ ttl'[p] \in Int,
           \A p \in expired' : p \in Places
              /\ (p[2] \notin ColonKey /\ In(data', p[1], p[2]) =>
                    p \in DOMAIN ttl' /\ ttl'[p] <= storeTime')
    PROVE  StoreInv'
<1>1. StoreTypeOK'
  BY DEF StoreInv, StoreTypeOK, In
<1>2. IndexesBehind'
  BY DEF StoreInv, IndexesBehind, In, HasKey
<1>3. ExpiredBehind'
  BY DEF ExpiredBehind, In, HasKey
<1> QED BY <1>1, <1>2, <1>3 DEF StoreInv

LEMMA StoreInvSound == ASSUME StoreConstants, StoreInv PROVE ExpiredStaysHidden
<1>1. ASSUME NEW p \in expired, p[2] \notin ColonKey
      PROVE  Get(p[1], p[2]) = {} /\ p[2] \notin Keys(p[1])
  <2>1. /\ p = <<p[1], p[2]>>
        /\ HasKey(p[1], p[2]) => p \in DOMAIN ttl /\ ttl[p] <= storeTime
    BY <1>1 DEF StoreInv, ExpiredBehind, Places
  <2>2. HasKey(p[1], p[2]) => ttl[p] \in Int /\ storeTime \in Int
    BY <2>1 DEF StoreInv, StoreTypeOK
  <2>3. HasKey(p[1], p[2]) => ~checkTTL(p[1], p[2])
    BY <2>1, <2>2 DEF checkTTL
  <2> QED BY <2>3 DEF Get, Keys
<1>2. ASSUME NEW ns \in Namespace, NEW k \in Keys(ns)
      PROVE  /\ Get(ns, k) # {}
             /\ ns # <<>> => ns \in ListNamespaces(ns, "suffix")
             /\ SearchItems(ns, "$gte", data[ns][k]) =
                   SearchItems(ns, "$gt", data[ns][k])
                     \cup SearchItems(ns, "$eq", data[ns][k])
             /\ k \notin SearchItems(ns, "$ne", data[ns][k])
                         \cup SearchItems(ns, "$lt", data[ns][k])
  <2>1. Get(ns, k) # {}
    BY DEF Get, Keys
  <2>2. /\ ns \in Seq(STRING) /\ SubSeq(ns, 1, Len(ns)) = ns
        /\ ns # <<>> => Len(ns) \in 1 .. Len(ns)
    BY DEF StoreConstants
  <2>3. IsSuffix(ns, ns)
    <3>1. Reverse(ns) \in Seq(STRING)
      BY <2>2 DEF Reverse
    <3> QED BY <3>1 DEF IsSuffix, IsPrefix
  <2>4. ASSUME ns # <<>> PROVE ns \in ListNamespaces(ns, "suffix")
    <3>1. ns \in DOMAIN data
      BY DEF Keys, HasKey
    <3>2. ns \in {SubSeq(ns, 1, i) : i \in 1 .. Len(ns)}
      BY <2>2, <2>4
    <3> QED BY <2>3, <3>1, <3>2 DEF ListNamespaces, matchNamespaceConditions
  <2>5. data[ns][k].put \in Int
    BY DEF StoreInv, StoreTypeOK, Keys, HasKey
  <2>6. SearchItems(ns, "$gte", data[ns][k]) =
                   SearchItems(ns, "$gt", data[ns][k])
                     \cup SearchItems(ns, "$eq", data[ns][k])
    BY DEF SearchItems, compare
  <2>7. k \notin SearchItems(ns, "$ne", data[ns][k])
                         \cup SearchItems(ns, "$lt", data[ns][k])
    BY <2>5 DEF SearchItems, compare, equal, lessThan
  <2> QED BY <2>1, <2>4, <2>6, <2>7
<1>3. ASSUME NEW ns \in Namespace, NEW r \in searchByEmbedding(ns)
      PROVE  r.embedding <= r.value.put
  <2>1. PICK k \in DOMAIN indexes[ns] :
          ns \in DOMAIN indexes /\ HasKey(ns, k)
          /\ r = [value |-> data[ns][k], embedding |-> indexes[ns][k]]
    BY DEF searchByEmbedding
  <2> QED BY <2>1 DEF StoreInv, IndexesBehind
<1> QED BY <1>1, <1>2, <1>3 DEF ExpiredStaysHidden

LEMMA StoreInvNext == ASSUME StoreInv, StoreNext \/ UNCHANGED storeVars PROVE StoreInv'
<1>1. \A p \in DOMAIN ttl : p \in Places /\ ttl[p] \in Int
  BY DEF StoreInv, StoreTypeOK
<1>2. storeTime \in Nat /\ storePuts \in Nat
  BY DEF StoreInv, StoreTypeOK
<1>3. \A p \in expired : /\ p \in Places /\ p = <<p[1], p[2]>>
                         /\ (p[2] \notin ColonKey /\ In(data, p[1], p[2])) =>
                              (p \in DOMAIN ttl /\ ttl[p] <= storeTime)
  BY DEF StoreInv, ExpiredBehind, HasKey, In, Places
<1>4. ASSUME NEW ns \in Namespace, NEW k \in StoreKey, NEW ty \in FieldType, PutValue(ns, k, ty)
      PROVE  StoreInv'
  <2> DEFINE W == {<<ns, k>>}
             v == Value(ty)
  <2>1. W \in SUBSET Places /\ v.put = storePuts + 1
    BY DEF Places, Value
  <2>2. data' = Store(data, ns, k, v) /\ UNCHANGED <<ttl, indexes, storeTime>>
        /\ storePuts' = storePuts + 1 /\ expired' = expired \ W
    BY <1>4 DEF PutValue
  <2>3. \A m, j : /\ In(data', m, j) <=> (<<m, j>> \in W \/ In(data, m, j))
                  /\ In(data', m, j) => data'[m][j] = IF <<m, j>> \in W THEN v ELSE data[m][j]
    BY <2>2, StoreAt
  <2> HIDE DEF W, v
  <2> QED BY <1>1, <2>1, <2>2, <2>3, ValuesWritten DEF In
<1>5. ASSUME NEW ns \in Namespace, NEW k \in StoreKey, NEW ty \in FieldType, NEW indexed \in BOOLEAN,
             PutItem(ns, k, ty, 1, indexed)
      PROVE  StoreInv'
  <2> DEFINE W == {<<ns, k>>}
             v == Value(ty)
  <2>1. W \in SUBSET Places /\ v.put = storePuts + 1
    BY DEF Places, Value
  <2>2. data' = Store(data, ns, k, v) /\ storeTime' = storeTime
        /\ storePuts' = storePuts + 1 /\ expired' = expired \ W
        /\ ttl' = WithEntry(ttl, <<ns, k>>, storeTime + 1)
        /\ indexes' = IF indexed THEN Store(indexes, ns, k, storePuts + 1) ELSE indexes
    BY <1>5 DEF PutItem
  <2>3. \A m, j : /\ In(data', m, j) <=> (<<m, j>> \in W \/ In(data, m, j))
                  /\ In(data', m, j) => data'[m][j] = IF <<m, j>> \in W THEN v ELSE data[m][j]
    BY <2>2, StoreAt
  <2>4. \A m, j : In(indexes', m, j) =>
             \/ In(indexes, m, j) /\ indexes'[m][j] = indexes[m][j]
             \/ indexes'[m][j] = storePuts + 1 /\ <<m, j>> \in W
    BY <2>2, StoreAt
  <2>5. /\ \A p : p \in DOMAIN ttl' <=> (p \in DOMAIN ttl \/ p \in W)
        /\ \A p \in DOMAIN ttl' : ttl'[p] = IF p \in W THEN storeTime + 1 ELSE ttl[p]
    BY <2>2 DEF WithEntry
  <2> HIDE DEF W, v
  <2>6. \A p \in DOMAIN ttl' : (p \in Places /\ ttl'[p] \in Int)
    BY <1>1, <1>2, <2>1, <2>5
  <2> QED BY <2>1, <2>2, <2>3, <2>4, <2>5, <2>6, ValuesWritten
<1>6. ASSUME NEW ns \in Namespace, NEW ty \in FieldType, NEW ks \in SUBSET StoreKey,
             BatchPut(ns, ks, ty), ks # {}
      PROVE  StoreInv'
  <2> DEFINE W == {<<ns, k>> : k \in ks}
             v == Value(ty)
             old == IF ns \in DOMAIN data THEN data[ns] ELSE NoEntry
             new == [k \in DOMAIN old \cup ks |-> IF k \in ks THEN v ELSE old[k]]
  <2>1. W \in SUBSET Places /\ v.put = storePuts + 1
    BY DEF Places, Value
  <2>2. data' = WithEntry(data, ns, new) /\ UNCHANGED <<ttl, indexes, storeTime>>
        /\ storePuts' = storePuts + 1 /\ expired' = expired \ W
    BY <1>6 DEF BatchPut
  <2>3. /\ \A m, j : <<m, j>> \in W <=> (m = ns /\ j \in ks)
        /\ \A j : j \in DOMAIN old <=> In(data, ns, j)
        /\ ns \in DOMAIN data => old = data[ns]
    BY DEF In, NoEntry
  <2>4. DOMAIN new = DOMAIN old \cup ks /\ \A j \in DOMAIN new : new[j] = IF j \in ks THEN v ELSE old[j]
    OBVIOUS
  <2> HIDE DEF W, v, old, new
  <2>5. ns \in DOMAIN data' /\ data'[ns] = new
        /\ \A m : m # ns => (m \in DOMAIN data' <=> m \in DOMAIN data)
                           /\ (m \in DOMAIN data => data'[m] = data[m])
    BY <2>2 DEF WithEntry
  <2>6. \A m, j : /\ In(data', m, j) <=> (<<m, j>> \in W \/ In(data, m, j))
                  /\ In(data', m, j) => data'[m][j] = IF <<m, j>> \in W THEN v ELSE data[m][j]
    BY <2>3, <2>4, <2>5 DEF In
  <2> QED BY <1>1, <2>1, <2>2, <2>6, ValuesWritten DEF In
<1>7. ASSUME NEW ns \in Namespace, NEW k \in StoreKey, SetTTL(ns, k, 1) PROVE StoreInv'
  <2>1. UNCHANGED <<data, indexes, storeTime, storePuts>> /\ expired' = expired \ {<<ns, k>>}
        /\ ttl' = WithEntry(ttl, <<ns, k>>, storeTime + 1)
    BY <1>7 DEF SetTTL
  <2>2. /\ \A p : p \in DOMAIN ttl' <=> (p \in DOMAIN ttl \/ p = <<ns, k>>)
        /\ \A p \in DOMAIN ttl' : ttl'[p] = IF p = <<ns, k>> THEN storeTime + 1 ELSE ttl[p]
    BY <2>1 DEF WithEntry
  <2>3. \A p \in DOMAIN ttl' : p \in Places /\ ttl'[p] \in Int
    BY <1>1, <1>2, <2>2 DEF Places
  <2>4. \A p \in expired' : p \in Places
              /\ (p[2] \notin ColonKey /\ In(data', p[1], p[2]) =>
                    p \in DOMAIN ttl' /\ ttl'[p] <= storeTime')
    BY <1>3, <2>1, <2>2 DEF In
  <2> QED BY <1>2, <2>1, <2>3, <2>4, ValuesTaken
<1>8. ASSUME NEW ns \in Namespace, NEW k \in StoreKey, DeleteKey(ns, k) PROVE StoreInv'
  <2>1. UNCHANGED <<indexes, storeTime, storePuts>> /\ expired' = expired \ {<<ns, k>>}
        /\ data' = [data EXCEPT ![ns] = WithoutKeys(data[ns], {k})]
        /\ ttl' = WithoutKeys(ttl, {<<ns, k>>})
    BY <1>8 DEF DeleteKey
  <2>2. /\ \A p : p \in DOMAIN ttl' <=> (p \in DOMAIN ttl /\ p # <<ns, k>>)
        /\ \A p \in DOMAIN ttl' : ttl'[p] = ttl[p]
    BY <2>1 DEF WithoutKeys
  <2>3. \A m, j : In(data', m, j) => In(data, m, j) /\ data'[m][j] = data[m][j]
    BY <2>1 DEF WithoutKeys, In
  <2>4. \A p \in expired' : p \in Places
              /\ (p[2] \notin ColonKey /\ In(data', p[1], p[2]) =>
                    p \in DOMAIN ttl' /\ ttl'[p] <= storeTime')
    BY <1>3, <2>1, <2>2, <2>3
  <2> QED BY <1>1, <1>2, <2>1, <2>2, <2>3, <2>4, ValuesTaken
<1>9. ASSUME ClearStore PROVE StoreInv'
  <2>1. UNCHANGED <<indexes, storeTime, storePuts>> /\ expired' = {}
        /\ DOMAIN data' = {} /\ DOMAIN ttl' = {}
    BY <1>9 DEF ClearStore, NoEntry
  <2> QED BY <1>2, <2>1, ValuesTaken DEF In
<1>10. ASSUME cleanupExpired PROVE StoreInv'
  <2> DEFINE gone == {p \in Overdue : p[2] \notin ColonKey}
             left == [ns \in DOMAIN data |->
                       WithoutKeys(data[ns], {k \in StoreKey : <<ns, k>> \in gone})]
             empty == {ns \in DOMAIN left : DOMAIN left[ns] = {} /\ \E p \in gone : p[1] = ns}
  <2>1. UNCHANGED <<indexes, storeTime, storePuts, expired>>
        /\ data' = WithoutKeys(left, empty) /\ ttl' = WithoutKeys(ttl, Overdue)
    BY <1>10 DEF cleanupExpired
  <2>2. /\ \A p : p \in DOMAIN ttl' <=> (p \in DOMAIN ttl /\ ~(storeTime > ttl[p]))
        /\ \A p \in DOMAIN ttl' : ttl'[p] = ttl[p]
    BY <2>1 DEF WithoutKeys, Overdue
  <2>3. \A m, j : In(data', m, j) =>
          /\ In(data, m, j) /\ data'[m][j] = data[m][j]
          /\ <<m, j>> \notin gone \/ j \notin StoreKey
    <3> HIDE DEF gone, empty
    <3>1. DOMAIN data' = DOMAIN data \ empty /\ \A m \in DOMAIN data' : data'[m] = left[m]
      BY <2>1 DEF WithoutKeys
    <3>2. \A m \in DOMAIN data : DOMAIN left[m] = DOMAIN data[m] \ {k \in StoreKey : <<m, k>> \in gone}
                                /\ \A j \in DOMAIN left[m] : left[m][j] = data[m][j]
      BY DEF WithoutKeys
    <3> HIDE DEF left
    <3> QED BY <3>1, <3>2 DEF In
  <2>4. \A p \in expired' : p \in Places
              /\ (p[2] \notin ColonKey /\ In(data', p[1], p[2]) =>
                    p \in DOMAIN ttl' /\ ttl'[p] <= storeTime')
    <3> SUFFICES ASSUME NEW p \in expired, p[2] \notin ColonKey, In(data', p[1], p[2])
                 PROVE  p \in DOMAIN ttl' /\ ttl'[p] <= storeTime
      BY <1>3, <2>1
    <3>1. p \in DOMAIN ttl /\ ttl[p] <= storeTime /\ p = <<p[1], p[2]>> /\ p[2] \in StoreKey
      BY <1>3, <2>3 DEF Places
    <3>2. p \notin gone
      BY <2>3, <3>1
    <3>3. ~(storeTime > ttl[p])
      BY <3>1, <3>2 DEF Overdue
    <3> QED BY <2>2, <3>1, <3>3
  <2> HIDE DEF gone
  <2> QED BY <1>1, <1>2, <2>1, <2>2, <2>3, <2>4, ValuesTaken
<1>11. ASSUME StoreTick PROVE StoreInv'
  <2>1. UNCHANGED <<data, ttl, indexes, storePuts>> /\ storeTime' = storeTime + 1
        /\ \A p \in expired' : p \in expired \/ (p \in DOMAIN ttl /\ storeTime' >= ttl[p])
    BY <1>11 DEF StoreTick
  <2>2. storeTime' \in Nat /\ storeTime' >= storeTime
    BY <1>2, <2>1
  <2>3. \A p \in expired' : p \in Places
              /\ (p[2] \notin ColonKey /\ In(data', p[1], p[2]) =>
                    p \in DOMAIN ttl' /\ ttl'[p] <= storeTime')
    BY <1>1, <1>2, <1>3, <2>1, <2>2 DEF In
  <2> QED BY <1>1, <2>1, <2>2, <2>3, ValuesTaken DEF In
<1>12. ASSUME UNCHANGED <<data, ttl, indexes, storeTime, storePuts, expired>> PROVE StoreInv'
  BY <1>12 DEF StoreInv, StoreTypeOK, IndexesBehind, ExpiredBehind, HasKey
<1>13. ASSUME NEW ns \in Namespace, NEW ty \in FieldType,
              \E ks \in (SUBSET StoreKey) \ {{}} : BatchPut(ns, ks, ty)
       PROVE  StoreInv'
  BY <1>6, <1>13
<1>14. BatchListNamespaces \/ CloseStore \/ UNCHANGED storeVars => StoreInv'
  BY <1>12 DEF storeVars, BatchListNamespaces, CloseStore
<1> QED
  BY <1>4, <1>5, <1>7, <1>8, <1>9, <1>10, <1>11, <1>13, <1>14 DEF StoreNext

-----------------------------------------------------------------------------
(* NodeRetry: the count of the calls follows that of the attempts.  An     *)
(* executor for several policies is between two RetryExecutors, its count  *)
(* at what the last one had left, or one runs.                             *)

RetryConstants ==
    /\ Attempts \subseteq Nat
    /\ InitialInterval \in Nat /\ MaxInterval \in Nat /\ Wide \in Nat
    /\ MaxPower \in Nat \ {0} /\ \A a \in Attempts : a + 3 <= MaxPower
    /\ powFloat \in [0 .. MaxPower -> Nat]
    /\ \A n \in 1 .. MaxPower : powFloat[n - 1] <= powFloat[n]

RetryTypeOK ==
    /\ executor \in {"single", "multi", "task"}
    /\ policies \in Seq(Policy) /\ Len(policies) <= 2
    /\ executor # "multi" => Len(policies) = 1 /\ inner = 0
    /\ retryPc \in {"call", "wait", "done"}
    /\ inner \in Nat /\ attempt \in Nat /\ calls \in Nat /\ backoff \in Int
    /\ policy \in [MaxAttempts : Nat, on : Predicate, Jitter : BOOLEAN]
    /\ retryCtx \in BOOLEAN /\ fatal \in BOOLEAN
    /\ result \in [kind : {"none", "value", "error", "nonretryable", "exhausted", "cancelled",
                           "recovered", "panic"}, attempts : Nat]
    /\ last \in [word : Word \cup {"none", "value", "panic"}, at : {"start", "inside", "none"}]

\* One policy.
OneInv ==
    executor # "multi" =>
      /\ calls <= Allowed(1) /\ ~fatal
      /\ retryPc # "done" =>
           /\ calls = attempt /\ attempt < Allowed(1)
           /\ last \in Errors => RetryOn(policies[1].on, last)
      /\ result.kind = "exhausted" => result.attempts = calls

\* Between two RetryExecutors the count is a and there were c calls: at first,
\* after one of them, or after two, the second for the larger limit.
Between(a, c) ==
    \/ a = 0 /\ c = 0
    \/ \E i \in 1 .. Len(policies) : a = Allowed(i) /\ a >= 2 /\ c <= a + 1
    \/ \E i, j \in 1 .. Len(policies) :
         Allowed(i) < Allowed(j) /\ a = Allowed(j) /\ a >= 2 /\ c <= a + 2

InnerInv ==
    /\ inner <= policy.MaxAttempts
    /\ retryPc = "wait" => inner < policy.MaxAttempts
    /\ attempt > 0
    /\ \E i \in 1 .. Len(policies) :
         attempt < Allowed(i) /\ policy.MaxAttempts = Allowed(i) - attempt + 1
    /\ Between(attempt - 1, calls - inner - IF retryPc = "wait" THEN 1 ELSE 0)

Bounded(c) ==
    /\ Len(policies) = 0 => c <= 1
    /\ Len(policies) = 1 => c <= IF Allowed(1) <= 1 THEN 1 ELSE Allowed(1) + 2
    /\ Len(policies) = 2 => c <= Larger(1, Larger(Allowed(1), Allowed(2)) + 3)

ManyInv ==
    executor = "multi" =>
      /\ Bounded(calls)
      /\ retryPc # "done" /\ inner = 0 => retryPc = "call" /\ Between(attempt, calls)
      /\ retryPc # "done" /\ inner > 0 => InnerInv

\* A wait is close to the interval of its attempt.
WaitInv ==
    retryPc = "wait" /\ InitialInterval * powFloat[Awaited - 1] < Wide =>
      backoff <= Capped(Awaited) /\ Capped(Awaited) <= 2 * backoff

RetryInv ==
    /\ RetryTypeOK /\ OneInv /\ ManyInv /\ WaitInv
    /\ retryPc # "done" => result.kind = "none"
    /\ result.kind = "value" => last.word = "value"
    /\ backoff <= MaxInterval

\* An invariant: what is allowed is a number.
LEMMA AllowedIsNat ==
    ASSUME RetryConstants, RetryTypeOK, NEW i \in 1 .. Len(policies)
    PROVE  Allowed(i) \in Nat /\ policies[i] \in Policy
<1>1. policies[i] \in Policy
  BY DEF RetryTypeOK
<1>0. Attempts \subseteq Nat
  BY DEF RetryConstants
<1>2. policies[i].MaxAttempts \in Nat
  BY <1>0, <1>1 DEF Policy
<1> QED BY <1>1, <1>2 DEF Allowed
LEMMA AtMostTwo ==
    ASSUME RetryConstants, RetryTypeOK PROVE Len(policies) \in 0 .. 2
<1> DEFINE n == Len(policies)
<1>1. n \in Nat /\ n <= 2
  BY DEF RetryTypeOK
<1> HIDE DEF n
<1>2. n \in 0 .. 2
  BY <1>1
<1> QED BY <1>2 DEF n

\* One more call after those that Between counts, and one for a RetryExecutor
\* that ran meanwhile.
LEMMA OneMoreIsBounded ==
    ASSUME RetryConstants, RetryTypeOK, NEW a \in Nat, NEW c \in Nat, Between(a, c)
    PROVE  Bounded(c + 1)
<1>1. \A i \in 1 .. Len(policies) : Allowed(i) \in Nat
  BY AllowedIsNat
<1>2. Len(policies) \in 0 .. 2
  BY AtMostTwo
<1>3. CASE Len(policies) = 0
  BY <1>3 DEF Between, Bounded
<1>4. CASE Len(policies) = 1
  BY <1>1, <1>4 DEF Between, Bounded
<1>5. CASE Len(policies) = 2
  BY <1>1, <1>5 DEF Between, Bounded, Larger
<1> QED BY <1>2, <1>3, <1>4, <1>5

\* What a RetryExecutor that is over leaves behind.
LEMMA InnerEnds ==
    ASSUME RetryConstants, RetryTypeOK, executor = "multi", InnerInv, inner > 0,
           NEW c \in Nat,
           c <= IF retryPc = "wait" THEN calls ELSE calls + 1
    PROVE  /\ Between(attempt + policy.MaxAttempts - 1, c)
           /\ attempt + policy.MaxAttempts - 1 \in Nat
           /\ Bounded(c)
<1>1. \A i \in 1 .. Len(policies) : Allowed(i) \in Nat
  BY AllowedIsNat
<1>2. PICK i \in 1 .. Len(policies) :
        attempt < Allowed(i) /\ policy.MaxAttempts = Allowed(i) - attempt + 1
  BY DEF InnerInv
<1>3. /\ attempt \in Nat /\ attempt > 0 /\ inner \in Nat /\ calls \in Nat
      /\ policy.MaxAttempts \in Nat
  BY DEF RetryTypeOK, InnerInv
<1>4. attempt + policy.MaxAttempts - 1 = Allowed(i) /\ Allowed(i) >= 2
  BY <1>1, <1>2, <1>3
<1> DEFINE used == calls - inner - IF retryPc = "wait" THEN 1 ELSE 0
<1>5. used \in Int /\ c <= used + Allowed(i) - attempt + 2
  <2>1. CASE retryPc = "wait"
    <3>1. inner < policy.MaxAttempts /\ c <= calls
      BY <2>1 DEF InnerInv
    <3> QED BY <1>1, <1>2, <1>3, <2>1, <3>1
  <2>2. CASE retryPc # "wait"
    <3>1. inner <= policy.MaxAttempts /\ c <= calls + 1
      BY <2>2 DEF InnerInv
    <3> QED BY <1>1, <1>2, <1>3, <2>2, <3>1
  <2> QED BY <2>1, <2>2
<1>6. Between(attempt - 1, used)
  BY DEF InnerInv
<1> HIDE DEF used
<1>7. Between(Allowed(i), c)
  <2>1. CASE attempt = 1 /\ used = 0
    BY <1>1, <1>3, <1>4, <1>5, <2>1 DEF Between
  <2>2. ASSUME NEW j \in 1 .. Len(policies), attempt - 1 = Allowed(j), attempt - 1 >= 2,
               used <= attempt - 1 + 1
        PROVE  Between(Allowed(i), c)
    <3>1. Allowed(j) < Allowed(i) /\ c <= Allowed(i) + 2
      BY <1>1, <1>2, <1>3, <1>5, <2>2
    <3> QED BY <1>4, <3>1 DEF Between
  <2>3. ASSUME NEW k \in 1 .. Len(policies), NEW j \in 1 .. Len(policies),
               Allowed(k) < Allowed(j), attempt - 1 = Allowed(j)
        PROVE  FALSE
    <3>1. Allowed(j) < Allowed(i)
      BY <1>1, <1>2, <1>3, <2>3
    <3>2. k # j /\ i # j /\ k # i
      BY <1>1, <2>3, <3>1
    <3>3. Len(policies) \in 0 .. 2
      BY AtMostTwo
    <3> DEFINE n == Len(policies)
    <3>4. i \in 1 .. n /\ j \in 1 .. n /\ k \in 1 .. n /\ n \in 0 .. 2
      BY <3>3
    <3> HIDE DEF n
    <3> QED BY <3>2, <3>4
  <2>4. attempt - 1 = 0 <=> attempt = 1
    BY <1>3
  <2> QED BY <1>6, <2>1, <2>2, <2>3, <2>4 DEF Between
<1>8. Bounded(c)
  <2>1. Len(policies) \in 0 .. 2
    BY AtMostTwo
  <2>2. CASE Len(policies) = 1
    BY <1>1, <1>2, <1>4, <1>7, <2>2 DEF Between, Bounded
  <2>3. CASE Len(policies) = 2
    BY <1>1, <1>4, <1>7, <2>3 DEF Between, Bounded, Larger
  <2>4. Len(policies) # 0
    BY <1>2
  <2> QED BY <2>1, <2>2, <2>3, <2>4
<1> QED BY <1>1, <1>4, <1>7, <1>8

\* The interval: at most MaxInterval, and an attempt later not less.
LEMMA IntervalIsCapped ==
    ASSUME RetryConstants, NEW n \in 1 .. MaxPower
    PROVE  /\ Capped(n) \in Int /\ Capped(n) <= MaxInterval
           /\ InitialInterval * powFloat[n - 1] < Wide => Capped(n) >= 0
<1>1. powFloat[n - 1] \in Nat
  BY DEF RetryConstants
<1> DEFINE p == powFloat[n - 1]
<1>2. InitialInterval * p \in Nat
  BY <1>1 DEF RetryConstants
<1> DEFINE raw == InitialInterval * p
<1> HIDE DEF raw
<1>3. raw \in Nat
  BY <1>2 DEF raw
<1>4. MaxInterval \in Nat /\ Wide \in Nat
  BY DEF RetryConstants
<1>5. Capped(n) =
        LET duration == IF raw >= Wide THEN -Wide ELSE raw
        IN  IF duration > MaxInterval THEN MaxInterval ELSE duration
  BY DEF Capped, raw
<1>6. InitialInterval * powFloat[n - 1] = raw
  BY DEF raw
<1> QED BY <1>3, <1>4, <1>5, <1>6

\* A wait: at most MaxInterval, and close to the interval.
LEMMA WaitIsClose ==
    ASSUME RetryConstants, NEW n \in 1 .. MaxPower, NEW p, NEW b \in CalculateBackoff(p, n)
    PROVE  /\ b \in Int /\ b <= MaxInterval
           /\ InitialInterval * powFloat[n - 1] < Wide => b <= Capped(n) /\ Capped(n) <= 2 * b
<1> DEFINE d == Capped(n)
           Fits == InitialInterval * powFloat[n - 1] < Wide
<1>1. d \in Int /\ d <= MaxInterval /\ MaxInterval \in Nat /\ (Fits => d >= 0)
  BY IntervalIsCapped DEF RetryConstants
<1>2. b \in IF ~p.Jitter THEN {d}
            ELSE IF d >= 0 THEN Shortened(d)
            ELSE IF executor = "task" THEN {-w : w \in Shortened(-d)}
            ELSE {0}
  BY DEF CalculateBackoff
<1> SUFFICES b \in Int /\ b <= MaxInterval /\ (Fits => b <= d /\ d <= 2 * b)
  OBVIOUS
<1> HIDE DEF d, Fits
<1>3. ASSUME NEW e \in Nat, NEW w \in Shortened(e)
      PROVE  w \in Nat /\ w <= e /\ e <= 2 * w
  <2>1. PICK k \in 0 .. e : (k = 0 \/ 2 * k < e) /\ w = e - k
    BY <1>3 DEF Shortened
  <2> QED BY <2>1
<1>4. CASE b = d
  BY <1>1, <1>4
<1>5. CASE d >= 0 /\ b \in Shortened(d)
  BY <1>1, <1>3, <1>5
<1>6. CASE d < 0 /\ b \in {-w : w \in Shortened(-d)}
  <2>1. PICK w \in Shortened(-d) : b = -w
    BY <1>6
  <2>2. -d \in Nat
    BY <1>1, <1>6
  <2> QED BY <1>1, <1>3, <1>6, <2>1, <2>2
<1>7. CASE d < 0 /\ b = 0
  BY <1>1, <1>7
<1> QED BY <1>1, <1>2, <1>4, <1>5, <1>6, <1>7

LEMMA TimesIsMonotone ==
    ASSUME RetryConstants, NEW a \in Nat, NEW b \in Nat, NEW c \in Nat, b <= c
    PROVE  a * b <= a * c /\ a * b \in Nat /\ a * c \in Nat
  OBVIOUS

LEMMA IntervalGrows ==
    ASSUME RetryConstants, NEW n \in 1 .. MaxPower,
           InitialInterval * powFloat[n] < Wide
    PROVE  Capped(n) <= Capped(n + 1)
<1>1. powFloat[n - 1] \in Nat /\ powFloat[n] \in Nat /\ powFloat[n - 1] <= powFloat[n]
  BY DEF RetryConstants
<1>2. MaxInterval \in Nat /\ Wide \in Nat /\ InitialInterval \in Nat
  BY DEF RetryConstants
<1> DEFINE raw == InitialInterval * powFloat[n - 1]
           next == InitialInterval * powFloat[n]
<1>3. raw <= next /\ raw \in Nat /\ next \in Nat
  BY <1>1, <1>2, TimesIsMonotone
<1>4. (n + 1) - 1 = n
  OBVIOUS
<1>5. /\ Capped(n) =
           LET duration == IF raw >= Wide THEN -Wide ELSE raw
           IN  IF duration > MaxInterval THEN MaxInterval ELSE duration
      /\ Capped(n + 1) =
           LET duration == IF next >= Wide THEN -Wide ELSE next
           IN  IF duration > MaxInterval THEN MaxInterval ELSE duration
  BY <1>4 DEF Capped
<1>6. next < Wide
  OBVIOUS
<1> HIDE DEF raw, next
<1> QED BY <1>2, <1>3, <1>5, <1>6

LEMMA RetryInvInit ==
    ASSUME RetryConstants, RetryInit PROVE RetryInv
<1>1. Attempts \subseteq Nat /\ MaxInterval \in Nat
  BY DEF RetryConstants
<1>2. policies \in Seq(Policy) /\ Len(policies) <= 2 /\ (executor # "multi" => Len(policies) = 1)
  <2>1. ASSUME NEW p \in Policy, policies = <<p>>
        PROVE  policies \in Seq(Policy) /\ Len(policies) = 1
    BY <2>1
  <2>2. ASSUME NEW p \in Policy, NEW q \in Policy, policies = <<p, q>>
        PROVE  policies \in Seq(Policy) /\ Len(policies) = 2
    BY <2>2
  <2>3. ASSUME policies = <<>> PROVE policies \in Seq(Policy) /\ Len(policies) = 0
    BY <2>3
  <2>4. \/ \E p \in Policy : policies = <<p>>
        \/ executor = "multi" /\ \E p, q \in Policy : policies = <<p, q>>
        \/ executor = "multi" /\ policies = <<>>
    BY DEF RetryInit
  <2>5. CASE \E p \in Policy : policies = <<p>>
    <3>1. policies \in Seq(Policy) /\ Len(policies) = 1
      BY <2>1, <2>5, Zenon
    <3> QED BY <3>1
  <2>6. CASE executor = "multi" /\ \E p, q \in Policy : policies = <<p, q>>
    <3>1. policies \in Seq(Policy) /\ Len(policies) = 2
      BY <2>2, <2>6, Zenon
    <3> QED BY <2>6, <3>1
  <2>7. CASE executor = "multi" /\ policies = <<>>
    BY <2>3, <2>7
  <2> QED BY <2>4, <2>5, <2>6, <2>7
<1>3. executor # "multi" => policies[1] \in Policy
  BY <1>2
<1>4. executor # "multi" => Allowed(1) \in Nat
  BY <1>1, <1>3 DEF Policy, Allowed
<1>5. RetryTypeOK
  <2>1. /\ executor \in {"single", "multi", "task"} /\ inner = 0
        /\ inner \in Nat /\ attempt \in Nat /\ calls \in Nat /\ backoff \in Int
    BY DEF RetryInit
  <2>5. retryCtx \in BOOLEAN /\ fatal \in BOOLEAN
    BY Zenon DEF RetryInit
  <2>2. policy \in [MaxAttempts : Nat, on : Predicate, Jitter : BOOLEAN]
    BY DEF RetryInit, NoPolicy, Predicate
  <2>3. last \in [word : Word \cup {"none", "value", "panic"}, at : {"start", "inside", "none"}]
    BY DEF RetryInit, NotError
  <2>4. /\ retryPc \in {"call", "wait", "done"}
        /\ result \in [kind : {"none", "value", "error", "nonretryable", "exhausted",
                               "cancelled", "recovered", "panic"}, attempts : Nat]
    BY DEF RetryInit
  <2> QED BY <1>2, <2>1, <2>2, <2>3, <2>4, <2>5, Zenon DEF RetryTypeOK
<1>6. OneInv
  BY <1>4 DEF RetryInit, OneInv, Allowed, Errors, NotError
<1>7. ManyInv
  <2> SUFFICES ASSUME executor = "multi" PROVE ManyInv
    BY DEF ManyInv
  <2>1. Between(0, 0) /\ calls = 0 /\ inner = 0 /\ attempt = 0 /\ retryPc = "call"
    BY DEF RetryInit, Between
  <2>2. \A i \in 1 .. Len(policies) : Allowed(i) \in Nat
    BY <1>5, AllowedIsNat
  <2>3. Bounded(0)
    <3>1. CASE Len(policies) = 1
      BY <2>2, <3>1 DEF Bounded
    <3>2. CASE Len(policies) = 2
      <4>1. Allowed(1) \in Nat /\ Allowed(2) \in Nat
        BY <2>2, <3>2
      <4> QED BY <3>2, <4>1 DEF Bounded, Larger
    <3>3. CASE Len(policies) \notin {1, 2}
      BY <3>3 DEF Bounded
    <3> QED BY <3>1, <3>2, <3>3
  <2> QED BY <2>1, <2>3 DEF ManyInv
<1> QED BY <1>1, <1>5, <1>6, <1>7 DEF RetryInit, RetryInv, NotError, WaitInv

\* What stays when the policies do.
LEMMA CountsStay ==
    ASSUME policies' = policies
    PROVE  /\ \A i \in 1 .. Len(policies) : Allowed(i)' = Allowed(i)
           /\ Between(attempt, calls)' <=> Between(attempt', calls')
           /\ Bounded(calls)' <=> Bounded(calls')
  BY DEF Allowed, Between, Bounded

LEMMA CalledTypes ==
    ASSUME RetryConstants, RetryTypeOK, NEW res, Called(res),
           res \in Errors \cup {NotError("value"), NotError("panic")}
    PROVE  /\ calls' = calls + 1 /\ calls' \in Nat /\ fatal' \in BOOLEAN /\ last' = res
           /\ last' \in [word : Word \cup {"none", "value", "panic"},
                         at : {"start", "inside", "none"}]
  BY DEF RetryTypeOK, Called, Errors, NotError

\* One more call, after which the executor goes on, or nothing more happens.
LEMMA OneGoesOn ==
    ASSUME RetryConstants, RetryInv, executor # "multi", retryPc = "call", NEW res, Called(res),
           UNCHANGED <<executor, policies>>
    PROVE  /\ 1 \in 1 .. Len(policies) /\ Allowed(1) \in Nat /\ Allowed(1)' = Allowed(1)
           /\ ~fatal' /\ calls' = attempt + 1 /\ calls' <= Allowed(1)
<1>1. Len(policies) = 1
  BY DEF RetryInv, RetryTypeOK
<1>2. Allowed(1) \in Nat
  BY <1>1, AllowedIsNat DEF RetryInv
<1>3. Allowed(1)' = Allowed(1)
  BY DEF Allowed
<1>4. calls = attempt /\ attempt < Allowed(1) /\ ~fatal
      /\ (last \in Errors => RetryOn(policies[1].on, last))
  BY DEF RetryInv, OneInv
<1>5. attempt \in Nat
  BY DEF RetryInv, RetryTypeOK
<1>6. ~fatal'
  BY <1>4, Zenon DEF Called
<1>7. calls' = attempt + 1 /\ calls' <= Allowed(1)
  BY <1>2, <1>4, <1>5 DEF Called
<1> QED BY <1>1, <1>2, <1>3, <1>6, <1>7

LEMMA RetrySuccess ==
    ASSUME RetryConstants, RetryInv, Success PROVE RetryInv'
<1> DEFINE res == NotError("value")
<1>1. /\ calls' = calls + 1 /\ calls' \in Nat /\ fatal' \in BOOLEAN /\ last' = res
      /\ last' \in [word : Word \cup {"none", "value", "panic"},
                         at : {"start", "inside", "none"}]
  BY CalledTypes DEF Success, RetryInv
<1>2. attempt \in Nat /\ calls \in Nat
  BY DEF RetryInv, RetryTypeOK
<1>3. RetryTypeOK'
  BY <1>1, <1>2 DEF Success, RetryInv, RetryTypeOK, End
<1>4. OneInv'
  <2> SUFFICES ASSUME executor # "multi" PROVE OneInv'
    BY DEF OneInv, Success
  <2>1. ~fatal' /\ calls' <= Allowed(1)' /\ retryPc' = "done" /\ result'.kind = "value"
    BY OneGoesOn DEF Success, End
  <2> QED BY <2>1 DEF OneInv
<1>5. ManyInv'
  <2> SUFFICES ASSUME executor = "multi" PROVE ManyInv'
    BY DEF ManyInv, Success
  <2>1. Bounded(calls + 1)
    <3>1. CASE inner = 0
      BY <1>2, <3>1, OneMoreIsBounded DEF RetryInv, ManyInv, Success
    <3>2. CASE inner # 0
      <4>1. inner > 0 /\ InnerInv
        BY <3>2 DEF RetryInv, ManyInv, RetryTypeOK, Success
      <4>2. calls + 1 \in Nat /\ retryPc # "wait"
        BY <1>2 DEF Success
      <4> QED BY <4>1, <4>2, InnerEnds DEF RetryInv
    <3> QED BY <3>1, <3>2
  <2>2. Bounded(calls)' /\ retryPc' = "done"
    BY <1>1, <2>1, CountsStay DEF Success, End
  <2> QED BY <2>2 DEF ManyInv
<1> QED BY <1>1, <1>3, <1>4, <1>5 DEF RetryInv, Success, End, NotError, WaitInv

LEMMA RetryFailed ==
    ASSUME RetryConstants, RetryInv, NEW err \in Errors, executor # "multi", Failed(err) PROVE RetryInv'
<1>0. /\ 1 \in 1 .. Len(policies) /\ Allowed(1) \in Nat /\ Allowed(1)' = Allowed(1)
      /\ ~fatal' /\ calls' = attempt + 1 /\ calls' <= Allowed(1)
  BY OneGoesOn DEF Failed
<1>1. /\ calls' = calls + 1 /\ calls' \in Nat /\ fatal' \in BOOLEAN /\ last' = err
      /\ last' \in [word : Word \cup {"none", "value", "panic"},
                         at : {"start", "inside", "none"}]
  BY CalledTypes DEF Failed, RetryInv
<1>2. attempt \in Nat /\ attempt' = attempt + 1 /\ attempt' \in 1 .. Allowed(1)
  BY <1>0 DEF RetryInv, RetryTypeOK, Failed
<1>3. Allowed(1) = policies[1].MaxAttempts
  BY DEF Allowed
<1>4. Allowed(1) <= MaxPower
  <2>1. policies[1].MaxAttempts \in Attempts
    BY <1>0, AllowedIsNat DEF RetryInv, Policy
  <2>2. \A a \in Attempts : a + 3 <= MaxPower
    BY DEF RetryConstants
  <2>3. MaxPower \in Nat
    BY DEF RetryConstants
  <2> QED BY <1>0, <1>3, <2>1, <2>2, <2>3
<1>5. MaxPower \in Nat /\ attempt' \in 1 .. MaxPower
  BY <1>0, <1>2, <1>4 DEF RetryConstants
<1>6. backoff' \in Int /\ backoff' <= MaxInterval
  <2>1. CASE UNCHANGED backoff
    BY <2>1 DEF RetryInv, RetryTypeOK
  <2>2. CASE backoff' \in CalculateBackoff(policies[1], attempt')
    BY <1>5, <2>2, WaitIsClose
  <2> QED BY <2>1, <2>2 DEF Failed
<1>61. WaitInv'
  <2> SUFFICES ASSUME retryPc' = "wait" PROVE WaitInv'
    BY DEF WaitInv
  <2>1. backoff' \in CalculateBackoff(policies[1], attempt')
    BY DEF Failed, End
  <2>2. InitialInterval * powFloat[attempt' - 1] < Wide =>
          backoff' <= Capped(attempt') /\ Capped(attempt') <= 2 * backoff'
    BY <1>5, <2>1, WaitIsClose
  <2>3. Awaited' = attempt'
    BY DEF Failed, Awaited, RetryInv, RetryTypeOK
  <2> QED BY <2>2, <2>3 DEF WaitInv, Capped
<1>7. RetryTypeOK'
  BY <1>0, <1>1, <1>2, <1>3, <1>6 DEF Failed, RetryInv, RetryTypeOK, End
<1>8. OneInv'
  <2>1. CASE ~RetryOn(policies[1].on, err)
    BY <1>0, <2>1 DEF Failed, End, OneInv
  <2>2. CASE RetryOn(policies[1].on, err) /\ attempt' >= Allowed(1)
    <3>1. result'.attempts = Allowed(1) /\ retryPc' = "done" /\ calls' = Allowed(1)
      BY <1>0, <1>2, <1>3, <2>2 DEF Failed, End
    <3> QED BY <1>0, <3>1 DEF OneInv
  <2>3. CASE RetryOn(policies[1].on, err) /\ ~(attempt' >= Allowed(1))
    <3>1. retryPc' = "wait" /\ result' = result /\ policies' = policies /\ executor' = executor
      BY <1>3, <2>3 DEF Failed
    <3>2. result.kind = "none"
      BY DEF RetryInv, Failed
    <3>3. RetryOn(policies[1].on, last)'
      BY <1>1, <2>3, <3>1 DEF RetryOn, contains
    <3> QED BY <1>0, <1>2, <2>3, <3>1, <3>2, <3>3 DEF OneInv
  <2> QED BY <2>1, <2>2, <2>3
<1>9. ManyInv'
  BY DEF ManyInv, Failed
<1>10. /\ retryPc' # "done" => result'.kind = "none"
       /\ result'.kind = "value" => last'.word = "value"
  BY DEF Failed, End, RetryInv
<1> QED BY <1>6, <1>61, <1>7, <1>8, <1>9, <1>10 DEF RetryInv

LEMMA RetryOuterFails ==
    ASSUME RetryConstants, RetryInv, NEW err \in Errors, OuterFails(err) PROVE RetryInv'
<1> DEFINE i == findMatchingPolicy(err)
<1>0. UNCHANGED <<executor, policies, retryCtx, backoff>> /\ retryPc = "call" /\ inner = 0
      /\ executor = "multi"
  BY DEF OuterFails
<1>1. /\ calls' = calls + 1 /\ calls' \in Nat /\ fatal' \in BOOLEAN /\ last' = err
      /\ last' \in [word : Word \cup {"none", "value", "panic"},
                         at : {"start", "inside", "none"}]
  BY CalledTypes DEF OuterFails, RetryInv
<1>2. attempt \in Nat /\ calls \in Nat /\ Between(attempt, calls)
  BY <1>0 DEF RetryInv, RetryTypeOK, ManyInv
<1>3. Bounded(calls')
  BY <1>1, <1>2, OneMoreIsBounded DEF RetryInv
<1>4. CASE retryPc' = "done"
  <2>1. /\ result' \in [kind : {"none", "value", "error", "nonretryable", "exhausted",
                               "cancelled", "recovered", "panic"}, attempts : Nat]
        /\ inner' = inner /\ policy' = policy /\ attempt' \in Nat /\ result'.kind # "value"
    BY <1>0, <1>2, <1>4 DEF OuterFails, End
  <2>2. RetryTypeOK'
    BY <1>0, <1>1, <1>4, <2>1 DEF RetryInv, RetryTypeOK
  <2>3. Bounded(calls)'
    BY <1>0, <1>3, CountsStay
  <2> QED BY <1>0, <1>4, <2>1, <2>2, <2>3 DEF RetryInv, OneInv, ManyInv, WaitInv
<1>5. CASE retryPc' # "done"
  <2>1. /\ i # 0 /\ attempt' = attempt + 1 /\ ~(attempt' >= policies[i].MaxAttempts)
        /\ inner' = 1 /\ UNCHANGED <<retryPc, result>>
        /\ policy' = [policies[i] EXCEPT !.MaxAttempts = @ - attempt' + 1]
    BY <1>5 DEF OuterFails, End
  <2>2. i \in 1 .. Len(policies)
    <3> DEFINE S == {k \in 1 .. Len(policies) : RetryOn(policies[k].on, err)}
    <3>1. S # {} /\ i = CHOOSE k \in S : \A j \in S : k <= j
      BY <2>1 DEF findMatchingPolicy
    <3>2. S \in SUBSET (1 .. Len(policies)) /\ Len(policies) \in 0 .. 2
      BY AtMostTwo DEF RetryInv
    <3> DEFINE n == Len(policies)
    <3>3. \E k \in S : \A j \in S : k <= j
      <4> HIDE DEF S, n
      <4>0. S \in SUBSET (1 .. n) /\ n \in 0 .. 2
        BY <3>2 DEF n
      <4>1. S \subseteq {1, 2} /\ S # {}
        BY <3>1, <4>0
      <4>2. CASE 1 \in S
        BY <4>1, <4>2
      <4>3. CASE 1 \notin S
        <5>1. S = {2}
          BY <4>1, <4>3
        <5> QED BY <5>1
      <4> QED BY <4>2, <4>3
    <3>4. (CHOOSE k \in S : \A j \in S : k <= j) \in S
      <4> HIDE DEF S
      <4> QED BY <3>3
    <3> QED BY <3>1, <3>4
  <2> HIDE DEF i
  <2>3. policies[i] \in Policy /\ Allowed(i) = policies[i].MaxAttempts /\ Allowed(i) \in Nat
    BY <2>2, AllowedIsNat DEF Allowed, RetryInv
  <2>4. attempt' < Allowed(i) /\ attempt' \in Nat
    BY <1>2, <2>1, <2>3
  <2>5. /\ policy'.MaxAttempts = Allowed(i) - attempt' + 1
        /\ policy' \in [MaxAttempts : Nat, on : Predicate, Jitter : BOOLEAN]
    BY <2>1, <2>3, <2>4 DEF Policy
  <2>6. RetryTypeOK'
    BY <1>0, <1>1, <2>1, <2>4, <2>5 DEF RetryInv, RetryTypeOK
  <2>7. InnerInv'
    <3>1. Between(attempt' - 1, calls' - inner' - 0)
      <4>1. attempt' - 1 = attempt /\ calls' - inner' - 0 = calls
        BY <1>1, <1>2, <2>1
      <4> QED BY <1>2, <4>1
    <3>2. Between(attempt - 1, calls - inner - IF retryPc = "wait" THEN 1 ELSE 0)'
      <4>1. (IF retryPc = "wait" THEN 1 ELSE 0)' = 0
        BY <1>0, <2>1
      <4> QED BY <1>0, <3>1, <4>1 DEF Between, Allowed
    <3>3. \E k \in 1 .. Len(policies') :
            attempt' < Allowed(k)' /\ policy'.MaxAttempts = Allowed(k)' - attempt' + 1
      BY <1>0, <2>2, <2>4, <2>5 DEF Allowed
    <3>4. inner' <= policy'.MaxAttempts /\ attempt' > 0 /\ retryPc' # "wait"
      BY <1>0, <1>2, <2>1, <2>3, <2>4, <2>5
    <3> QED BY <3>2, <3>3, <3>4 DEF InnerInv
  <2>8. ManyInv'
    <3>1. Bounded(calls)'
      BY <1>0, <1>3, CountsStay
    <3>2. inner' > 0 /\ inner' # 0
      BY <2>1
    <3> QED BY <2>7, <3>1, <3>2 DEF ManyInv
  <2> QED BY <1>0, <2>1, <2>6, <2>8 DEF RetryInv, OneInv, WaitInv
<1> QED BY <1>4, <1>5

\* The RetryExecutor is over and the executor's loop goes on.
LEMMA RetryGoesOn ==
    ASSUME RetryConstants, RetryInv, executor = "multi", inner > 0, retryPc # "done", InnerOver,
           UNCHANGED <<executor, policies, retryCtx, backoff>>,
           calls' \in Nat, fatal' \in BOOLEAN,
           last' \in [word : Word \cup {"none", "value", "panic"},
                      at : {"start", "inside", "none"}],
           calls' <= IF retryPc = "wait" THEN calls ELSE calls + 1
    PROVE  RetryInv'
<1>1. InnerInv
  BY DEF RetryInv, ManyInv
<1>2. Between(attempt', calls') /\ attempt' \in Nat /\ Bounded(calls')
  BY <1>1, InnerEnds DEF RetryInv, InnerOver
<1>3. /\ inner' = 0 /\ policy' = NoPolicy /\ retryPc' = "call" /\ result' = result
      /\ result.kind = "none"
  BY DEF InnerOver, RetryInv
<1>4. policy' \in [MaxAttempts : Nat, on : Predicate, Jitter : BOOLEAN]
  BY <1>3 DEF NoPolicy, Predicate
<1>5. RetryTypeOK'
  BY <1>2, <1>3, <1>4 DEF RetryInv, RetryTypeOK
<1>6. ManyInv'
  BY <1>2, <1>3, CountsStay DEF ManyInv
<1> QED BY <1>3, <1>5, <1>6 DEF RetryInv, OneInv, WaitInv

LEMMA RetryInnerFails ==
    ASSUME RetryConstants, RetryInv, NEW err \in Errors, InnerFails(err) PROVE RetryInv'
<1>0. UNCHANGED <<executor, policies, retryCtx>> /\ retryPc = "call" /\ inner > 0
      /\ executor = "multi"
  BY DEF InnerFails
<1>1. /\ calls' = calls + 1 /\ calls' \in Nat /\ fatal' \in BOOLEAN /\ last' = err
      /\ last' \in [word : Word \cup {"none", "value", "panic"},
                         at : {"start", "inside", "none"}]
  BY CalledTypes DEF InnerFails, RetryInv
<1>2. attempt \in Nat /\ calls \in Nat /\ inner \in Nat /\ policy.MaxAttempts \in Nat /\ InnerInv
  BY <1>0 DEF RetryInv, RetryTypeOK, ManyInv
<1>3. CASE ~(RetryOn(policy.on, err) /\ inner < policy.MaxAttempts)
  <2>1. InnerOver /\ UNCHANGED backoff
    BY <1>3 DEF InnerFails
  <2>2. calls' <= IF retryPc = "wait" THEN calls ELSE calls + 1
    BY <1>0, <1>1, <1>2
  <2>3. retryPc # "done"
    BY <1>0
  <2> QED BY <1>0, <1>1, <2>1, <2>2, <2>3, RetryGoesOn
<1>4. CASE RetryOn(policy.on, err) /\ inner < policy.MaxAttempts
  <2>1. /\ retryPc' = "wait" /\ backoff' \in CalculateBackoff(policy, inner)
        /\ UNCHANGED <<result, attempt, inner, policy>>
    BY <1>4 DEF InnerFails
  <2>2. inner \in 1 .. MaxPower
    <3>1. PICK i \in 1 .. Len(policies) :
            attempt < Allowed(i) /\ policy.MaxAttempts = Allowed(i) - attempt + 1
      BY <1>2 DEF InnerInv
    <3>2. Allowed(i) \in Nat /\ Allowed(i) \in Attempts
      BY AllowedIsNat DEF RetryInv, Allowed, Policy
    <3>3. Allowed(i) + 3 <= MaxPower /\ MaxPower \in Nat
      BY <3>2 DEF RetryConstants
    <3>4. attempt > 0
      BY <1>2 DEF InnerInv
    <3> QED BY <1>0, <1>2, <1>4, <3>1, <3>2, <3>3, <3>4
  <2>3. backoff' \in Int /\ backoff' <= MaxInterval
    BY <2>1, <2>2, WaitIsClose
  <2>31. WaitInv'
    <3>1. InitialInterval * powFloat[inner - 1] < Wide =>
            backoff' <= Capped(inner) /\ Capped(inner) <= 2 * backoff'
      BY <2>1, <2>2, WaitIsClose
    <3>2. Awaited' = inner /\ inner' = inner
      BY <1>0, <2>1 DEF Awaited
    <3> QED BY <3>1, <3>2 DEF WaitInv, Capped
  <2>4. RetryTypeOK'
    BY <1>0, <1>1, <2>1, <2>3 DEF RetryInv, RetryTypeOK
  <2>5. Bounded(calls')
    <3>1. calls + 1 \in Nat /\ calls + 1 <= IF retryPc = "wait" THEN calls ELSE calls + 1
      BY <1>0, <1>2
    <3> QED BY <1>0, <1>1, <1>2, <3>1, InnerEnds DEF RetryInv
  <2>6. InnerInv'
    <3>1. Between(attempt - 1, calls - inner - 0)
      <4>1. (IF retryPc = "wait" THEN 1 ELSE 0) = 0
        BY <1>0
      <4> QED BY <1>2, <4>1 DEF InnerInv
    <3>2. calls' - inner' - 1 = calls - inner - 0 /\ attempt' - 1 = attempt - 1
      BY <1>1, <1>2, <2>1
    <3>3. (IF retryPc = "wait" THEN 1 ELSE 0)' = 1
      BY <2>1
    <3>4. Between(attempt - 1, calls - inner - IF retryPc = "wait" THEN 1 ELSE 0)'
      BY <1>0, <3>1, <3>2, <3>3 DEF Between, Allowed
    <3>5. \E k \in 1 .. Len(policies') :
            attempt' < Allowed(k)' /\ policy'.MaxAttempts = Allowed(k)' - attempt' + 1
      BY <1>0, <1>2, <2>1 DEF Allowed, InnerInv
    <3>6. inner' <= policy'.MaxAttempts /\ attempt' > 0 /\ inner' < policy'.MaxAttempts
      BY <1>2, <1>4, <2>1 DEF InnerInv
    <3> QED BY <3>4, <3>5, <3>6 DEF InnerInv
  <2>7. ManyInv'
    <3>1. Bounded(calls)'
      BY <1>0, <2>5, CountsStay
    <3>2. inner' > 0 /\ inner' # 0
      BY <1>0, <1>2, <2>1
    <3> QED BY <2>6, <3>1, <3>2 DEF ManyInv
  <2> QED BY <1>0, <2>1, <2>3, <2>31, <2>4, <2>7 DEF RetryInv, OneInv
<1> QED BY <1>3, <1>4

LEMMA RetryPanics ==
    ASSUME RetryConstants, RetryInv, Panics PROVE RetryInv'
<1> DEFINE res == NotError("panic")
<1>0. UNCHANGED <<executor, policies, retryCtx, backoff>> /\ retryPc = "call"
  BY DEF Panics
<1>1. /\ calls' = calls + 1 /\ calls' \in Nat /\ fatal' \in BOOLEAN /\ last' = res
      /\ last' \in [word : Word \cup {"none", "value", "panic"},
                         at : {"start", "inside", "none"}]
  BY CalledTypes DEF Panics, RetryInv
<1>2. attempt \in Nat /\ calls \in Nat /\ inner \in Nat
  BY DEF RetryInv, RetryTypeOK
<1>3. CASE inner > 0
  <2>1. executor = "multi" /\ InnerOver
    BY <1>2, <1>3 DEF Panics, RetryInv, RetryTypeOK
  <2>2. calls' <= IF retryPc = "wait" THEN calls ELSE calls + 1
    BY <1>0, <1>1, <1>2
  <2>3. retryPc # "done"
    BY <1>0
  <2> QED BY <1>0, <1>1, <1>3, <2>1, <2>2, <2>3, RetryGoesOn
<1>4. CASE ~(inner > 0)
  <2>1. /\ retryPc' = "done" /\ UNCHANGED <<inner, policy, attempt>>
        /\ result' \in [kind : {"recovered", "panic"}, attempts : {0}]
    BY <1>4 DEF Panics, End
  <2>2. RetryTypeOK'
    BY <1>0, <1>1, <2>1 DEF RetryInv, RetryTypeOK
  <2>3. OneInv'
    <3> SUFFICES ASSUME executor # "multi" PROVE OneInv'
      BY <1>0 DEF OneInv
    <3>1. ~fatal' /\ calls' <= Allowed(1)'
      BY <1>0, OneGoesOn DEF Panics
    <3> QED BY <2>1, <3>1 DEF OneInv
  <2>4. ManyInv'
    <3> SUFFICES ASSUME executor = "multi" PROVE ManyInv'
      BY <1>0 DEF ManyInv
    <3>1. inner = 0
      BY <1>2, <1>4
    <3>2. Bounded(calls + 1)
      BY <1>0, <1>2, <3>1, OneMoreIsBounded DEF RetryInv, ManyInv
    <3>3. Bounded(calls)'
      BY <1>0, <1>1, <3>2, CountsStay
    <3> QED BY <2>1, <3>3 DEF ManyInv
  <2> QED BY <1>0, <2>1, <2>2, <2>3, <2>4 DEF RetryInv, WaitInv
<1> QED BY <1>3, <1>4

LEMMA RetryWaitEnds ==
    ASSUME RetryConstants, RetryInv, WaitEnds PROVE RetryInv'
<1>0. /\ UNCHANGED <<executor, policies, policy, attempt, retryCtx, backoff, result, calls,
                     last, fatal>>
      /\ retryPc = "wait" /\ retryPc' = "call"
      /\ inner' = IF inner > 0 THEN inner + 1 ELSE 0
  BY DEF WaitEnds
<1>1. inner \in Nat /\ attempt \in Nat /\ calls \in Nat /\ policy.MaxAttempts \in Nat
  BY DEF RetryInv, RetryTypeOK
<1>2. RetryTypeOK'
  BY <1>0, <1>1 DEF RetryInv, RetryTypeOK
<1>3. OneInv'
  BY <1>0 DEF RetryInv, OneInv, Allowed, RetryOn, contains
<1>4. ManyInv'
  <2> SUFFICES ASSUME executor = "multi" PROVE ManyInv'
    BY <1>0 DEF ManyInv
  <2>1. inner > 0 /\ InnerInv
    BY <1>0, <1>1 DEF RetryInv, ManyInv
  <2>2. inner' = inner + 1 /\ inner' # 0
    BY <1>0, <1>1, <2>1
  <2>3. Between(attempt - 1, calls - inner - 1)
    <3>1. (IF retryPc = "wait" THEN 1 ELSE 0) = 1
      BY <1>0
    <3> QED BY <2>1, <3>1 DEF InnerInv
  <2>4. (IF retryPc = "wait" THEN 1 ELSE 0)' = 0
    BY <1>0
  <2>5. calls' - inner' - 0 = calls - inner - 1
    BY <1>0, <1>1, <2>2
  <2>6. Between(attempt - 1, calls - inner - IF retryPc = "wait" THEN 1 ELSE 0)'
    BY <1>0, <2>3, <2>4, <2>5 DEF Between, Allowed
  <2>7. inner < policy.MaxAttempts
    BY <1>0, <2>1 DEF InnerInv
  <2>8. InnerInv'
    BY <1>0, <1>1, <2>1, <2>2, <2>6, <2>7 DEF InnerInv, Allowed
  <2>9. Bounded(calls)'
    BY <1>0, CountsStay DEF RetryInv, ManyInv
  <2> QED BY <2>2, <2>8, <2>9 DEF ManyInv
<1> QED BY <1>0, <1>2, <1>3, <1>4 DEF RetryInv, WaitInv

LEMMA RetryWaitCancelled ==
    ASSUME RetryConstants, RetryInv, WaitCancelled PROVE RetryInv'
<1>0. /\ UNCHANGED <<executor, policies, retryCtx, backoff, calls, last, fatal>>
      /\ retryPc = "wait"
  BY DEF WaitCancelled
<1>1. /\ calls \in Nat /\ inner \in Nat /\ fatal \in BOOLEAN
      /\ last \in [word : Word \cup {"none", "value", "panic"}, at : {"start", "inside", "none"}]
  BY DEF RetryInv, RetryTypeOK
<1>2. CASE inner > 0
  <2>1. executor = "multi" /\ InnerOver
    BY <1>1, <1>2 DEF WaitCancelled, RetryInv, RetryTypeOK
  <2>2. calls' <= IF retryPc = "wait" THEN calls ELSE calls + 1
    BY <1>0, <1>1
  <2>3. retryPc # "done"
    BY <1>0
  <2>4. calls' \in Nat /\ fatal' \in BOOLEAN
        /\ last' \in [word : Word \cup {"none", "value", "panic"},
                      at : {"start", "inside", "none"}]
    BY <1>0, <1>1, Zenon
  <2> QED BY <1>0, <1>2, <2>1, <2>2, <2>3, <2>4, RetryGoesOn
<1>3. CASE ~(inner > 0)
  <2>1. /\ retryPc' = "done" /\ UNCHANGED <<inner, policy, attempt>>
        /\ result' = [kind |-> "cancelled", attempts |-> 0]
    BY <1>3 DEF WaitCancelled, End
  <2>2. RetryTypeOK'
    BY <1>0, <1>1, <2>1 DEF RetryInv, RetryTypeOK
  <2>3. OneInv'
    BY <1>0, <2>1 DEF RetryInv, OneInv, Allowed
  <2>4. Bounded(calls)' <=> Bounded(calls)
    BY <1>0, CountsStay
  <2>5. ManyInv'
    BY <1>0, <2>1, <2>4 DEF RetryInv, ManyInv
  <2> QED BY <1>0, <2>1, <2>2, <2>3, <2>5 DEF RetryInv, WaitInv
<1> QED BY <1>2, <1>3

LEMMA RetryStays ==
    ASSUME RetryConstants, RetryInv, retryCtx' \in BOOLEAN,
           UNCHANGED <<executor, policies, retryPc, inner, policy, attempt, backoff, result,
                       calls, last, fatal>>
    PROVE  RetryInv'
<1>1. RetryTypeOK'
  BY DEF RetryInv, RetryTypeOK
<1>2. OneInv'
  BY DEF RetryInv, OneInv, Allowed, RetryOn, contains
<1>3. ManyInv'
  <2>1. Bounded(calls)' <=> Bounded(calls)
    BY CountsStay
  <2>2. Between(attempt, calls)' <=> Between(attempt, calls)
    BY CountsStay
  <2>3. InnerInv' <=> InnerInv
    BY DEF InnerInv, Between, Allowed
  <2> QED BY <2>1, <2>2, <2>3 DEF RetryInv, ManyInv
<1>4. WaitInv'
  BY DEF RetryInv, WaitInv, Awaited, Capped
<1> QED BY <1>1, <1>2, <1>3, <1>4 DEF RetryInv

LEMMA RetryInvNext ==
    ASSUME RetryConstants PROVE RetryInv /\ [RetryNext]_retryVars => RetryInv'
<1> SUFFICES ASSUME RetryInv, [RetryNext]_retryVars PROVE RetryInv'
  OBVIOUS
<1>1. CASE Success
  BY <1>1, RetrySuccess
<1>2. CASE Panics
  BY <1>2, RetryPanics
<1>3. CASE WaitEnds
  BY <1>3, RetryWaitEnds
<1>4. CASE WaitCancelled
  BY <1>4, RetryWaitCancelled
<1>5. CASE ContextEnds
  BY <1>5, RetryStays DEF ContextEnds
<1>6. ASSUME NEW err \in Errors, Fails(err) \/ executeWithRetry(err) PROVE RetryInv'
  <2>1. executor # "multi" /\ Failed(err)
    BY <1>6 DEF Fails, executeWithRetry
  <2> QED BY <2>1, RetryFailed
<1>7. ASSUME NEW err \in Errors, OuterFails(err) PROVE RetryInv'
  BY <1>7, RetryOuterFails
<1>8. ASSUME NEW err \in Errors, InnerFails(err) PROVE RetryInv'
  BY <1>8, RetryInnerFails
<1>9. CASE UNCHANGED retryVars
  BY <1>9, RetryStays DEF retryVars, RetryInv, RetryTypeOK
<1> QED BY <1>1, <1>2, <1>3, <1>4, <1>5, <1>6, <1>7, <1>8, <1>9 DEF RetryNext

LEMMA RetryInvSound ==
    ASSUME RetryConstants PROVE RetryInv => RetriesAreBounded
<1> SUFFICES ASSUME RetryInv PROVE RetriesAreBounded
  OBVIOUS
<1>1. MaxPower \in Nat /\ MaxPower >= 1 /\ \A a \in Attempts : a \in Nat /\ a + 3 <= MaxPower
  BY DEF RetryConstants
<1>2. calls \in Nat /\ Len(policies) \in 0 .. 2
  BY AtMostTwo DEF RetryInv, RetryTypeOK
<1>3. \A i \in 1 .. Len(policies) : Allowed(i) \in Nat /\ Allowed(i) + 3 <= MaxPower
  BY <1>1, AllowedIsNat DEF RetryInv, Policy, Allowed
<1>4. calls <= MaxPower
  <2>1. CASE executor # "multi"
    <3>1. Len(policies) = 1 /\ calls <= Allowed(1)
      BY <2>1 DEF RetryInv, RetryTypeOK, OneInv
    <3> QED BY <1>1, <1>2, <1>3, <3>1
  <2>2. CASE executor = "multi"
    <3>1. Bounded(calls)
      BY <2>2 DEF RetryInv, ManyInv
    <3>2. CASE Len(policies) = 0
      BY <1>1, <1>2, <3>1, <3>2 DEF Bounded
    <3>3. CASE Len(policies) = 1
      BY <1>1, <1>2, <1>3, <3>1, <3>3 DEF Bounded
    <3>4. CASE Len(policies) = 2
      BY <1>1, <1>2, <1>3, <3>1, <3>4 DEF Bounded, Larger
    <3> QED BY <1>2, <3>2, <3>3, <3>4
  <2> QED BY <2>1, <2>2
<1>5. \A n \in 1 .. calls :
        InitialInterval * powFloat[n] < Wide => Capped(n) <= Capped(n + 1)
  <2> SUFFICES ASSUME NEW n \in 1 .. calls, InitialInterval * powFloat[n] < Wide
               PROVE  Capped(n) <= Capped(n + 1)
    OBVIOUS
  <2> QED BY <1>1, <1>2, <1>4, IntervalGrows
<1> QED BY <1>5 DEF RetriesAreBounded, RetryInv, OneInv, ManyInv, Bounded, WaitInv

-----------------------------------------------------------------------------
(* NodeCache: a call of Execute that may still count a hit is pending, and *)
(* the hits of an entry and the pending calls are no more than the calls.  *)

CacheConstants == IsFiniteSet(CacheClient) /\ maxSize \in Nat /\ Ttl \subseteq Nat

Made == CacheKey \X Nat
CacheEntry == [value : Made, hits : Nat, lastAccess : Nat, expiration : Nat]
CacheCall ==
    [pc : {"idle", "look", "reading", "waits", "gone", "compute", "store", "done"},
     key : CacheKey \cup {"none"}, value : Made \cup {<<>>}, at : Nat, hits : Nat]
GetOps == [type : {"get"}, key : CacheKey, by : CacheClient]
SetOps == [type : {"set"}, key : CacheKey, value : Made]
DeleteOps == [type : {"delete"}, key : CacheKey]
CacheOps == GetOps \cup SetOps \cup DeleteOps
EndedWorker == [type |-> "ended"]

CacheTypeOK ==
    /\ async \in BOOLEAN /\ cacheTtl \in Nat /\ now \in Nat /\ now > 0 /\ work \in Nat
    /\ DOMAIN cached \subseteq CacheKey /\ IsFiniteSet(DOMAIN cached)
    /\ \A k \in DOMAIN cached : cached[k] \in CacheEntry
    /\ client \in [CacheClient -> CacheCall]
    /\ workerCh \in Seq(CacheOps)
    /\ cacheWorker \in [CacheWorker -> CacheOps \cup {Nobody, EndedWorker}]

InQueue(c, i) == i \in 1 .. Len(workerCh) /\ workerCh[i].type = "get" /\ workerCh[i].by = c
AtWorker(c, w) == w \in CacheWorker /\ cacheWorker[w].type = "get" /\ cacheWorker[w].by = c
HasGet(c) == (\E i \in Nat : InQueue(c, i)) \/ \E w \in CacheWorker : AtWorker(c, w)

\* The get of a caller is in one place.
GetsInv ==
    \A c \in CacheClient :
      /\ HasGet(c) => client[c].pc \in {"waits", "gone"}
      /\ \A i, j \in Nat : InQueue(c, i) /\ InQueue(c, j) => i = j
      /\ \A w, u \in CacheWorker : AtWorker(c, w) /\ AtWorker(c, u) => w = u
      /\ \A i \in Nat, w \in CacheWorker : ~(InQueue(c, i) /\ AtWorker(c, w))
      /\ client[c].pc = "waits" => InHands([type |-> "get", key |-> client[c].key, by |-> c])

\* Who may still count a hit.
Pending == {c \in CacheClient : client[c].pc \in {"look", "reading"} \/ HasGet(c)}

CallsInv ==
    \A c \in CacheClient :
      /\ client[c].pc # "idle" => client[c].key \in CacheKey
      /\ client[c].pc = "look" => client[c].value = <<>>
      /\ client[c].pc = "reading" =>
           /\ ~async /\ client[c].key \in DOMAIN cached
           /\ client[c].hits + Cardinality(Pending) <= work
      /\ client[c].pc \in {"reading", "done"} /\ client[c].value # <<>> =>
           /\ client[c].value[1] = client[c].key
           /\ ~async /\ cacheTtl > 0 => client[c].at <= client[c].value[2] + cacheTtl

EntriesInv ==
    /\ Cardinality(DOMAIN cached) <= IF maxSize = 0 THEN 1 ELSE maxSize
    /\ \A k \in DOMAIN cached :
         /\ cached[k].hits + Cardinality(Pending) <= work
         /\ cached[k].value[1] = k
         /\ ~async /\ cacheTtl > 0 =>
              cached[k].expiration = cached[k].value[2] + cacheTtl

OpsInv ==
    /\ ~async => workerCh = <<>> /\ \A w \in CacheWorker : cacheWorker[w] \in {Nobody, EndedWorker}
    /\ \A i \in 1 .. Len(workerCh) : workerCh[i].type = "set" =>
         workerCh[i].value[1] = workerCh[i].key
    /\ \A w \in CacheWorker : cacheWorker[w].type = "set" =>
         cacheWorker[w].value[1] = cacheWorker[w].key

CacheInv ==
    /\ CacheTypeOK /\ GetsInv /\ CallsInv /\ EntriesInv /\ OpsInv
    /\ Cardinality(Pending) <= work

LEMMA PendingFinite ==
    ASSUME CacheConstants
    PROVE  /\ IsFiniteSet(Pending) /\ Cardinality(Pending) \in Nat
           /\ IsFiniteSet(Pending)' /\ Cardinality(Pending)' \in Nat
<1>1. Pending \subseteq CacheClient /\ (Pending)' \subseteq CacheClient
  BY DEF Pending
<1>2. IsFiniteSet(CacheClient)
  BY DEF CacheConstants
<1> QED BY <1>1, <1>2, FS_Subset, FS_CardinalityType

\* Fewer are pending, or one fewer, or one more.
LEMMA PendingShrinks ==
    ASSUME CacheConstants, \A c \in CacheClient : c \in (Pending)' => c \in Pending
    PROVE  Cardinality(Pending)' <= Cardinality(Pending)
<1>1. (Pending)' \subseteq Pending
  BY DEF Pending
<1> QED BY <1>1, PendingFinite, FS_Subset
LEMMA PendingLeaves ==
    ASSUME CacheConstants, NEW x \in Pending, x \notin (Pending)',
           \A c \in CacheClient : c \in (Pending)' => c \in Pending
    PROVE  Cardinality(Pending)' <= Cardinality(Pending) - 1
<1> DEFINE rest == Pending \ {x}
<1>1. (Pending)' \subseteq rest
  BY DEF Pending
<1>2. IsFiniteSet(rest) /\ Cardinality(rest) = Cardinality(Pending) - 1
  BY PendingFinite, OneLeaves
<1>3. Cardinality((Pending)') <= Cardinality(rest)
  BY <1>1, <1>2, FS_Subset
<1> QED BY <1>2, <1>3, PendingFinite
LEMMA PendingJoins ==
    ASSUME CacheConstants, NEW x \in CacheClient,
           \A c \in CacheClient : c \in (Pending)' => c \in Pending \/ c = x
    PROVE  Cardinality(Pending)' <= Cardinality(Pending) + 1
<1> DEFINE more == Pending \cup {x}
<1>1. (Pending)' \subseteq more
  BY DEF Pending
<1>2. IsFiniteSet(more) /\ Cardinality(more) <= Cardinality(Pending) + 1
  <2>1. CASE x \in Pending
    <3>1. more = Pending
      BY <2>1
    <3> QED BY <3>1, PendingFinite
  <2>2. CASE x \notin Pending
    <3>1. IsFiniteSet(more) /\ Cardinality(more) = Cardinality(Pending) + 1
      BY <2>2, PendingFinite, OneJoins
    <3> QED BY <3>1, PendingFinite
  <2> QED BY <2>1, <2>2
<1>3. Cardinality((Pending)') <= Cardinality(more) /\ Cardinality(more) \in Nat
  BY <1>1, <1>2, FS_Subset, FS_CardinalityType
<1> QED BY <1>2, <1>3, PendingFinite

LEMMA CacheInvInit ==
    ASSUME CacheConstants, CacheInit PROVE CacheInv
<1>1. CacheTypeOK
  <2>1. DOMAIN cached = {} /\ IsFiniteSet({})
    BY FS_EmptySet DEF CacheInit
  <2>2. Resting \in CacheCall
    BY DEF Resting, CacheCall
  <2>3. client \in [CacheClient -> CacheCall]
    BY <2>2 DEF CacheInit
  <2>4. cacheWorker \in [CacheWorker -> CacheOps \cup {Nobody, EndedWorker}] /\ workerCh \in Seq(CacheOps)
    BY DEF CacheInit
  <2>5. async \in BOOLEAN /\ cacheTtl \in Nat /\ now \in Nat /\ now > 0 /\ work \in Nat
    BY DEF CacheInit, CacheConstants
  <2> QED BY <2>1, <2>3, <2>4, <2>5 DEF CacheTypeOK
<1>2. \A c \in CacheClient : ~HasGet(c)
  BY DEF CacheInit, HasGet, InQueue, AtWorker, Nobody
<1>3. \A c \in CacheClient : client[c].pc = "idle"
  BY DEF CacheInit, Resting
<1>4. Pending = {}
  BY <1>2, <1>3 DEF Pending
<1>5. Cardinality(Pending) = 0 /\ work = 0
  BY <1>4, FS_EmptySet DEF CacheInit
<1>6. GetsInv
  BY <1>2, <1>3 DEF GetsInv, HasGet, InQueue, AtWorker
<1>7. CallsInv
  BY <1>3 DEF CallsInv
<1>8. EntriesInv
  <2>1. DOMAIN cached = {} /\ Cardinality(DOMAIN cached) = 0
    BY FS_EmptySet DEF CacheInit
  <2> QED BY <2>1 DEF EntriesInv, CacheConstants
<1>9. OpsInv
  BY DEF OpsInv, CacheInit, Nobody
<1> QED BY <1>1, <1>5, <1>6, <1>7, <1>8, <1>9 DEF CacheInv

\* What the entries are, whoever has counted what.
EntryOK(e, k) ==
    /\ e \in CacheEntry /\ e.value[1] = k
    /\ ~async /\ cacheTtl > 0 => e.expiration = e.value[2] + cacheTtl
Whole(d) ==
    /\ DOMAIN d \subseteq CacheKey /\ IsFiniteSet(DOMAIN d)
    /\ Cardinality(DOMAIN d) <= IF maxSize = 0 THEN 1 ELSE maxSize
    /\ \A k \in DOMAIN d : EntryOK(d[k], k)

LEMMA CachedIsWhole == CacheInv => Whole(cached)
  BY DEF CacheInv, CacheTypeOK, EntriesInv, Whole, EntryOK

LEMMA WithoutIsWhole ==
    ASSUME CacheConstants, Whole(cached), NEW k, cached' = WithoutEntry(k)
    PROVE  Whole(cached') /\ \A j \in DOMAIN cached' : j \in DOMAIN cached /\ cached'[j] = cached[j]
<1>1. DOMAIN cached' = DOMAIN cached \ {k}
      /\ \A j \in DOMAIN cached' : j \in DOMAIN cached /\ cached'[j] = cached[j]
  BY DEF WithoutEntry
<1>2. IsFiniteSet(DOMAIN cached')
      /\ Cardinality(DOMAIN cached') <= Cardinality(DOMAIN cached)
      /\ Cardinality(DOMAIN cached') \in Nat /\ Cardinality(DOMAIN cached) \in Nat
  BY <1>1, FS_Subset, FS_CardinalityType DEF Whole
<1> QED BY <1>1, <1>2 DEF Whole, CacheConstants

\* Set: the new entry has no hits, and the others keep theirs.
LEMMA SetIsWhole ==
    ASSUME CacheConstants, CacheTypeOK, Whole(cached), NEW k \in CacheKey, NEW v \in Made,
           v[1] = k, ~async => v[2] = now, SetEntry(k, v)
    PROVE  /\ Whole(cached')
           /\ \A j \in DOMAIN cached' :
                \/ cached'[j].hits = 0
                \/ j \in DOMAIN cached /\ cached'[j] = cached[j]
<1> DEFINE new == [value |-> v, hits |-> 0, lastAccess |-> now,
                   expiration |-> IF cacheTtl > 0 THEN now + cacheTtl ELSE 0]
           bound == IF maxSize = 0 THEN 1 ELSE maxSize
<1>0. bound \in Nat /\ bound >= 1 /\ bound >= maxSize /\ (maxSize > 0 => bound = maxSize)
      /\ maxSize \in Nat
  BY DEF CacheConstants
<1>1. EntryOK(new, k) /\ new.hits = 0
  BY DEF EntryOK, CacheEntry, CacheTypeOK
<1>2. Cardinality(DOMAIN cached) \in Nat /\ Cardinality(DOMAIN cached) <= bound
  BY FS_CardinalityType DEF Whole
<1> HIDE DEF new, bound
<1>3. ASSUME NEW d, DOMAIN d \subseteq DOMAIN cached, \A j \in DOMAIN d : d[j] = cached[j],
             cached' = WithNew(d, k, v), Cardinality(DOMAIN d) + 1 <= bound
      PROVE  /\ Whole(cached')
             /\ \A j \in DOMAIN cached' :
                  \/ cached'[j].hits = 0
                  \/ j \in DOMAIN cached /\ cached'[j] = cached[j]
  <2>1. /\ DOMAIN cached' = DOMAIN d \cup {k}
        /\ \A j \in DOMAIN cached' : cached'[j] = IF j = k THEN new ELSE cached[j]
    BY <1>3 DEF WithNew, new
  <2>2. IsFiniteSet(DOMAIN d)
    BY <1>3, FS_Subset DEF Whole
  <2>3. IsFiniteSet(DOMAIN cached') /\ Cardinality(DOMAIN cached') <= Cardinality(DOMAIN d) + 1
    <3>1. CASE k \in DOMAIN d
      <4>1. DOMAIN cached' = DOMAIN d
        BY <2>1, <3>1
      <4> QED BY <2>2, <4>1, FS_CardinalityType
    <3>2. CASE k \notin DOMAIN d
      <4>1. /\ IsFiniteSet(DOMAIN cached')
            /\ Cardinality(DOMAIN cached') = Cardinality(DOMAIN d) + 1
        BY <2>1, <2>2, <3>2, OneJoins
      <4> QED BY <2>2, <4>1, FS_CardinalityType
    <3> QED BY <3>1, <3>2
  <2>4. Cardinality(DOMAIN cached') <= bound
    BY <1>0, <1>3, <2>2, <2>3, FS_CardinalityType
  <2>5. \A j \in DOMAIN cached' : EntryOK(cached'[j], j)
    BY <1>1, <1>3, <2>1 DEF Whole
  <2>6. DOMAIN cached' \subseteq CacheKey
    BY <1>3, <2>1 DEF Whole
  <2> QED BY <1>1, <1>3, <2>1, <2>3, <2>4, <2>5, <2>6 DEF Whole, bound
<1>4. CASE Cardinality(DOMAIN cached) >= maxSize /\ cached # <<>>
  <2>1. PICK gone \in evict : cached' = WithNew(WithoutEntry(gone), k, v)
    BY <1>4 DEF SetEntry
  <2> DEFINE d == WithoutEntry(gone)
  <2>2. gone \in DOMAIN cached
    BY <2>1 DEF evict
  <2>3. DOMAIN d = DOMAIN cached \ {gone} /\ \A j \in DOMAIN d : d[j] = cached[j]
    BY DEF WithoutEntry
  <2>4. Cardinality(DOMAIN d) = Cardinality(DOMAIN cached) - 1
    BY <2>2, <2>3, OneLeaves DEF Whole
  <2>5. Cardinality(DOMAIN d) + 1 <= bound
    BY <1>0, <1>2, <2>4
  <2>6. cached' = WithNew(d, k, v) /\ DOMAIN d \subseteq DOMAIN cached
    BY <2>1, <2>3
  <2> HIDE DEF d
  <2> QED BY <1>3, <2>3, <2>5, <2>6
<1>5. CASE ~(Cardinality(DOMAIN cached) >= maxSize /\ cached # <<>>)
  <2>1. cached' = WithNew(cached, k, v)
    BY <1>5 DEF SetEntry
  <2>2. Cardinality(DOMAIN cached) + 1 <= bound
    <3>1. CASE cached = <<>>
      <4>1. DOMAIN cached = {}
        BY <3>1
      <4> QED BY <1>0, <4>1, FS_EmptySet
    <3>2. CASE cached # <<>>
      BY <1>0, <1>2, <1>5, <3>2
    <3> QED BY <3>1, <3>2
  <2> QED BY <1>3, <2>1, <2>2
<1> QED BY <1>4, <1>5

\* The callers' gets stay where they are.
LEMMA GetsStay ==
    ASSUME workerCh' = workerCh, cacheWorker' = cacheWorker
    PROVE  /\ \A c \in CacheClient : HasGet(c)' <=> HasGet(c)
           /\ \A c \in CacheClient, i \in Nat : InQueue(c, i)' <=> InQueue(c, i)
           /\ \A c \in CacheClient, w \in CacheWorker : AtWorker(c, w)' <=> AtWorker(c, w)
           /\ \A op : InHands(op)' <=> InHands(op)
           /\ (async' = async /\ OpsInv) => OpsInv'
  BY DEF HasGet, InQueue, AtWorker, InHands, OpsInv

\* One caller's place changes, which is not to wait.
LEMMA OneMoves ==
    ASSUME CacheInv, UNCHANGED <<workerCh, cacheWorker, async>>,
           NEW c \in CacheClient, NEW r \in CacheCall, client' = [client EXCEPT ![c] = r],
           r.pc # "waits", HasGet(c) => r.pc = "gone"
    PROVE  /\ client' \in [CacheClient -> CacheCall]
           /\ client'[c] = r /\ \A d \in CacheClient \ {c} : client'[d] = client[d]
           /\ GetsInv' /\ OpsInv'
           /\ workerCh' \in Seq(CacheOps)
           /\ cacheWorker' \in [CacheWorker -> CacheOps \cup {Nobody, EndedWorker}]
<1>1. client \in [CacheClient -> CacheCall] /\ GetsInv
  BY DEF CacheInv, CacheTypeOK
<1>2. client' \in [CacheClient -> CacheCall]
      /\ client'[c] = r /\ \A d \in CacheClient \ {c} : client'[d] = client[d]
  BY <1>1
<1>3. GetsInv'
  BY <1>1, <1>2, GetsStay DEF GetsInv
<1> QED BY <1>2, <1>3, GetsStay DEF CacheInv, CacheTypeOK

\* The rest of a step in which no caller begins.
LEMMA CallerMoves ==
    ASSUME CacheConstants, CacheInv,
           UNCHANGED <<settings, now, cached, workerCh, cacheWorker, work>>,
           NEW c \in CacheClient, NEW r \in CacheCall, client' = [client EXCEPT ![c] = r],
           r.pc # "waits", HasGet(c) => r.pc = "gone",
           r.pc # "look", r.pc = "reading" => client[c].pc = "look",
           r.pc # "idle" => r.key \in CacheKey,
           r.pc = "reading" => /\ ~async /\ r.key \in DOMAIN cached
                               /\ r.hits + Cardinality(Pending) <= work,
           r.pc \in {"reading", "done"} /\ r.value # <<>> =>
             /\ r.value[1] = r.key
             /\ ~async /\ cacheTtl > 0 => r.at <= r.value[2] + cacheTtl
    PROVE  CacheInv'
<1>1. /\ client' \in [CacheClient -> CacheCall]
      /\ client'[c] = r /\ \A d \in CacheClient \ {c} : client'[d] = client[d]
      /\ GetsInv' /\ OpsInv'
      /\ workerCh' \in Seq(CacheOps)
      /\ cacheWorker' \in [CacheWorker -> CacheOps \cup {Nobody, EndedWorker}]
  BY OneMoves DEF settings
<1>2. Cardinality(Pending)' <= Cardinality(Pending)
  <2>1. \A d \in CacheClient : HasGet(d)' <=> HasGet(d)
    BY GetsStay
  <2>2. \A d \in CacheClient : d \in (Pending)' => d \in Pending
    BY <1>1, <2>1 DEF Pending
  <2> QED BY <2>2, PendingShrinks
<1>3. /\ Cardinality(Pending)' \in Nat /\ Cardinality(Pending) \in Nat /\ work \in Nat
      /\ \A d \in CacheClient : client[d].hits \in Nat
      /\ r.hits \in Nat /\ \A k \in DOMAIN cached : cached[k].hits \in Nat
  BY PendingFinite DEF CacheInv, CacheTypeOK, CacheCall, CacheEntry
<1>4. CacheTypeOK'
  BY <1>1 DEF CacheInv, CacheTypeOK, settings
<1>5. CallsInv'
  <2> SUFFICES ASSUME NEW d \in CacheClient PROVE CallsInv!(d)'
    BY DEF CallsInv
  <2>1. CASE d = c
    BY <1>1, <1>2, <1>3, <2>1 DEF settings
  <2>2. CASE d # c
    <3>1. client'[d] = client[d] /\ CallsInv!(d)
      BY <1>1, <2>2 DEF CacheInv, CallsInv
    <3> QED BY <1>2, <1>3, <3>1 DEF settings
  <2> QED BY <2>1, <2>2
<1>6. EntriesInv'
  BY <1>2, <1>3 DEF CacheInv, EntriesInv, settings
<1> QED BY <1>1, <1>2, <1>3, <1>4, <1>5, <1>6 DEF CacheInv

LEMMA CacheExecute ==
    ASSUME CacheConstants, CacheInv, NEW c \in CacheClient, NEW k \in CacheKey,
           ExecuteNode(c, k)
    PROVE  CacheInv'
<1> DEFINE r == [Resting EXCEPT !.pc = "look", !.key = k]
<1>0. UNCHANGED <<settings, now, cached, workerCh, cacheWorker>> /\ work' = work + 1
      /\ client[c].pc \in {"idle", "done"} /\ client' = [client EXCEPT ![c] = r]
  BY DEF ExecuteNode
<1>1. r \in CacheCall /\ r.pc = "look" /\ r.key = k /\ r.value = <<>>
  BY DEF Resting, CacheCall
<1>2. ~HasGet(c)
  BY <1>0 DEF CacheInv, GetsInv
<1> HIDE DEF r
<1>3. /\ client' \in [CacheClient -> CacheCall]
      /\ client'[c] = r /\ \A d \in CacheClient \ {c} : client'[d] = client[d]
      /\ GetsInv' /\ OpsInv'
      /\ workerCh' \in Seq(CacheOps)
      /\ cacheWorker' \in [CacheWorker -> CacheOps \cup {Nobody, EndedWorker}]
  BY <1>0, <1>1, <1>2, OneMoves DEF settings
<1>4. Cardinality(Pending)' <= Cardinality(Pending) + 1
  <2>1. \A d \in CacheClient : HasGet(d)' <=> HasGet(d)
    BY <1>0, GetsStay
  <2>2. \A d \in CacheClient : d \in (Pending)' => d \in Pending \/ d = c
    BY <1>3, <2>1 DEF Pending
  <2> QED BY <2>2, PendingJoins
<1>5. /\ Cardinality(Pending)' \in Nat /\ Cardinality(Pending) \in Nat /\ work \in Nat
      /\ \A d \in CacheClient : client[d].hits \in Nat
      /\ \A j \in DOMAIN cached : cached[j].hits \in Nat
  BY PendingFinite DEF CacheInv, CacheTypeOK, CacheCall, CacheEntry
<1>6. CacheTypeOK'
  BY <1>0, <1>3, <1>5 DEF CacheInv, CacheTypeOK, settings
<1>7. CallsInv'
  <2> SUFFICES ASSUME NEW d \in CacheClient PROVE CallsInv!(d)'
    BY DEF CallsInv
  <2>1. CASE d = c
    BY <1>1, <1>3, <2>1
  <2>2. CASE d # c
    <3>1. client'[d] = client[d] /\ CallsInv!(d)
      BY <1>3, <2>2 DEF CacheInv, CallsInv
    <3> QED BY <1>0, <1>4, <1>5, <3>1 DEF settings
  <2> QED BY <2>1, <2>2
<1>8. EntriesInv'
  BY <1>0, <1>4, <1>5 DEF CacheInv, EntriesInv, settings
<1>9. Cardinality(Pending)' <= work'
  BY <1>0, <1>4, <1>5 DEF CacheInv
<1> QED BY <1>3, <1>6, <1>7, <1>8, <1>9 DEF CacheInv

LEMMA CacheGetReads ==
    ASSUME CacheConstants, CacheInv, NEW c \in CacheClient, GetReads(c) PROVE CacheInv'
<1> DEFINE k == client[c].key
           hit == [client[c] EXCEPT !.pc = "reading", !.value = cached[k].value, !.at = now,
                                    !.hits = cached[k].hits]
           miss == [client[c] EXCEPT !.pc = "compute"]
<1>1. client[c] \in CacheCall /\ client[c].pc = "look" /\ ~async /\ ~HasGet(c) /\ k \in CacheKey
      /\ client \in [CacheClient -> CacheCall]
      /\ UNCHANGED <<settings, now, cached, workerCh, cacheWorker, work>>
  BY DEF GetReads, CacheInv, CacheTypeOK, GetsInv, CallsInv
<1>2. CASE Found(k)
  <2>1. client' = [client EXCEPT ![c] = hit]
    BY <1>1, <1>2 DEF GetReads
  <2>2. k \in DOMAIN cached /\ cached[k] \in CacheEntry /\ ~Expired(cached[k])
        /\ cached[k].value[1] = k
        /\ cached[k].hits + Cardinality(Pending) <= work
        /\ (cacheTtl > 0 => cached[k].expiration = cached[k].value[2] + cacheTtl)
    BY <1>1, <1>2 DEF Found, CacheInv, CacheTypeOK, EntriesInv
  <2>3. now \in Nat /\ now > 0 /\ cacheTtl \in Nat
    BY DEF CacheInv, CacheTypeOK
  <2>4. cached[k].value \in Made /\ cached[k].hits \in Nat
    BY <2>2 DEF CacheEntry
  <2>5. hit \in CacheCall /\ hit.pc = "reading" /\ hit.key = k /\ hit.value = cached[k].value
        /\ hit.at = now /\ hit.hits = cached[k].hits
    BY <1>1, <2>3, <2>4 DEF CacheCall
  <2>6. cacheTtl > 0 => now <= cached[k].value[2] + cacheTtl
    BY <2>2, <2>3, <2>4 DEF Expired, Made
  <2> HIDE DEF hit
  <2> QED BY <1>1, <2>1, <2>2, <2>5, <2>6, CallerMoves
<1>3. CASE ~Found(k)
  <2>1. client' = [client EXCEPT ![c] = miss]
    BY <1>1, <1>3 DEF GetReads
  <2>2. miss \in CacheCall /\ miss.pc = "compute" /\ miss.key = k
    BY <1>1 DEF CacheCall
  <2> HIDE DEF miss
  <2> QED BY <1>1, <2>1, <2>2, CallerMoves
<1> QED BY <1>2, <1>3

LEMMA CacheFnEnds ==
    ASSUME CacheConstants, CacheInv, NEW c \in CacheClient,
           FnReturns(c) \/ FnFails(c) \/ AGetCancelled(c)
    PROVE CacheInv'
<1>1. client[c] \in CacheCall /\ client \in [CacheClient -> CacheCall]
      /\ UNCHANGED <<settings, now, cached, workerCh, cacheWorker, work>>
  BY DEF FnReturns, FnFails, AGetCancelled, CacheInv, CacheTypeOK
<1>2. CASE FnReturns(c)
  <2> DEFINE r == [client[c] EXCEPT !.pc = "store"]
  <2>1. client' = [client EXCEPT ![c] = r] /\ client[c].pc = "compute"
    BY <1>1, <1>2 DEF FnReturns, Step
  <2>2. r \in CacheCall /\ r.pc = "store" /\ r.key = client[c].key
    BY <1>1 DEF CacheCall
  <2>3. client[c].key \in CacheKey /\ ~HasGet(c)
    BY <2>1 DEF CacheInv, CallsInv, GetsInv
  <2> HIDE DEF r
  <2> QED BY <1>1, <2>1, <2>2, <2>3, CallerMoves
<1>3. CASE FnFails(c)
  <2>1. client' = [client EXCEPT ![c] = Resting] /\ client[c].pc = "compute"
    BY <1>3 DEF FnFails
  <2>2. Resting \in CacheCall /\ Resting.pc = "idle"
    BY DEF Resting, CacheCall
  <2>3. ~HasGet(c)
    BY <2>1 DEF CacheInv, GetsInv
  <2> QED BY <1>1, <2>1, <2>2, <2>3, CallerMoves
<1>4. CASE AGetCancelled(c)
  <2> DEFINE r == [client[c] EXCEPT !.pc = "gone"]
  <2>1. client' = [client EXCEPT ![c] = r] /\ client[c].pc = "waits"
    BY <1>1, <1>4 DEF AGetCancelled, Step
  <2>2. r \in CacheCall /\ r.pc = "gone" /\ r.key = client[c].key
    BY <1>1 DEF CacheCall
  <2>3. client[c].key \in CacheKey
    BY <2>1 DEF CacheInv, CallsInv
  <2> HIDE DEF r
  <2> QED BY <1>1, <2>1, <2>2, <2>3, CallerMoves
<1> QED BY <1>2, <1>3, <1>4

LEMMA CacheGetCounts ==
    ASSUME CacheConstants, CacheInv, NEW c \in CacheClient, GetCounts(c) PROVE CacheInv'
<1> DEFINE k == client[c].key
           r == [client[c] EXCEPT !.pc = "done"]
           e == [cached[k] EXCEPT !.hits = client[c].hits + 1, !.lastAccess = now]
<1>1. client[c] \in CacheCall /\ client[c].pc = "reading" /\ ~async /\ ~HasGet(c)
      /\ client \in [CacheClient -> CacheCall] /\ k \in CacheKey /\ k \in DOMAIN cached
      /\ client[c].hits + Cardinality(Pending) <= work
      /\ UNCHANGED <<settings, now, workerCh, cacheWorker, work>>
      /\ cached[k] \in CacheEntry /\ now \in Nat
  BY DEF GetCounts, CacheInv, CacheTypeOK, GetsInv, CallsInv
<1>2. client' = [client EXCEPT ![c] = r] /\ cached' = [cached EXCEPT ![k] = e]
  BY <1>1 DEF GetCounts, Step
<1>3. r \in CacheCall /\ r.pc = "done" /\ r.key = k /\ r.value = client[c].value
      /\ r.at = client[c].at
  BY <1>1 DEF CacheCall
<1>4. e \in CacheEntry /\ e.value = cached[k].value /\ e.expiration = cached[k].expiration
      /\ e.hits = client[c].hits + 1
  <2> DEFINE h == client[c].hits + 1
  <2>1. h \in Nat
    BY <1>1 DEF CacheCall
  <2>2. e = [cached[k] EXCEPT !.hits = h, !.lastAccess = now]
    OBVIOUS
  <2> HIDE DEF h, e
  <2>3. e \in CacheEntry /\ e.value = cached[k].value /\ e.expiration = cached[k].expiration
        /\ e.hits = h
    BY <1>1, <2>1, <2>2 DEF CacheEntry
  <2> QED BY <2>3 DEF h
<1> HIDE DEF r, e
<1>5. /\ client' \in [CacheClient -> CacheCall]
      /\ client'[c] = r /\ \A d \in CacheClient \ {c} : client'[d] = client[d]
      /\ GetsInv' /\ OpsInv'
      /\ workerCh' \in Seq(CacheOps)
      /\ cacheWorker' \in [CacheWorker -> CacheOps \cup {Nobody, EndedWorker}]
  BY <1>1, <1>2, <1>3, OneMoves DEF settings
<1>6. Cardinality(Pending)' <= Cardinality(Pending) - 1
  <2>1. \A d \in CacheClient : HasGet(d)' <=> HasGet(d)
    BY <1>1, GetsStay
  <2>2. c \in Pending /\ c \notin (Pending)'
        /\ \A d \in CacheClient : d \in (Pending)' => d \in Pending
    BY <1>1, <1>3, <1>5, <2>1 DEF Pending
  <2> QED BY <2>2, PendingLeaves
<1>7. /\ Cardinality(Pending)' \in Nat /\ Cardinality(Pending) \in Nat /\ work \in Nat
      /\ \A d \in CacheClient : client[d].hits \in Nat
      /\ \A j \in DOMAIN cached : cached[j].hits \in Nat
  BY PendingFinite DEF CacheInv, CacheTypeOK, CacheCall, CacheEntry
<1>8. /\ DOMAIN cached' = DOMAIN cached
      /\ \A j \in DOMAIN cached : cached'[j] = IF j = k THEN e ELSE cached[j]
  BY <1>2
<1>9. CacheTypeOK'
  BY <1>1, <1>4, <1>5, <1>8 DEF CacheInv, CacheTypeOK, settings
<1>10. CallsInv'
  <2> SUFFICES ASSUME NEW d \in CacheClient PROVE CallsInv!(d)'
    BY DEF CallsInv
  <2>1. CASE d = c
    <3>1. CallsInv!(c)
      BY DEF CacheInv, CallsInv
    <3> QED BY <1>1, <1>3, <1>5, <2>1, <3>1 DEF settings
  <2>2. CASE d # c
    <3>1. client'[d] = client[d] /\ CallsInv!(d)
      BY <1>5, <2>2 DEF CacheInv, CallsInv
    <3> QED BY <1>1, <1>6, <1>7, <1>8, <3>1 DEF settings
  <2> QED BY <2>1, <2>2
<1>11. EntriesInv'
  <2>1. \A j \in DOMAIN cached' : EntriesInv!2!(j)'
    <3> SUFFICES ASSUME NEW j \in DOMAIN cached' PROVE EntriesInv!2!(j)'
      OBVIOUS
    <3>1. j \in DOMAIN cached /\ EntriesInv!2!(j)
      BY <1>8 DEF CacheInv, EntriesInv
    <3>2. CASE j = k
      BY <1>1, <1>4, <1>6, <1>7, <1>8, <3>1, <3>2 DEF settings
    <3>3. CASE j # k
      BY <1>1, <1>6, <1>7, <1>8, <3>1, <3>3 DEF settings
    <3> QED BY <3>2, <3>3
  <2>2. Cardinality(DOMAIN cached') <= IF maxSize = 0 THEN 1 ELSE maxSize
    BY <1>8 DEF CacheInv, EntriesInv
  <2> QED BY <2>1, <2>2 DEF EntriesInv
<1> QED BY <1>1, <1>5, <1>6, <1>7, <1>9, <1>10, <1>11 DEF CacheInv

\* A call that is past its read.
CallOver(r) ==
    /\ r.pc \in {"waits", "gone", "compute", "store", "done"} /\ r.key \in CacheKey
    /\ r.pc = "done" /\ r.value # <<>> =>
         /\ r.value[1] = r.key
         /\ ~async /\ cacheTtl > 0 => r.at <= r.value[2] + cacheTtl

\* The rest of a step in which entries stay, go or are new, and callers stay or
\* are past their reads.
LEMMA RestOfStep ==
    ASSUME CacheConstants, CacheInv, UNCHANGED settings,
           now' \in Nat, now' > 0, work' \in Nat, work <= work',
           workerCh' \in Seq(CacheOps),
           cacheWorker' \in [CacheWorker -> CacheOps \cup {Nobody, EndedWorker}],
           GetsInv', OpsInv',
           client' \in [CacheClient -> CacheCall],
           \A d \in CacheClient : client'[d] = client[d] \/ CallOver(client'[d]),
           \A d \in CacheClient : HasGet(d)' => d \in Pending,
           Whole(cached'),
           \A j \in DOMAIN cached' :
             \/ cached'[j].hits = 0
             \/ j \in DOMAIN cached /\ cached'[j].hits = cached[j].hits
             \/ cached'[j].hits + Cardinality(Pending)' <= work,
           NoReader \/ DOMAIN cached' = DOMAIN cached
    PROVE  CacheInv'
<1>1. Cardinality(Pending)' <= Cardinality(Pending)
  <2>1. \A d \in CacheClient : d \in (Pending)' => d \in Pending
    BY DEF Pending, CallOver
  <2> QED BY <2>1, PendingShrinks
<1>2. /\ Cardinality(Pending)' \in Nat /\ Cardinality(Pending) \in Nat /\ work \in Nat
      /\ \A d \in CacheClient : client[d].hits \in Nat
      /\ \A j \in DOMAIN cached : cached[j].hits \in Nat
      /\ Cardinality(Pending) <= work
  BY PendingFinite DEF CacheInv, CacheTypeOK, CacheCall, CacheEntry
<1>3. CacheTypeOK'
  BY DEF CacheInv, CacheTypeOK, settings, Whole, EntryOK
<1>4. CallsInv'
  <2> SUFFICES ASSUME NEW d \in CacheClient PROVE CallsInv!(d)'
    BY DEF CallsInv
  <2>1. CASE CallOver(client'[d])
    BY <2>1 DEF CallOver, settings
  <2>2. CASE client'[d] = client[d]
    <3>1. CallsInv!(d)
      BY DEF CacheInv, CallsInv
    <3>2. client[d].pc = "reading" => client[d].key \in DOMAIN cached'
      BY <3>1 DEF NoReader
    <3>3. client[d].hits + Cardinality(Pending) <= work =>
            client[d].hits + Cardinality(Pending)' <= work'
      BY <1>1, <1>2
    <3> QED BY <2>2, <3>1, <3>2, <3>3 DEF settings
  <2> QED BY <2>1, <2>2
<1>5. EntriesInv'
  <2>1. \A j \in DOMAIN cached' : cached'[j].hits + Cardinality(Pending)' <= work'
    <3> SUFFICES ASSUME NEW j \in DOMAIN cached'
                 PROVE  cached'[j].hits + Cardinality(Pending)' <= work'
      OBVIOUS
    <3>1. cached'[j].hits \in Nat
      BY DEF Whole, EntryOK, CacheEntry
    <3>2. j \in DOMAIN cached => cached[j].hits + Cardinality(Pending) <= work
      BY DEF CacheInv, EntriesInv
    <3> QED BY <1>1, <1>2, <3>1, <3>2
  <2> QED BY <2>1 DEF EntriesInv, Whole, EntryOK, settings
<1>6. Cardinality(Pending)' <= work'
  BY <1>1, <1>2
<1> QED BY <1>3, <1>4, <1>5, <1>6 DEF CacheInv

\* An operation enters the channel: whose get is where.
LEMMA OpEnters ==
    ASSUME CacheInv, NEW op \in CacheOps, workerCh' = Append(workerCh, op),
           cacheWorker' = cacheWorker, async, UNCHANGED settings,
           op.type = "set" => op.value[1] = op.key
    PROVE  /\ workerCh' \in Seq(CacheOps)
           /\ \A c \in CacheClient, i \in Nat :
                InQueue(c, i)' <=> \/ InQueue(c, i)
                                   \/ i = Len(workerCh) + 1 /\ op.type = "get" /\ op.by = c
           /\ \A c \in CacheClient, w \in CacheWorker : AtWorker(c, w)' <=> AtWorker(c, w)
           /\ \A o : InHands(o)' <=> InHands(o) \/ o = op
           /\ OpsInv'
<1>1. workerCh \in Seq(CacheOps)
  BY DEF CacheInv, CacheTypeOK
<1> DEFINE n == Len(workerCh)
<1>2. n \in Nat /\ workerCh' \in Seq(CacheOps) /\ Len(workerCh') = n + 1
      /\ \A i \in 1 .. n : workerCh'[i] = workerCh[i]
      /\ workerCh'[n + 1] = op
  BY <1>1
<1> HIDE DEF n
<1>3. \A i \in 1 .. n + 1 : i \in 1 .. n \/ i = n + 1
  BY <1>2
<1>4. \A i \in 1 .. n : i \in 1 .. n + 1
  BY <1>2
<1>5. n + 1 \in 1 .. n + 1 /\ n + 1 \notin 1 .. n
  BY <1>2
<1>6. \A c \in CacheClient, i \in Nat :
        InQueue(c, i)' <=> InQueue(c, i) \/ (i = n + 1 /\ op.type = "get" /\ op.by = c)
  BY <1>2, <1>3, <1>4, <1>5 DEF InQueue, n
<1>7. \A o : InHands(o)' <=> InHands(o) \/ o = op
  BY <1>2, <1>3, <1>4, <1>5 DEF InHands, n
<1>8. OpsInv'
  BY <1>2, <1>3, <1>4, <1>5 DEF OpsInv, CacheInv, settings, n
<1> QED BY <1>2, <1>6, <1>7, <1>8 DEF n, AtWorker

\* An operation of nobody enters.
LEMMA OtherOpEnters ==
    ASSUME CacheInv, NEW op \in CacheOps, workerCh' = Append(workerCh, op),
           cacheWorker' = cacheWorker, async, UNCHANGED settings,
           op.type # "get", op.type = "set" => op.value[1] = op.key,
           \A c \in CacheClient : \/ client'[c] = client[c]
                                  \/ client'[c].pc # "waits" /\ ~HasGet(c)
    PROVE  GetsInv' /\ \A c \in CacheClient : HasGet(c)' <=> HasGet(c)
<1>1. /\ \A c \in CacheClient, i \in Nat : InQueue(c, i)' <=> InQueue(c, i)
      /\ \A c \in CacheClient, w \in CacheWorker : AtWorker(c, w)' <=> AtWorker(c, w)
      /\ \A o : InHands(o) => InHands(o)'
  BY OpEnters
<1>2. \A c \in CacheClient : HasGet(c)' <=> HasGet(c)
  BY <1>1 DEF HasGet
<1> QED BY <1>1, <1>2 DEF GetsInv, CacheInv

LEMMA CacheAGet ==
    ASSUME CacheConstants, CacheInv, NEW c \in CacheClient, AGet(c) PROVE CacheInv'
<1>1. client[c] \in CacheCall /\ client[c].pc = "look" /\ async /\ ~HasGet(c)
      /\ client \in [CacheClient -> CacheCall] /\ client[c].key \in CacheKey
      /\ UNCHANGED <<settings, now, cached, cacheWorker, work>>
  BY DEF AGet, CacheInv, CacheTypeOK, GetsInv, CallsInv
<1>2. CASE Step(c, "done") /\ UNCHANGED workerCh
  <2> DEFINE r == [client[c] EXCEPT !.pc = "done"]
  <2>1. client[c].value = <<>> /\ client' = [client EXCEPT ![c] = r]
    BY <1>1, <1>2 DEF CacheInv, CallsInv, Step
  <2>2. r \in CacheCall /\ r.pc = "done" /\ r.key = client[c].key /\ r.value = <<>>
    BY <1>1, <2>1 DEF CacheCall
  <2> HIDE DEF r
  <2> QED BY <1>1, <1>2, <2>1, <2>2, CallerMoves
<1>3. CASE ~(Step(c, "done") /\ UNCHANGED workerCh)
  <2> DEFINE op == [type |-> "get", key |-> client[c].key, by |-> c]
             r == [client[c] EXCEPT !.pc = "waits"]
  <2>1. workerCh' = Append(workerCh, op) /\ client' = [client EXCEPT ![c] = r]
    BY <1>1, <1>3 DEF AGet, Step
  <2>2. op \in CacheOps /\ op.type = "get" /\ op.by = c
    BY <1>1 DEF CacheOps, GetOps
  <2>3. r \in CacheCall /\ r.pc = "waits" /\ r.key = client[c].key
    BY <1>1 DEF CacheCall
  <2> HIDE DEF r
  <2>4. client' \in [CacheClient -> CacheCall] /\ client'[c] = r
        /\ \A d \in CacheClient \ {c} : client'[d] = client[d]
    BY <1>1, <2>1, <2>3
  <2>5. /\ workerCh' \in Seq(CacheOps)
        /\ \A d \in CacheClient, i \in Nat :
             InQueue(d, i)' <=> \/ InQueue(d, i)
                                \/ i = Len(workerCh) + 1 /\ op.type = "get" /\ op.by = d
        /\ \A d \in CacheClient, w \in CacheWorker : AtWorker(d, w)' <=> AtWorker(d, w)
        /\ \A o : InHands(o)' <=> InHands(o) \/ o = op
        /\ OpsInv'
    <3> HIDE DEF op
    <3>1. op.type = "set" => op.value[1] = op.key
      BY <2>2
    <3> QED BY <1>1, <2>1, <2>2, <3>1, OpEnters
  <2>6. \A d \in CacheClient \ {c} : /\ HasGet(d)' <=> HasGet(d)
                                     /\ \A i \in Nat : InQueue(d, i)' <=> InQueue(d, i)
    BY <2>2, <2>5 DEF HasGet
  <2>7. \A i \in Nat : InQueue(c, i)' => i = Len(workerCh) + 1
    BY <1>1, <2>5 DEF HasGet
  <2>8. \A w \in CacheWorker : ~AtWorker(c, w)'
    BY <1>1, <2>5 DEF HasGet
  <2>9. GetsInv'
    <3> SUFFICES ASSUME NEW d \in CacheClient PROVE GetsInv!(d)'
      BY DEF GetsInv
    <3>1. CASE d = c
      BY <2>3, <2>4, <2>5, <2>7, <2>8, <3>1
    <3>2. CASE d # c
      <4>1. GetsInv!(d) /\ client'[d] = client[d]
        BY <2>4, <3>2 DEF CacheInv, GetsInv
      <4> QED BY <2>5, <2>6, <3>2, <4>1
    <3> QED BY <3>1, <3>2
  <2>10. \A d \in CacheClient : HasGet(d)' => d \in Pending
    BY <1>1, <2>6 DEF Pending
  <2>11. CallOver(r)
    BY <1>1, <2>3 DEF CallOver
  <2>12. /\ cacheWorker' \in [CacheWorker -> CacheOps \cup {Nobody, EndedWorker}]
         /\ now \in Nat /\ now > 0 /\ work \in Nat
    BY <1>1 DEF CacheInv, CacheTypeOK
  <2>13. work <= work' /\ now' \in Nat /\ now' > 0 /\ work' \in Nat
    BY <1>1, <2>12
  <2> HIDE DEF op
  <2>14. \A d \in CacheClient : client'[d] = client[d] \/ CallOver(client'[d])
    BY <2>4, <2>11
  <2> QED
    BY <1>1, <2>4, <2>5, <2>9, <2>10, <2>12, <2>13, <2>14, CachedIsWhole,
       RestOfStep
<1> QED BY <1>2, <1>3

LEMMA CacheStoreResult ==
    ASSUME CacheConstants, CacheInv, NEW c \in CacheClient, StoreResult(c) PROVE CacheInv'
<1> DEFINE k == client[c].key
           value == <<k, now>>
           r == [client[c] EXCEPT !.pc = "done", !.value = value, !.at = now]
<1>1. client[c] \in CacheCall /\ client[c].pc = "store" /\ ~HasGet(c) /\ k \in CacheKey
      /\ client \in [CacheClient -> CacheCall]
      /\ UNCHANGED <<settings, now, cacheWorker, work>>
      /\ now \in Nat /\ now > 0 /\ work \in Nat /\ cacheTtl \in Nat
  BY DEF StoreResult, CacheInv, CacheTypeOK, GetsInv, CallsInv
<1>2. value \in Made /\ value[1] = k /\ value[2] = now
  BY <1>1 DEF Made
<1>3. client' = [client EXCEPT ![c] = r]
  BY <1>1 DEF StoreResult
<1>4. r \in CacheCall /\ r.pc = "done" /\ r.key = k /\ r.value = value /\ r.at = now
  BY <1>1, <1>2 DEF CacheCall
<1>5. CallOver(r)
  BY <1>1, <1>2, <1>4 DEF CallOver
<1> HIDE DEF r
<1>6. client' \in [CacheClient -> CacheCall] /\ client'[c] = r
      /\ \A d \in CacheClient \ {c} : client'[d] = client[d]
  BY <1>1, <1>3, <1>4
<1>7. \A d \in CacheClient : client'[d] = client[d] \/ CallOver(client'[d])
  BY <1>5, <1>6
<1>8. cacheWorker' \in [CacheWorker -> CacheOps \cup {Nobody, EndedWorker}]
      /\ workerCh \in Seq(CacheOps)
  BY <1>1 DEF CacheInv, CacheTypeOK
<1>9. /\ GetsInv' /\ OpsInv' /\ \A d \in CacheClient : HasGet(d)' <=> HasGet(d)
      /\ workerCh' \in Seq(CacheOps)
      /\ Whole(cached')
      /\ \A j \in DOMAIN cached' :
           \/ cached'[j].hits = 0
           \/ j \in DOMAIN cached /\ cached'[j].hits = cached[j].hits
      /\ NoReader \/ DOMAIN cached' = DOMAIN cached
  <2>1. CASE async
    <3> DEFINE op == [type |-> "set", key |-> k, value |-> value]
    <3>1. workerCh' = Append(workerCh, op) /\ cached' = cached
      BY <2>1 DEF StoreResult
    <3>2. op \in CacheOps /\ op.type = "set" /\ op.value[1] = op.key
      BY <1>1, <1>2 DEF CacheOps, SetOps
    <3> HIDE DEF op, value
    <3>3. op.type # "get" /\ (op.type = "set" => op.value[1] = op.key)
      BY <3>2
    <3>4. \A d \in CacheClient : \/ client'[d] = client[d]
                                 \/ client'[d].pc # "waits" /\ ~HasGet(d)
      BY <1>1, <1>4, <1>6
    <3>5. GetsInv' /\ \A d \in CacheClient : HasGet(d)' <=> HasGet(d)
      BY <1>1, <2>1, <3>1, <3>2, <3>3, <3>4, OtherOpEnters
    <3>6. OpsInv' /\ workerCh' \in Seq(CacheOps)
      BY <1>1, <2>1, <3>1, <3>2, <3>3, OpEnters
    <3> QED BY <3>1, <3>5, <3>6, CachedIsWhole
  <2>2. CASE ~async
    <3>1. SetEntry(k, value) /\ workerCh' = workerCh
      BY <2>2 DEF StoreResult
    <3>2. /\ Whole(cached')
          /\ \A j \in DOMAIN cached' :
               \/ cached'[j].hits = 0
               \/ j \in DOMAIN cached /\ cached'[j] = cached[j]
      <4> HIDE DEF k, value
      <4> QED BY <1>1, <1>2, <3>1, SetIsWhole, CachedIsWhole DEF CacheInv
    <3>3. NoReader
      BY <3>1 DEF SetEntry
    <3>4. GetsInv' /\ OpsInv' /\ workerCh' \in Seq(CacheOps)
      <4>1. r.pc # "waits" /\ (HasGet(c) => r.pc = "gone")
        BY <1>1, <1>4
      <4> QED BY <1>1, <1>3, <1>4, <3>1, <4>1, OneMoves DEF settings
    <3>5. \A d \in CacheClient : HasGet(d)' <=> HasGet(d)
      BY <1>1, <3>1, GetsStay
    <3> QED BY <3>2, <3>3, <3>4, <3>5
  <2> QED BY <2>1, <2>2
<1>10. \A d \in CacheClient : HasGet(d)' => d \in Pending
  BY <1>9 DEF Pending
<1>11. now' \in Nat /\ now' > 0 /\ work' \in Nat /\ work <= work'
  BY <1>1
<1> QED BY <1>1, <1>6, <1>7, <1>8, <1>9, <1>10, <1>11, RestOfStep

\* The callers stay where they are.
LEMMA CallersStay ==
    ASSUME CacheConstants, CacheInv, UNCHANGED <<settings, client>>,
           now' \in Nat, now' > 0, work' \in Nat, work <= work',
           workerCh' \in Seq(CacheOps),
           cacheWorker' \in [CacheWorker -> CacheOps \cup {Nobody, EndedWorker}],
           GetsInv', OpsInv', \A d \in CacheClient : HasGet(d)' => HasGet(d),
           \/ cached' = cached
           \/ /\ Whole(cached') /\ NoReader
              /\ \A j \in DOMAIN cached' :
                   \/ cached'[j].hits = 0
                   \/ j \in DOMAIN cached /\ cached'[j] = cached[j]
    PROVE  CacheInv'
<1>1. client \in [CacheClient -> CacheCall]
  BY DEF CacheInv, CacheTypeOK
<1>2. \A d \in CacheClient : HasGet(d)' => d \in Pending
  BY DEF Pending
<1>3. /\ Whole(cached') /\ (NoReader \/ DOMAIN cached' = DOMAIN cached)
      /\ \A j \in DOMAIN cached' :
           \/ cached'[j].hits = 0
           \/ j \in DOMAIN cached /\ cached'[j].hits = cached[j].hits
  BY CachedIsWhole
<1> QED BY <1>1, <1>2, <1>3, RestOfStep

LEMMA CacheDeletes ==
    ASSUME CacheConstants, CacheInv,
           \/ \E k \in CacheKey : DeleteEntry(k)
           \/ ClearCache \/ Stop \/ CallersEnd \/ Tick
    PROVE CacheInv'
<1>1. /\ UNCHANGED <<settings, client, workerCh, cacheWorker>>
      /\ now' \in {now, now + 1} /\ work' \in {work, work + 1}
  BY DEF DeleteEntry, ClearCache, Stop, CallersEnd, Tick
<1>2. now \in Nat /\ now > 0 /\ work \in Nat /\ workerCh \in Seq(CacheOps)
      /\ cacheWorker \in [CacheWorker -> CacheOps \cup {Nobody, EndedWorker}]
  BY DEF CacheInv, CacheTypeOK
<1>3. GetsInv' /\ OpsInv' /\ \A d \in CacheClient : HasGet(d)' => HasGet(d)
  BY <1>1, GetsStay DEF settings, CacheInv, GetsInv
<1>4. \/ cached' = cached
      \/ /\ Whole(cached') /\ NoReader
         /\ \A j \in DOMAIN cached' :
              \/ cached'[j].hits = 0
              \/ j \in DOMAIN cached /\ cached'[j] = cached[j]
  <2>1. CASE \E k \in CacheKey : DeleteEntry(k)
    BY <2>1, WithoutIsWhole, CachedIsWhole DEF DeleteEntry
  <2>2. CASE ClearCache
    <3>1. DOMAIN cached' = {} /\ NoReader
      BY <2>2 DEF ClearCache
    <3>2. Cardinality(DOMAIN cached') = 0 /\ IsFiniteSet(DOMAIN cached')
      BY <3>1, FS_EmptySet
    <3> QED BY <3>1, <3>2 DEF Whole, CacheConstants
  <2>3. CASE Stop \/ CallersEnd \/ Tick
    BY <2>3 DEF Stop, CallersEnd, Tick
  <2> QED BY <2>1, <2>2, <2>3
<1>5. now' \in Nat /\ now' > 0 /\ work' \in Nat /\ work <= work'
  BY <1>1, <1>2
<1> QED BY <1>1, <1>2, <1>3, <1>4, <1>5, CallersStay

LEMMA CacheADelete ==
    ASSUME CacheConstants, CacheInv, NEW k \in CacheKey, ADelete(k) PROVE CacheInv'
<1> DEFINE op == [type |-> "delete", key |-> k]
<1>1. /\ UNCHANGED <<settings, now, cached, client, cacheWorker>> /\ work' = work + 1
      /\ async /\ workerCh' = Append(workerCh, op)
  BY DEF ADelete
<1>2. now \in Nat /\ now > 0 /\ work \in Nat
      /\ cacheWorker \in [CacheWorker -> CacheOps \cup {Nobody, EndedWorker}]
  BY DEF CacheInv, CacheTypeOK
<1>3. op \in CacheOps /\ op.type # "get" /\ (op.type = "set" => op.value[1] = op.key)
  BY DEF CacheOps, DeleteOps
<1> HIDE DEF op
<1>4. GetsInv' /\ \A d \in CacheClient : HasGet(d)' => HasGet(d)
  BY <1>1, <1>3, OtherOpEnters
<1>5. OpsInv' /\ workerCh' \in Seq(CacheOps)
  BY <1>1, <1>3, OpEnters
<1>6. now' \in Nat /\ now' > 0 /\ work' \in Nat /\ work <= work'
  BY <1>1, <1>2
<1> QED BY <1>1, <1>2, <1>4, <1>5, <1>6, CallersStay

LEMMA CacheWorkerTakes ==
    ASSUME CacheConstants, CacheInv, NEW w \in CacheWorker, WorkerTakes(w) PROVE CacheInv'
<1> DEFINE op == Head(workerCh)  n == Len(workerCh)
<1>1. /\ UNCHANGED <<settings, now, cached, client, work>>
      /\ cacheWorker[w] = Nobody /\ workerCh # <<>>
      /\ cacheWorker' = [cacheWorker EXCEPT ![w] = op] /\ workerCh' = Tail(workerCh)
  BY DEF WorkerTakes
<1>2. now \in Nat /\ now > 0 /\ work \in Nat /\ workerCh \in Seq(CacheOps)
      /\ cacheWorker \in [CacheWorker -> CacheOps \cup {Nobody, EndedWorker}]
  BY DEF CacheInv, CacheTypeOK
<1>3. /\ n \in Nat /\ n > 0 /\ op \in CacheOps /\ op = workerCh[1]
      /\ workerCh' \in Seq(CacheOps) /\ Len(workerCh') = n - 1
      /\ \A i \in 1 .. n - 1 : workerCh'[i] = workerCh[i + 1]
  BY <1>1, <1>2
<1>4. /\ cacheWorker' \in [CacheWorker -> CacheOps \cup {Nobody, EndedWorker}]
      /\ cacheWorker'[w] = op
      /\ \A u \in CacheWorker \ {w} : cacheWorker'[u] = cacheWorker[u]
  BY <1>1, <1>2, <1>3
<1> HIDE DEF op, n
<1>5. \A i \in 1 .. n - 1 : i + 1 \in 1 .. n
  BY <1>3
<1>6. \A c \in CacheClient, i \in Nat : InQueue(c, i)' => InQueue(c, i + 1) /\ i >= 1
  BY <1>3, <1>5 DEF InQueue, n
<1>7. \A c \in CacheClient : AtWorker(c, w)' => InQueue(c, 1)
  BY <1>3, <1>4 DEF AtWorker, InQueue, n
<1>8. \A c \in CacheClient, u \in CacheWorker : u # w => (AtWorker(c, u)' <=> AtWorker(c, u))
  BY <1>4 DEF AtWorker
<1>9. \A c \in CacheClient : HasGet(c)' => HasGet(c)
  <2> SUFFICES ASSUME NEW c \in CacheClient, HasGet(c)' PROVE HasGet(c)
    OBVIOUS
  <2>1. CASE \E i \in Nat : InQueue(c, i)'
    <3>1. PICK i \in Nat : InQueue(c, i)'
      BY <2>1
    <3>2. InQueue(c, i + 1) /\ i + 1 \in Nat
      BY <1>6, <3>1
    <3> QED BY <3>2 DEF HasGet
  <2>2. CASE \E u \in CacheWorker : AtWorker(c, u)'
    <3>1. PICK u \in CacheWorker : AtWorker(c, u)'
      BY <2>2
    <3>2. InQueue(c, 1) \/ AtWorker(c, u)
      BY <1>7, <1>8, <3>1
    <3> QED BY <3>2 DEF HasGet
  <2> QED BY <2>1, <2>2 DEF HasGet
<1>10. \A o : InHands(o) /\ o # Nobody => InHands(o)'
  <2> SUFFICES ASSUME NEW o, InHands(o), o # Nobody PROVE InHands(o)'
    OBVIOUS
  <2>1. CASE \E u \in CacheWorker : o = cacheWorker[u]
    <3>1. PICK u \in CacheWorker : o = cacheWorker[u]
      BY <2>1
    <3>2. u # w /\ cacheWorker'[u] = o
      BY <1>1, <1>4, <3>1
    <3> QED BY <3>2 DEF InHands
  <2>2. CASE \E i \in 1 .. n : workerCh[i] = o
    <3>1. PICK i \in 1 .. n : workerCh[i] = o
      BY <2>2
    <3>2. CASE i = 1
      <4>1. cacheWorker'[w] = o
        BY <1>3, <1>4, <3>1, <3>2
      <4> QED BY <4>1 DEF InHands
    <3>3. CASE i # 1
      <4>1. i - 1 \in 1 .. n - 1 /\ (i - 1) + 1 = i
        BY <1>3, <3>3
      <4>2. workerCh'[i - 1] = o
        BY <1>3, <3>1, <4>1
      <4> QED BY <1>3, <4>1, <4>2 DEF InHands
    <3> QED BY <3>2, <3>3
  <2> QED BY <2>1, <2>2 DEF InHands, n
<1>11. GetsInv'
  <2> SUFFICES ASSUME NEW c \in CacheClient PROVE GetsInv!(c)'
    BY DEF GetsInv
  <2>1. GetsInv!(c) /\ client' = client
    BY <1>1 DEF CacheInv, GetsInv
  <2>2. ASSUME NEW i \in Nat, NEW j \in Nat, InQueue(c, i)', InQueue(c, j)' PROVE i = j
    <3>1. InQueue(c, i + 1) /\ InQueue(c, j + 1) /\ i + 1 \in Nat /\ j + 1 \in Nat
      BY <1>6, <2>2
    <3>2. i + 1 = j + 1
      BY <2>1, <3>1
    <3> QED BY <3>2
  <2>3. ASSUME NEW u \in CacheWorker, NEW v \in CacheWorker, AtWorker(c, u)', AtWorker(c, v)'
        PROVE  u = v
    BY <1>7, <1>8, <2>1, <2>3
  <2>4. ASSUME NEW i \in Nat, NEW u \in CacheWorker, InQueue(c, i)', AtWorker(c, u)'
        PROVE  FALSE
    <3>1. InQueue(c, i + 1) /\ i + 1 \in Nat /\ i >= 1
      BY <1>6, <2>4
    <3>2. CASE u = w
      <4>1. InQueue(c, 1)
        BY <1>7, <2>4, <3>2
      <4>2. i + 1 = 1
        BY <2>1, <3>1, <4>1
      <4> QED BY <3>1, <4>2
    <3>3. CASE u # w
      BY <1>8, <2>1, <2>4, <3>1, <3>3
    <3> QED BY <3>2, <3>3
  <2>5. client[c].pc = "waits" => InHands([type |-> "get", key |-> client[c].key, by |-> c])'
    <3>1. [type |-> "get", key |-> client[c].key, by |-> c] # Nobody
      BY DEF Nobody
    <3> QED BY <1>10, <2>1, <3>1
  <2> QED BY <1>9, <2>1, <2>2, <2>3, <2>4, <2>5
<1>12. OpsInv'
  <2>1. async /\ async' = async
    BY <1>1 DEF CacheInv, OpsInv, settings, CacheTypeOK
  <2>2. \A i \in 1 .. Len(workerCh') : workerCh'[i].type = "set" =>
          workerCh'[i].value[1] = workerCh'[i].key
    BY <1>3, <1>5 DEF CacheInv, OpsInv, n
  <2>3. 1 \in 1 .. n
    BY <1>3
  <2>4. \A u \in CacheWorker : cacheWorker'[u].type = "set" =>
          cacheWorker'[u].value[1] = cacheWorker'[u].key
    BY <1>3, <1>4, <2>3 DEF CacheInv, OpsInv, n
  <2> QED BY <2>1, <2>2, <2>4 DEF OpsInv
<1>13. now' \in Nat /\ now' > 0 /\ work' \in Nat /\ work <= work'
  BY <1>1, <1>2
<1> QED BY <1>1, <1>3, <1>4, <1>9, <1>11, <1>12, <1>13, CallersStay

\* A worker is rid of what it had.
LEMMA WorkerIsRid ==
    ASSUME CacheInv, NEW w \in CacheWorker, NEW x \in {Nobody, EndedWorker}, UNCHANGED <<settings, workerCh>>,
           cacheWorker' = [cacheWorker EXCEPT ![w] = x]
    PROVE  /\ workerCh' \in Seq(CacheOps)
           /\ cacheWorker' \in [CacheWorker -> CacheOps \cup {Nobody, EndedWorker}]
           /\ OpsInv'
           /\ \A c \in CacheClient, i \in Nat : InQueue(c, i)' <=> InQueue(c, i)
           /\ \A c \in CacheClient, u \in CacheWorker :
                AtWorker(c, u)' <=> AtWorker(c, u) /\ u # w
           /\ \A c \in CacheClient : HasGet(c)' => HasGet(c)
           /\ \A o : InHands(o) /\ o # cacheWorker[w] => InHands(o)'
<1>1. cacheWorker \in [CacheWorker -> CacheOps \cup {Nobody, EndedWorker}]
      /\ workerCh' \in Seq(CacheOps)
  BY DEF CacheInv, CacheTypeOK
<1>2. /\ cacheWorker' \in [CacheWorker -> CacheOps \cup {Nobody, EndedWorker}]
      /\ cacheWorker'[w] = x
      /\ \A u \in CacheWorker \ {w} : cacheWorker'[u] = cacheWorker[u]
  BY <1>1
<1>3. x.type # "get" /\ x.type # "set"
  BY DEF Nobody, EndedWorker
<1>4. OpsInv'
  BY <1>2, <1>3 DEF CacheInv, OpsInv, settings
<1>5. \A c \in CacheClient, u \in CacheWorker :
        AtWorker(c, u)' <=> AtWorker(c, u) /\ u # w
  BY <1>2, <1>3 DEF AtWorker
<1>6. \A c \in CacheClient, i \in Nat : InQueue(c, i)' <=> InQueue(c, i)
  BY DEF InQueue
<1>7. \A o : InHands(o) /\ o # cacheWorker[w] => InHands(o)'
  <2> SUFFICES ASSUME NEW o, InHands(o), o # cacheWorker[w] PROVE InHands(o)'
    OBVIOUS
  <2>1. CASE \E u \in CacheWorker : o = cacheWorker[u]
    <3>1. PICK u \in CacheWorker : o = cacheWorker[u]
      BY <2>1
    <3>2. cacheWorker'[u] = o
      BY <1>2, <3>1
    <3> QED BY <3>2 DEF InHands
  <2>2. CASE \E i \in 1 .. Len(workerCh) : workerCh[i] = o
    BY <2>2 DEF InHands
  <2> QED BY <2>1, <2>2 DEF InHands
<1>8. \A c \in CacheClient : HasGet(c)' => HasGet(c)
  BY <1>5, <1>6 DEF HasGet
<1> QED BY <1>1, <1>2, <1>4, <1>5, <1>6, <1>7, <1>8

LEMMA CacheWorkerStops ==
    ASSUME CacheConstants, CacheInv, NEW w \in CacheWorker, WorkerStops(w) PROVE CacheInv'
<1>1. /\ UNCHANGED <<settings, now, cached, client, workerCh, work>>
      /\ cacheWorker[w] = Nobody /\ cacheWorker' = [cacheWorker EXCEPT ![w] = EndedWorker]
  BY DEF WorkerStops, EndedWorker
<1>2. /\ workerCh' \in Seq(CacheOps)
      /\ cacheWorker' \in [CacheWorker -> CacheOps \cup {Nobody, EndedWorker}]
      /\ OpsInv'
      /\ \A c \in CacheClient, i \in Nat : InQueue(c, i)' <=> InQueue(c, i)
      /\ \A c \in CacheClient, u \in CacheWorker :
           AtWorker(c, u)' <=> AtWorker(c, u) /\ u # w
      /\ \A c \in CacheClient : HasGet(c)' => HasGet(c)
      /\ \A o : InHands(o) /\ o # Nobody => InHands(o)'
  BY <1>1, WorkerIsRid
<1>3. GetsInv'
  <2>1. \A c : [type |-> "get", key |-> client[c].key, by |-> c] # Nobody
    BY DEF Nobody
  <2> QED BY <1>1, <1>2, <2>1 DEF CacheInv, GetsInv
<1>4. now' \in Nat /\ now' > 0 /\ work' \in Nat /\ work <= work'
  BY <1>1 DEF CacheInv, CacheTypeOK
<1> QED BY <1>1, <1>2, <1>3, <1>4, CallersStay

LEMMA CacheProcesses ==
    ASSUME CacheConstants, CacheInv, NEW w \in CacheWorker, processOp(w),
           cacheWorker[w].type # "get"
    PROVE  CacheInv'
<1> DEFINE op == cacheWorker[w]
<1>1. /\ UNCHANGED <<settings, now, workerCh, work, client>>
      /\ op.type \in {"set", "delete"} /\ cacheWorker' = [cacheWorker EXCEPT ![w] = Nobody]
      /\ op.type = "set" => SetEntry(op.key, op.value)
      /\ op.type = "delete" => cached' = WithoutEntry(op.key)
  BY DEF processOp
<1>2. op \in CacheOps
  BY <1>1 DEF CacheInv, CacheTypeOK, Nobody, EndedWorker
<1>3. async /\ NoReader
  BY <1>1
    DEF CacheInv, OpsInv, CallsInv, NoReader, Nobody, EndedWorker, CacheTypeOK
<1>4. /\ workerCh' \in Seq(CacheOps)
      /\ cacheWorker' \in [CacheWorker -> CacheOps \cup {Nobody, EndedWorker}]
      /\ OpsInv'
      /\ \A c \in CacheClient, i \in Nat : InQueue(c, i)' <=> InQueue(c, i)
      /\ \A c \in CacheClient, u \in CacheWorker :
           AtWorker(c, u)' <=> AtWorker(c, u) /\ u # w
      /\ \A c \in CacheClient : HasGet(c)' => HasGet(c)
      /\ \A o : InHands(o) /\ o # op => InHands(o)'
  BY <1>1, WorkerIsRid
<1>5. GetsInv'
  <2>1. \A c : [type |-> "get", key |-> client[c].key, by |-> c] # op
    BY <1>1
  <2> QED BY <1>1, <1>4, <2>1 DEF CacheInv, GetsInv
<1>6. now' \in Nat /\ now' > 0 /\ work' \in Nat /\ work <= work'
  BY <1>1 DEF CacheInv, CacheTypeOK
<1>7. /\ Whole(cached')
      /\ \A j \in DOMAIN cached' :
           \/ cached'[j].hits = 0
           \/ j \in DOMAIN cached /\ cached'[j] = cached[j]
  <2>1. CASE op.type = "set"
    <3>1. op.key \in CacheKey /\ op.value \in Made /\ op.value[1] = op.key
      BY <1>2, <2>1 DEF CacheOps, GetOps, SetOps, DeleteOps, CacheInv, OpsInv
    <3> HIDE DEF op
    <3> QED BY <1>1, <1>3, <2>1, <3>1, SetIsWhole, CachedIsWhole DEF CacheInv
  <2>2. CASE op.type = "delete"
    BY <1>1, <2>2, WithoutIsWhole, CachedIsWhole
  <2> QED BY <1>1, <2>1, <2>2
<1> QED BY <1>1, <1>3, <1>4, <1>5, <1>6, <1>7, CallersStay

LEMMA CacheAnswersTo ==
    ASSUME CacheConstants, CacheInv, NEW w \in CacheWorker, processOp(w),
           cacheWorker[w].type = "get",
           NEW b \in CacheClient, NEW k \in CacheKey,
           cacheWorker[w].by = b, cacheWorker[w].key = k
    PROVE  CacheInv'
<1> DEFINE op == cacheWorker[w]
           e == [cached[k] EXCEPT !.hits = @ + 1, !.lastAccess = now]
           hit == [client[b] EXCEPT !.pc = "done", !.at = now, !.value = cached[k].value]
           miss == [client[b] EXCEPT !.pc = "compute"]
<1>1. /\ UNCHANGED <<settings, now, workerCh, work>>
      /\ cacheWorker' = [cacheWorker EXCEPT ![w] = Nobody]
      /\ cached' = IF Found(k) THEN [cached EXCEPT ![k].hits = @ + 1, ![k].lastAccess = now]
                   ELSE cached
      /\ client' = IF client[b].pc # "waits" THEN client
                   ELSE IF Found(k)
                     THEN [client EXCEPT ![b].pc = "done", ![b].at = now,
                                         ![b].value = cached[k].value]
                     ELSE [client EXCEPT ![b].pc = "compute"]
  BY DEF processOp
<1>2. op.by = b /\ op.key = k
  OBVIOUS
<1>3. async /\ NoReader
  BY DEF CacheInv, OpsInv, CallsInv, NoReader, Nobody, EndedWorker, CacheTypeOK
<1>4. AtWorker(b, w) /\ HasGet(b) /\ client[b].pc \in {"waits", "gone"}
  <2>1. AtWorker(b, w)
    BY DEF AtWorker
  <2>2. HasGet(b)
    BY <2>1 DEF HasGet
  <2> QED BY <1>2, <2>1, <2>2 DEF CacheInv, GetsInv
<1>5. client \in [CacheClient -> CacheCall] /\ client[b] \in CacheCall
      /\ now \in Nat /\ now > 0 /\ work \in Nat
      /\ \A j \in DOMAIN cached : cached[j] \in CacheEntry /\ cached[j].value[1] = j
  BY <1>2 DEF CacheInv, CacheTypeOK, EntriesInv
<1>6. /\ workerCh' \in Seq(CacheOps)
      /\ cacheWorker' \in [CacheWorker -> CacheOps \cup {Nobody, EndedWorker}]
      /\ OpsInv'
      /\ \A c \in CacheClient, i \in Nat : InQueue(c, i)' <=> InQueue(c, i)
      /\ \A c \in CacheClient, u \in CacheWorker :
           AtWorker(c, u)' <=> AtWorker(c, u) /\ u # w
      /\ \A c \in CacheClient : HasGet(c)' => HasGet(c)
      /\ \A o : InHands(o) /\ o # op => InHands(o)'
  BY <1>1, WorkerIsRid
<1>7. ~HasGet(b)'
  <2>1. \A i \in Nat : ~InQueue(b, i)'
    BY <1>2, <1>4, <1>6 DEF CacheInv, GetsInv
  <2>2. \A u \in CacheWorker : ~AtWorker(b, u)'
    BY <1>2, <1>4, <1>6 DEF CacheInv, GetsInv
  <2> QED BY <2>1, <2>2 DEF HasGet
\* The waiting caller of the get is op's, and had asked for its key.
<1>8. client[b].pc = "waits" => client[b].key = k
  <2> SUFFICES ASSUME client[b].pc = "waits" PROVE client[b].key = k
    OBVIOUS
  <2> DEFINE o == [type |-> "get", key |-> client[b].key, by |-> b]
  <2>1. InHands(o)
    BY <1>2 DEF CacheInv, GetsInv
  <2>2. o.type = "get" /\ o.by = b /\ o.key = client[b].key
    OBVIOUS
  <2> HIDE DEF o
  <2>3. \A i \in 1 .. Len(workerCh) : workerCh[i] # o
    <3>1. \A i \in Nat : ~InQueue(b, i)
      BY <1>2, <1>4 DEF CacheInv, GetsInv
    <3> QED BY <2>2, <3>1 DEF InQueue
  <2>4. PICK u \in CacheWorker : cacheWorker[u] = o
    BY <2>1, <2>3 DEF InHands
  <2>5. AtWorker(b, u)
    BY <2>2, <2>4 DEF AtWorker
  <2>6. u = w
    BY <1>2, <1>4, <2>5 DEF CacheInv, GetsInv
  <2> QED BY <2>2, <2>4, <2>6
<1>9. /\ client' \in [CacheClient -> CacheCall]
      /\ \A d \in CacheClient : d # b => client'[d] = client[d]
      /\ client'[b].pc \in {"gone", "done", "compute"}
      /\ client'[b] = client[b] \/ CallOver(client'[b])
  <2>1. CASE client[b].pc # "waits"
    BY <1>1, <1>4, <1>5, <2>1
  <2>2. CASE client[b].pc = "waits" /\ Found(k)
    <3>1. client' = [client EXCEPT ![b] = hit]
      BY <1>1, <1>2, <1>5, <2>2
    <3>2. k \in DOMAIN cached /\ cached[k].value \in Made /\ cached[k].value[1] = k
      BY <1>5, <2>2 DEF Found, CacheEntry
    <3>3. hit \in CacheCall /\ hit.pc = "done" /\ hit.key = k /\ hit.value = cached[k].value
      BY <1>5, <1>8, <2>2, <3>2 DEF CacheCall
    <3> HIDE DEF hit
    <3>4. CallOver(hit)
      BY <1>2, <1>3, <3>2, <3>3 DEF CallOver
    <3> QED BY <1>2, <1>5, <3>1, <3>3, <3>4
  <2>3. CASE client[b].pc = "waits" /\ ~Found(k)
    <3>1. client' = [client EXCEPT ![b] = miss]
      BY <1>1, <1>2, <1>5, <2>3
    <3>2. miss \in CacheCall /\ miss.pc = "compute" /\ miss.key = k
      BY <1>5, <1>8, <2>3 DEF CacheCall
    <3> HIDE DEF miss
    <3>3. CallOver(miss)
      BY <1>2, <3>2 DEF CallOver
    <3> QED BY <1>2, <1>5, <3>1, <3>2, <3>3
  <2> QED BY <2>1, <2>2, <2>3
<1>10. GetsInv'
  <2> SUFFICES ASSUME NEW c \in CacheClient PROVE GetsInv!(c)'
    BY DEF GetsInv
  <2>1. GetsInv!(c)
    BY DEF CacheInv, GetsInv
  <2>2. /\ \A i, j \in Nat : InQueue(c, i)' /\ InQueue(c, j)' => i = j
        /\ \A u, v \in CacheWorker : AtWorker(c, u)' /\ AtWorker(c, v)' => u = v
        /\ \A i \in Nat, u \in CacheWorker : ~(InQueue(c, i)' /\ AtWorker(c, u)')
    BY <1>6, <2>1
  <2>3. CASE c = b
    BY <1>7, <1>9, <2>2, <2>3
  <2>4. CASE c # b
    <3> DEFINE o == [type |-> "get", key |-> client[c].key, by |-> c]
    <3>1. o # op
      BY <2>4
    <3>2. client'[c] = client[c]
      BY <1>9, <2>4
    <3>3. InHands(o) => InHands(o)'
      BY <1>6, <3>1, <3>2
    <3>4. client'[c].pc = "waits" =>
            InHands([type |-> "get", key |-> client[c].key, by |-> c])'
      BY <2>1, <3>2, <3>3
    <3>5. HasGet(c)' => client'[c].pc \in {"waits", "gone"}
      BY <1>6, <2>1, <3>2
    <3> QED BY <2>2, <3>4, <3>5
  <2> QED BY <2>3, <2>4
<1>11. \A d \in CacheClient : HasGet(d)' => d \in Pending
  BY <1>6 DEF Pending
<1>12. Cardinality(Pending)' <= Cardinality(Pending) - 1
  <2>1. b \in Pending
    BY <1>2, <1>4 DEF Pending
  <2>2. b \notin (Pending)'
    BY <1>7, <1>9 DEF Pending
  <2>3. \A d \in CacheClient : d \in (Pending)' => d \in Pending
    BY <1>6, <1>9, <2>2 DEF Pending
  <2> QED BY <2>1, <2>2, <2>3, PendingLeaves
<1>13. /\ Whole(cached') /\ DOMAIN cached' = DOMAIN cached
       /\ \A j \in DOMAIN cached' :
            \/ cached'[j].hits = cached[j].hits
            \/ cached'[j].hits + Cardinality(Pending)' <= work
  <2>1. CASE ~Found(k)
    BY <1>1, <2>1, CachedIsWhole
  <2>2. CASE Found(k)
    <3>1. k \in DOMAIN cached /\ cached[k] \in CacheEntry /\ cached' = [cached EXCEPT ![k] = e]
      BY <1>1, <1>5, <2>2 DEF Found
    <3>2. e \in CacheEntry /\ e.value = cached[k].value /\ e.expiration = cached[k].expiration
          /\ e.hits = cached[k].hits + 1
      <4> DEFINE h == cached[k].hits + 1
      <4>1. h \in Nat
        BY <3>1 DEF CacheEntry
      <4>2. e = [cached[k] EXCEPT !.hits = h, !.lastAccess = now]
        OBVIOUS
      <4> HIDE DEF h, e
      <4>3. e \in CacheEntry /\ e.value = cached[k].value /\ e.expiration = cached[k].expiration
            /\ e.hits = h
        BY <1>5, <3>1, <4>1, <4>2 DEF CacheEntry
      <4> QED BY <4>3 DEF h
    <3> HIDE DEF e
    <3>3. /\ DOMAIN cached' = DOMAIN cached
          /\ \A j \in DOMAIN cached : cached'[j] = IF j = k THEN e ELSE cached[j]
      BY <3>1
    <3>4. Whole(cached)
      BY CachedIsWhole
    <3>5. EntryOK(e, k)
      BY <1>2, <1>3, <3>1, <3>2, <3>4 DEF Whole, EntryOK
    <3>6. Whole(cached')
      BY <3>3, <3>4, <3>5 DEF Whole
    <3>7. cached[k].hits \in Nat /\ cached[k].hits + Cardinality(Pending) <= work
      BY <3>1 DEF CacheInv, EntriesInv, CacheEntry
    <3>8. cached'[k].hits + Cardinality(Pending)' <= work
      BY <1>5, <1>12, <3>1, <3>2, <3>3, <3>7, PendingFinite
    <3> QED BY <3>3, <3>6, <3>8
  <2> QED BY <2>1, <2>2
<1>14. now' \in Nat /\ now' > 0 /\ work' \in Nat /\ work <= work'
  BY <1>1, <1>5
<1>15. \A d \in CacheClient : client'[d] = client[d] \/ CallOver(client'[d])
  BY <1>9
<1> HIDE DEF e, hit, miss, op
<1> QED BY <1>1, <1>3, <1>6, <1>9, <1>10, <1>11, <1>13, <1>14, <1>15, RestOfStep

LEMMA CacheAnswers ==
    ASSUME CacheConstants, CacheInv, NEW w \in CacheWorker, processOp(w),
           cacheWorker[w].type = "get"
    PROVE  CacheInv'
<1>1. cacheWorker[w] \in GetOps
  BY DEF CacheInv, CacheTypeOK, Nobody, EndedWorker, CacheOps, SetOps, DeleteOps
<1>2. cacheWorker[w].by \in CacheClient /\ cacheWorker[w].key \in CacheKey
  BY <1>1 DEF GetOps
<1> QED BY <1>2, CacheAnswersTo

LEMMA CacheInvNext ==
    ASSUME CacheConstants PROVE CacheInv /\ [CacheNext]_cacheVars => CacheInv'
<1> SUFFICES ASSUME CacheInv, [CacheNext]_cacheVars PROVE CacheInv'
  OBVIOUS
<1>1. ASSUME NEW c \in CacheClient,
             \/ \E k \in CacheKey : ExecuteNode(c, k)
             \/ GetReads(c) \/ GetCounts(c) \/ AGet(c) \/ AGetCancelled(c)
             \/ FnReturns(c) \/ FnFails(c) \/ StoreResult(c)
      PROVE CacheInv'
  BY <1>1, CacheExecute, CacheGetReads, CacheGetCounts, CacheAGet, CacheFnEnds,
     CacheStoreResult
<1>2. ASSUME NEW k \in CacheKey, DeleteEntry(k) \/ ADelete(k) PROVE CacheInv'
  BY <1>2, CacheDeletes, CacheADelete
<1>3. ASSUME NEW w \in CacheWorker, WorkerTakes(w) \/ WorkerStops(w) \/ processOp(w)
      PROVE CacheInv'
  BY <1>3, CacheWorkerTakes, CacheWorkerStops, CacheProcesses, CacheAnswers
<1>4. CASE ClearCache \/ Stop \/ CallersEnd \/ Tick
  BY <1>4, CacheDeletes
<1>5. CASE UNCHANGED cacheVars
  <2>1. /\ UNCHANGED <<settings, client, workerCh, cacheWorker, now, work, cached>>
    BY <1>5 DEF cacheVars, settings
  <2>2. now \in Nat /\ now > 0 /\ work \in Nat /\ workerCh \in Seq(CacheOps)
        /\ cacheWorker \in [CacheWorker -> CacheOps \cup {Nobody, EndedWorker}]
    BY DEF CacheInv, CacheTypeOK
  <2>3. now' \in Nat /\ now' > 0 /\ work' \in Nat /\ work <= work'
    BY <2>1, <2>2
  <2>4. GetsInv' /\ OpsInv' /\ \A d \in CacheClient : HasGet(d)' => HasGet(d)
    BY <2>1, GetsStay DEF settings, CacheInv, GetsInv
  <2> QED BY <2>1, <2>2, <2>3, <2>4, CallersStay
<1> QED BY <1>1, <1>2, <1>3, <1>4, <1>5 DEF CacheNext

LEMMA CacheInvSound ==
    ASSUME CacheConstants PROVE CacheInv => CacheSound
<1> SUFFICES ASSUME CacheInv PROVE CacheSound
  OBVIOUS
<1>1. \A k \in DOMAIN cached : cached[k].hits <= work
  <2> SUFFICES ASSUME NEW k \in DOMAIN cached PROVE cached[k].hits <= work
    OBVIOUS
  <2>1. cached[k].hits \in Nat /\ cached[k].hits + Cardinality(Pending) <= work /\ work \in Nat
    BY DEF CacheInv, CacheTypeOK, EntriesInv, CacheEntry
  <2> QED BY <2>1, PendingFinite
<1> QED BY <1>1 DEF CacheSound, CacheInv, CallsInv, EntriesInv, GetsInv
==============================================================================
