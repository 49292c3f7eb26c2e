------------------------- MODULE PregelEngineProofs -------------------------
(***************************************************************************)
(* Proofs about PregelEngine for every set of graphs and channels and      *)
(* every limit: what the channels hold is what the successful tasks wrote, *)
(* the checkpointer never holds half a superstep, and in a graph without   *)
(* cycles a fan-in waits for all its predecessors.                         *)
(***************************************************************************)
EXTENDS PregelEngine, FiniteSetTheorems, SequenceTheorems, TLAPS

-----------------------------------------------------------------------------
(* The inductive invariant.                                                *)

\* The number of supersteps whose writes have been applied.
Applied == IF pc = "save" THEN step + 1 ELSE step

\* The goroutines of a superstep have ended before the loop goes on, and
\* there is one for each task only.
TasksInv ==
    /\ pc # "exec" => \A n \in Node : task[n] \in {"none", "done"}
    /\ \A n \in Node : n \notin tasks => task[n] \in {"none", "done"}

\* A backoff comes before an attempt that is still allowed.
RetryInv == \A n \in Node : fn[n] = "backoff" => attempt[n] < MaxAttempts

\* Until it ends, Run has sent no error, and its counter is the number of
\* supersteps it has committed.
LoopInv ==
    /\ pc # "ended" => err = "none"
    /\ pc # "ended" => Len(committed) = Applied
    /\ pc = "input" => step = 0 /\ wrote = {} /\ channels = Empty
    /\ pc \in {"exec", "save"} => step < RecursionLimit
    /\ pc = "save" => committed[step + 1] = channels

\* Every checkpoint on its way is one of the supersteps.
CommittedSteps == {Committed[j] : j \in DOMAIN committed}
SavedInv ==
    /\ \A i \in DOMAIN store : store[i] \in CommittedSteps
    /\ \A i \in DOMAIN deferred : deferred[i] \in CommittedSteps
    /\ saves \subseteq CommittedSteps

\* How far the store is behind: the superstep to be saved.
BehindBy(s) ==
    IF pc = "save" THEN Append(s, Committed[Len(committed)]) = Committed
                   ELSE s = Committed

SyncInv ==
    durability = "sync" =>
        /\ deferred = <<>> /\ saves = {} /\ ~saveErr
        /\ pc # "ended" => BehindBy(store)
        /\ pc = "ended" => \/ store = Committed
                           \/ Append(store, Committed[Len(committed)]) = Committed

ExitInv ==
    durability = "exit" =>
        /\ saves = {}
        /\ pc \notin {"exit", "ended"} =>
              store = <<>> /\ ~saveErr /\ BehindBy(deferred)
        /\ pc = "exit" /\ ~saveErr => store \o deferred = Committed
        /\ pc = "ended" /\ err = "none" => store = Committed

StoreInv == SavedInv /\ SyncInv /\ ExitInv

\* Nothing that was written is of a superstep to come.
AuthorsInv ==
    pc # "ended" =>
        /\ \A w \in wrote : w.step < Applied
        /\ \A c \in Channel : \A i \in DOMAIN channels[c] :
              channels[c][i].node # None => channels[c][i].step < Applied

IInv == TypeOK /\ TasksInv /\ RetryInv /\ LoopInv /\ StoreInv /\ AuthorsInv
          /\ ChannelsReflectResults

-----------------------------------------------------------------------------
(* What is known of an execution of a graph without cycles in the mode     *)
(* NodeTriggerAllPredecessor.                                              *)

Succeeded == {w.node : w \in wrote}

DagInv ==
    g.mode = "all" =>
        /\ completedTasks \subseteq g.nodes /\ tasks \subseteq g.nodes
        /\ err # "writes" => completedTasks = Succeeded
        /\ \A v \in wrote, w \in wrote : v.node = w.node => v = w
        /\ pc = "exec" => /\ tasks \cap completedTasks = {}
                          /\ \A n \in tasks : incomingEdges(n) \subseteq completedTasks
        /\ pc \in {"output", "exit"} /\ g.entry # End => completedTasks = g.nodes
        /\ DagRunsInOrder

-----------------------------------------------------------------------------
(* The order of names, in which applyWrites takes the results.             *)

LEMMA RankFacts ==
    /\ Len(NodeNames) \in Nat
    /\ \A n \in Node : Rank(n) \in 1 .. Len(NodeNames) /\ NodeNames[Rank(n)] = n
<1>1. \A n \in Node : \E i \in 1 .. Len(NodeNames) : NodeNames[i] = n
  BY EngineAssumption DEF EngineAssumption
<1>2. Len(NodeNames) \in Nat
  BY EngineAssumption DEF EngineAssumption
<1> QED BY <1>1, <1>2 DEF Rank

LEMMA NodesFinite == IsFiniteSet(Node)
<1> DEFINE rank == [n \in Node |-> Rank(n)]
<1>1. rank \in Injection(Node, 1 .. Len(NodeNames))
  BY RankFacts DEF Injection, IsInjective
<1>2. IsFiniteSet(1 .. Len(NodeNames))
  BY FS_Interval, RankFacts
<1> QED BY <1>1, <1>2, FS_Injection

\* Sorted lists each member of a set of nodes once, in the order of names:
\* the places of the members are the numbers from 1 to their number.
LEMMA SortedFacts ==
    ASSUME NEW W \in SUBSET Node
    PROVE  /\ Cardinality(W) \in Nat
           /\ DOMAIN Sorted(W) = 1 .. Cardinality(W)
           /\ \A k \in DOMAIN Sorted(W) : Sorted(W)[k] \in W
           /\ \A n \in W : \E k \in DOMAIN Sorted(W) : Sorted(W)[k] = n
           /\ \A i \in DOMAIN Sorted(W), j \in DOMAIN Sorted(W) :
                 i < j => Rank(Sorted(W)[i]) < Rank(Sorted(W)[j])
<1> DEFINE UpTo(n) == {m \in W : Rank(m) <= Rank(n)}
           place == [n \in W |-> Place(n, W)]
<1> HIDE DEF place
<1>1. IsFiniteSet(W) /\ Cardinality(W) \in Nat
  BY NodesFinite, FS_Subset, FS_CardinalityType
<1>2. \A n \in W : IsFiniteSet(UpTo(n)) /\ Cardinality(UpTo(n)) \in 1 .. Cardinality(W)
  <2> TAKE n \in W
  <2>1. UpTo(n) \in SUBSET W /\ n \in UpTo(n)
    BY RankFacts
  <2>2. IsFiniteSet(UpTo(n)) /\ Cardinality(UpTo(n)) <= Cardinality(W)
    BY <1>1, <2>1, FS_Subset
  <2>3. Cardinality(UpTo(n)) \in Nat /\ Cardinality(UpTo(n)) # 0
    BY <2>1, <2>2, FS_CardinalityType, FS_EmptySet
  <2> QED BY <1>1, <2>2, <2>3
<1>3. \A n \in W : place[n] = Cardinality(UpTo(n)) /\ place[n] = Place(n, W)
  BY DEF place, Place
<1>4. \A n \in W, m \in W : Rank(n) < Rank(m) => place[n] < place[m]
  <2> SUFFICES ASSUME NEW n \in W, NEW m \in W, Rank(n) < Rank(m)
               PROVE  place[n] < place[m]
    OBVIOUS
  <2>1. UpTo(n) \in SUBSET UpTo(m)
    BY RankFacts
  <2>2. m \in UpTo(m) /\ m \notin UpTo(n)
    BY RankFacts
  <2>3. Cardinality(UpTo(n)) <= Cardinality(UpTo(m))
        /\ Cardinality(UpTo(n)) # Cardinality(UpTo(m))
    BY <1>2, <2>1, <2>2, FS_Subset
  <2>4. Cardinality(UpTo(n)) \in Nat /\ Cardinality(UpTo(m)) \in Nat
    BY <1>1, <1>2
  <2> HIDE DEF UpTo
  <2> QED BY <1>3, <2>3, <2>4
<1>5. \A n \in W, m \in W : Rank(n) = Rank(m) => n = m
  BY RankFacts
<1> HIDE DEF UpTo
<1>6. place \in Injection(W, 1 .. Cardinality(W))
  <2>1. place \in [W -> 1 .. Cardinality(W)]
    BY <1>2, <1>3 DEF place
  <2>2. \A n \in W, m \in W : place[n] = place[m] => n = m
    <3> SUFFICES ASSUME NEW n \in W, NEW m \in W, place[n] = place[m]
                 PROVE  n = m
      OBVIOUS
    <3>1. place[n] \in Int /\ ~(place[n] < place[m]) /\ ~(place[m] < place[n])
      BY <1>1, <2>1
    <3>2. ~(Rank(n) < Rank(m)) /\ ~(Rank(m) < Rank(n))
      BY <1>4, <3>1
    <3> QED BY <1>5, <3>2, RankFacts
  <2> QED BY <2>1, <2>2 DEF Injection, IsInjective
<1>7. place \in Surjection(W, 1 .. Cardinality(W))
  <2>1. /\ IsFiniteSet(1 .. Cardinality(W))
        /\ Cardinality(1 .. Cardinality(W)) = Cardinality(W)
    BY <1>1, FS_Interval
  <2> QED BY <1>6, <2>1, FS_Injection
<1>8. \A k \in 1 .. Cardinality(W) : \E n \in W : Place(n, W) = k
  BY <1>3, <1>7 DEF Surjection
<1>9. \A k \in 1 .. Cardinality(W) :
         Sorted(W)[k] \in W /\ Place(Sorted(W)[k], W) = k
  BY <1>8 DEF Sorted
<1>10. DOMAIN Sorted(W) = 1 .. Cardinality(W)
  BY DEF Sorted
<1>11. \A n \in W : \E k \in DOMAIN Sorted(W) : Sorted(W)[k] = n
  <2> TAKE n \in W
  <2>1. Place(n, W) \in 1 .. Cardinality(W)
    BY <1>2, <1>3
  <2>2. place[Sorted(W)[Place(n, W)]] = place[n]
    BY <1>3, <1>9, <2>1
  <2>3. Sorted(W)[Place(n, W)] = n
    BY <1>6, <1>9, <2>1, <2>2 DEF Injection, IsInjective
  <2> QED BY <1>10, <2>1, <2>3
<1>12. \A i \in DOMAIN Sorted(W), j \in DOMAIN Sorted(W) :
          i < j => Rank(Sorted(W)[i]) < Rank(Sorted(W)[j])
  <2> SUFFICES ASSUME NEW i \in 1 .. Cardinality(W), NEW j \in 1 .. Cardinality(W),
                      i < j
               PROVE  Rank(Sorted(W)[i]) < Rank(Sorted(W)[j])
    BY <1>10
  <2>1. place[Sorted(W)[i]] = i /\ place[Sorted(W)[j]] = j
    BY <1>3, <1>9
  <2>2. Sorted(W)[i] \in W /\ Sorted(W)[j] \in W
    BY <1>9
  <2>3. ~(Rank(Sorted(W)[j]) < Rank(Sorted(W)[i]))
    BY <1>1, <1>4, <2>1, <2>2
  <2>4. Rank(Sorted(W)[i]) # Rank(Sorted(W)[j])
    BY <1>1, <1>5, <2>1, <2>2
  <2> QED BY <2>2, <2>3, <2>4, RankFacts
<1> QED BY <1>1, <1>9, <1>10, <1>11, <1>12

-----------------------------------------------------------------------------
(* Types.                                                                  *)

\* What a sequence is.
LEMMA FunctionIsSeq ==
    ASSUME NEW S, NEW n \in Nat, NEW f \in [1 .. n -> S]
    PROVE  f \in Seq(S)
  BY SeqDef

LEMMA ConstantFacts ==
    /\ RecursionLimit \in Nat /\ RecursionLimit > 0
    /\ MaxAttempts \in Nat /\ MaxAttempts > 0
    /\ CtxMayEnd \in BOOLEAN
    /\ End \notin Node /\ None \notin Node /\ End # None
    /\ Durabilities \subseteq {"none", "sync", "async", "exit"}
  BY EngineAssumption DEF EngineAssumption

LEMMA TypeFacts ==
    ASSUME TypeOK
    PROVE  /\ g \in Graphs /\ tasks \subseteq Node
           /\ step \in Nat /\ step <= RecursionLimit
           /\ channels \in Contents /\ committed \in Seq(Contents)
           /\ \A c \in Channel : channels[c] \in Value
           /\ Successful \subseteq tasks
<1>1. step \in 0 .. RecursionLimit /\ channels \in Contents /\ tasks \subseteq Node
      /\ g \in Graphs
  BY DEF TypeOK, LoopOK, TasksOK
<1>2. committed \in Seq(Contents)
  BY DEF TypeOK, HistoryOK
<1> QED BY <1>1, <1>2, ConstantFacts DEF Contents, Successful

LEMMA GraphFields ==
    ASSUME g \in Graphs
    PROVE  /\ g.nodes \subseteq Node
           /\ g.entry \in g.nodes \cup {End, None}
           /\ g.kind \in [Channel -> Kind]
           /\ g.triggers \in [Node -> SUBSET Channel]
           /\ g.writes \in [Node -> SUBSET Channel]
           /\ g.edges \in Seq(Node \X (Node \cup {End}))
           /\ \A i \in DOMAIN g.edges : g.edges[i][1] \in g.nodes
<1>1. g \in Graph
  BY EngineAssumption DEF EngineAssumption
<1> QED BY <1>1, EngineAssumption DEF EngineAssumption, Graph

\* applyWrites gives a channel one value of each successful task that wrote
\* to it, in the order of their names.
LEMMA ValuesFacts ==
    ASSUME TypeOK, NEW c \in Channel
    PROVE  /\ Values(c) \in Seq([node : Node, step : Nat])
           /\ \A k \in DOMAIN Values(c) :
                 Values(c)[k].step = step /\ Values(c)[k].node \in Successful
                 /\ c \in g.writes[Values(c)[k].node]
           /\ \A n \in Successful : c \in g.writes[n] =>
                 \E k \in DOMAIN Values(c) : Values(c)[k] = Author(n, step)
           /\ \A i \in DOMAIN Values(c), j \in DOMAIN Values(c) :
                 i < j => Rank(Values(c)[i].node) < Rank(Values(c)[j].node)
<1> DEFINE W == {n \in Successful : c \in g.writes[n]}
<1>1. W \in SUBSET Node /\ step \in Nat
  BY TypeFacts
<1>2. Values(c) = [k \in DOMAIN Sorted(W) |-> Author(Sorted(W)[k], step)]
  BY DEF Values, Written
<1>3. DOMAIN Values(c) = 1 .. Cardinality(W) /\ Cardinality(W) \in Nat
  BY <1>1, <1>2, SortedFacts
<1>4. \A k \in DOMAIN Values(c) : /\ Values(c)[k] = Author(Sorted(W)[k], step)
                                  /\ Sorted(W)[k] \in W
  BY <1>1, <1>2, SortedFacts
<1> HIDE DEF W
<1>5. \A k \in DOMAIN Values(c) : /\ Values(c)[k].node = Sorted(W)[k]
                                  /\ Values(c)[k].step = step
                                  /\ Values(c)[k] \in [node : Node, step : Nat]
  BY <1>1, <1>4 DEF Author
<1>6. Values(c) \in Seq([node : Node, step : Nat])
  <2>1. Values(c) \in [1 .. Cardinality(W) -> [node : Node, step : Nat]]
    BY <1>2, <1>3, <1>5
  <2> QED BY <1>3, <2>1, FunctionIsSeq
<1>7. \A n \in W : \E k \in DOMAIN Values(c) : Values(c)[k] = Author(n, step)
  BY <1>1, <1>2, <1>4, SortedFacts
<1>8. \A i \in DOMAIN Values(c), j \in DOMAIN Values(c) :
         i < j => Rank(Values(c)[i].node) < Rank(Values(c)[j].node)
  BY <1>1, <1>2, <1>5, SortedFacts
<1>9. \A k \in DOMAIN Values(c) :
         Values(c)[k].node \in Successful /\ c \in g.writes[Values(c)[k].node]
  BY <1>4, <1>5 DEF W
<1> QED BY <1>5, <1>6, <1>7, <1>8, <1>9 DEF W

LEMMA WrittenValue ==
    ASSUME TypeOK, NEW c \in Channel
    PROVE  Values(c) \in Value
<1>1. Values(c) \in Seq([node : Node, step : Nat])
  BY ValuesFacts
<1>2. [node : Node, step : Nat] \subseteq [node : Node \cup {None}, step : Nat]
  OBVIOUS
<1> QED BY <1>1, <1>2, SeqMonotonic DEF Value

LEMMA UpdateType ==
    ASSUME TypeOK, NEW c \in Channel, NEW values \in Value
    PROVE  Update(c, values) \in Value
<1>1. channels[c] \in Value
  BY TypeFacts
<1>2. channels[c] \o values \in Value
  BY <1>1 DEF Value
<1>3. values # <<>> => values[Len(values)] \in [node : Node \cup {None}, step : Nat]
  <2>1. values \in Seq([node : Node \cup {None}, step : Nat])
    BY DEF Value
  <2>2. values # <<>> => Len(values) \in 1 .. Len(values)
    BY <2>1, EmptySeq, LenProperties
  <2> QED BY <2>1, <2>2, ElementOfSeq
<1>4. values # <<>> => <<values[Len(values)]>> \in Value
  BY <1>3 DEF Value
<1> QED BY <1>1, <1>2, <1>4 DEF Update

LEMMA AfterGetType ==
    ASSUME NEW chs \in Contents, NEW cs
    PROVE  AfterGet(chs, cs) \in Contents
<1>1. Missing \in Value
  BY DEF Missing, Value
<1>2. \A c \in Channel : AfterGet(chs, cs)[c] \in Value
  BY <1>1 DEF AfterGet, Contents
<1>3. AfterGet(chs, cs) = [c \in Channel |-> AfterGet(chs, cs)[c]]
  BY DEF AfterGet
<1> QED BY <1>2, <1>3 DEF Contents

LEMMA EmptyType == Empty \in Contents
  BY DEF Empty, Contents, Missing, Value

LEMMA MissingType == Missing \in Value
  BY DEF Missing, Value

LEMMA InputType == <<Author(None, 0)>> \in Value
<1>1. Author(None, 0) \in [node : Node \cup {None}, step : Nat]
  BY DEF Author
<1> QED BY <1>1 DEF Value

LEMMA CheckpointIsTyped ==
    ASSUME TypeOK PROVE Checkpoint(step) \in CheckpointType
  BY TypeFacts DEF Checkpoint, CheckpointType

LEMMA TaskFrame == ASSUME TasksOK, UNCHANGED taskVars PROVE TasksOK'
  BY DEF TasksOK, taskVars

LEMMA SavedFrame == ASSUME SavedOK, UNCHANGED saveVars PROVE SavedOK'
  BY DEF SavedOK, saveVars

LEMMA HistoryFrame == ASSUME HistoryOK, UNCHANGED history PROVE HistoryOK'
  BY DEF HistoryOK, history

LEMMA TypeInit == ASSUME Init PROVE TypeOK
<1>0. 0 \in 0 .. RecursionLimit /\ 0 \in 0 .. MaxAttempts
  BY ConstantFacts
<1>1. LoopOK
  BY <1>0, EmptyType DEF Init, LoopOK
<1>2. TasksOK
  BY <1>0, EmptyType DEF Init, TasksOK
<1>3. SavedOK
  <2>1. <<>> \in Seq(CheckpointType)
    OBVIOUS
  <2>2. deferred = <<>> /\ store = <<>> /\ saves = {} /\ saveErr = FALSE
    BY DEF Init
  <2> QED BY <2>1, <2>2 DEF SavedOK
<1>4. HistoryOK
  BY DEF Init, HistoryOK
<1> QED BY <1>1, <1>2, <1>3, <1>4 DEF TypeOK

\* What the superstep loop works on.
LEMMA LoopType ==
    ASSUME TypeOK, LoopInv, Loop
    PROVE  LoopOK'
<1>b. ASSUME pc = "save" PROVE step + 1 \in 0 .. RecursionLimit
  <2>1. step < RecursionLimit
    BY <1>b DEF LoopInv
  <2> QED BY <2>1, ConstantFacts, TypeFacts
<1> USE DEF LoopOK
<1>0. LoopOK /\ channels \in Contents /\ step \in Nat /\ Successful \subseteq Node
  BY TypeFacts DEF TypeOK
<1>1. CASE applyInput
  <2>1. \A c \in Channel : Update(c, <<Author(None, 0)>>) \in Value
    BY InputType, UpdateType
  <2>2. CASE UNCHANGED channels /\ Fails("input")
    BY <1>0, <1>1, <2>2 DEF applyInput, Fails
  <2>3. CASE /\ channels' = [c \in Channel |->
                  IF c \in g.input THEN Update(c, <<Author(None, 0)>>) ELSE Missing]
             /\ pc' = "top" /\ UNCHANGED err
    <3>1. channels' \in Contents
      BY <2>1, <2>3, MissingType DEF Contents
    <3> QED BY <1>0, <1>1, <2>3, <3>1 DEF applyInput
  <2> QED BY <1>1, <2>2, <2>3 DEF applyInput
<1>2. CASE LoopEnds
  BY <1>0, <1>2 DEF LoopEnds, Fails, loopVars
<1>3. CASE prepareNextTasks
  <2>1. pc' \in {"output", "exec"}
    BY <1>3 DEF prepareNextTasks
  <2> QED BY <1>0, <1>3, <2>1 DEF prepareNextTasks, loopVars
<1>4. CASE AllFailed
  BY <1>0, <1>4 DEF AllFailed, Fails, loopVars
<1>5. CASE applyWritesFails
  <2>1. channels' \in Contents
    <3>1. PICK done \in SUBSET Channel : channels' =
             [c \in Channel |-> IF c \in done THEN Update(c, Values(c)) ELSE channels[c]]
      BY <1>5 DEF applyWritesFails
    <3>2. \A c \in Channel : Update(c, Values(c)) \in Value
      BY WrittenValue, UpdateType
    <3> QED BY <3>1, <3>2, TypeFacts DEF Contents
  <2> QED BY <1>0, <1>5, <2>1 DEF applyWritesFails, Completes, Fails
<1>6. CASE applyWrites
  <2>1. channels' \in Contents
    <3>1. [c \in Channel |-> Update(c, Values(c))] \in Contents
      BY WrittenValue, UpdateType DEF Contents
    <3> QED BY <1>6, <3>1, AfterGetType DEF applyWrites
  <2> QED BY <1>0, <1>6, <2>1 DEF applyWrites, Completes
<1>7. CASE SaveSync \/ SaveLater
  <2>1. pc = "save" /\ step + 1 \in 0 .. RecursionLimit
    BY <1>7, <1>b DEF SaveSync, SaveLater
  <2> QED BY <1>0, <1>7, <2>1 DEF SaveSync, SaveLater, NextStep, Fails
<1>8. CASE buildOutput
  BY <1>0, <1>8, AfterGetType DEF buildOutput
<1>9. CASE SaveDeferred \/ Finish
  BY <1>0, <1>9 DEF SaveDeferred, Finish, Fails, loopVars
<1> QED BY <1>1, <1>2, <1>3, <1>4, <1>5, <1>6, <1>7, <1>8, <1>9 DEF Loop

\* Its tasks, and what it has saved and done.
LEMMA LoopTasksType ==
    ASSUME TypeOK, Loop
    PROVE  TasksOK'
<1>1. CASE prepareNextTasks
  <2>1. PICK next \in NextTasks :
           /\ tasks' = next
           /\ task' = [n \in Node |-> IF n \in next THEN "spawned" ELSE "none"]
    BY <1>1 DEF prepareNextTasks
  <2>2. next \subseteq Node
    <3>1. g.nodes \subseteq Node /\ g.entry \in Node \cup {End, None}
      BY TypeFacts, GraphFields
    <3>2. CASE completedTasks = {}
      BY <1>1, <2>1, <3>1, <3>2 DEF prepareNextTasks, NextTasks
    <3>3. CASE completedTasks # {}
      BY <2>1, <3>1, <3>3 DEF NextTasks, prepareNextTasksDAG
    <3> QED BY <3>2, <3>3
  <2>3. /\ input' = input /\ fn' = fn /\ attempt' = attempt
        /\ result' = [n \in Node |-> "none"]
    BY <1>1 DEF prepareNextTasks
  <2> QED BY <2>1, <2>2, <2>3 DEF TypeOK, TasksOK
<1>2. CASE UNCHANGED taskVars
  BY <1>2, TaskFrame DEF TypeOK
<1> QED BY <1>1, <1>2
        DEF Loop, applyInput, LoopEnds, AllFailed, applyWritesFails, applyWrites,
            SaveSync, SaveLater, buildOutput, SaveDeferred, Finish

LEMMA LoopSavedType ==
    ASSUME TypeOK, Loop
    PROVE  SavedOK'
<1>0. Checkpoint(step) \in CheckpointType /\ SavedOK
  BY CheckpointIsTyped DEF TypeOK
<1>1. CASE SaveSync
  BY <1>0, <1>1, AppendProperties DEF SaveSync, Put, SavedOK
<1>2. CASE SaveLater
  BY <1>0, <1>2, AppendProperties DEF SaveLater, SavedOK
<1>3. CASE SaveDeferred
  <2>1. Head(deferred) \in CheckpointType /\ deferred' \in Seq(CheckpointType)
    BY <1>0, <1>3, HeadTailProperties DEF SaveDeferred, SavedOK
  <2>2. store' \in Seq(CheckpointType)
    <3>1. store \in Seq(CheckpointType)
      BY <1>0 DEF SavedOK
    <3>2. store' = store \/ store' = Append(store, Head(deferred))
      BY <1>3 DEF SaveDeferred, Put
    <3> QED BY <2>1, <3>1, <3>2, AppendProperties
  <2> QED BY <1>0, <1>3, <2>1, <2>2 DEF SaveDeferred, SavedOK
<1>4. CASE UNCHANGED saveVars
  BY <1>0, <1>4, SavedFrame
<1> QED BY <1>1, <1>2, <1>3, <1>4
        DEF Loop, applyInput, LoopEnds, prepareNextTasks, AllFailed,
            applyWritesFails, applyWrites, buildOutput, Finish

LEMMA LoopHistoryType ==
    ASSUME TypeOK, LoopOK', Loop
    PROVE  HistoryOK'
<1>1. CASE applyWrites
  <2>1. committed' \in Seq(Contents)
    BY <1>1, TypeFacts, AppendProperties DEF applyWrites, LoopOK
  <2>2. {Author(n, step) : n \in Successful} \subseteq [node : Node, step : Nat]
    BY TypeFacts DEF Author
  <2> QED BY <1>1, <2>1, <2>2 DEF applyWrites, TypeOK, HistoryOK
<1>2. CASE UNCHANGED history
  BY <1>2, HistoryFrame DEF TypeOK
<1> QED BY <1>1, <1>2
        DEF Loop, applyInput, LoopEnds, prepareNextTasks, AllFailed,
            applyWritesFails, SaveSync, SaveLater, buildOutput, SaveDeferred, Finish

\* The tasks.
LEMMA TaskType ==
    ASSUME TypeOK, RetryInv, NEW n \in Node, Task(n)
    PROVE  TypeOK'
<1>0. LoopOK /\ TasksOK /\ SavedOK /\ HistoryOK /\ UNCHANGED <<saveVars, history>>
  BY DEF TypeOK, Task, readTaskInput, ClearRead, NodeReturns, Retry, TaskEnds
<1>1. SavedOK' /\ HistoryOK'
  BY <1>0, SavedFrame, HistoryFrame
<1>2. LoopOK'
  <2>1. CASE ClearRead(n)
    BY <1>0, <2>1, TypeFacts, AfterGetType DEF ClearRead, LoopOK
  <2>2. CASE UNCHANGED <<g, durability, pc, loopVars, ctxDone, err>>
    BY <1>0, <2>2 DEF LoopOK, loopVars
  <2> QED BY <2>1, <2>2 DEF Task, readTaskInput, NodeReturns, Retry, TaskEnds
<1>3. TasksOK'
  <2>0. 1 \in 0 .. MaxAttempts
    BY ConstantFacts
  <2>1. CASE readTaskInput(n)
    <3>1. [c \in Channel |-> IF c \in g.triggers[n] THEN channels[c] ELSE Missing]
             \in Contents
      BY TypeFacts, MissingType DEF Contents
    <3> QED BY <1>0, <2>0, <2>1, <3>1 DEF readTaskInput, Starts, TasksOK
  <2>2. CASE ClearRead(n)
    BY <1>0, <2>0, <2>2 DEF ClearRead, Starts, TasksOK
  <2>3. CASE NodeReturns(n)
    BY <1>0, <2>3 DEF NodeReturns, TasksOK
  <2>4. CASE Retry(n)
    <3>1. attempt[n] + 1 \in 0 .. MaxAttempts
      BY <1>0, <2>4, ConstantFacts DEF Retry, RetryInv, TasksOK
    <3> QED BY <1>0, <2>4, <3>1 DEF Retry, TasksOK
  <2>5. CASE TaskEnds(n)
    BY <1>0, <2>5 DEF TaskEnds, TasksOK
  <2> QED BY <2>1, <2>2, <2>3, <2>4, <2>5 DEF Task
<1> QED BY <1>1, <1>2, <1>3 DEF TypeOK

\* The saving goroutines and the caller.
LEMMA OtherType ==
    ASSUME TypeOK, AsyncSave \/ CancelCtx \/ UNCHANGED vars
    PROVE  TypeOK'
<1>1. UNCHANGED <<g, durability, pc, loopVars, taskVars, err, history>>
  BY DEF AsyncSave, CancelCtx, vars
<1>2. LoopOK'
  BY <1>1 DEF TypeOK, LoopOK, loopVars, AsyncSave, CancelCtx, vars
<1>3. SavedOK'
  <2>1. CASE AsyncSave
    <3>1. PICK cp \in saves : saves' = saves \ {cp} /\ (Put(cp) \/ UNCHANGED store)
      BY <2>1 DEF AsyncSave
    <3>2. store' \in Seq(CheckpointType)
      BY <3>1, AppendProperties DEF Put, TypeOK, SavedOK
    <3> QED BY <2>1, <3>1, <3>2 DEF AsyncSave, TypeOK, SavedOK
  <2>2. CASE UNCHANGED saveVars
    BY <2>2, SavedFrame DEF TypeOK
  <2> QED BY <2>1, <2>2 DEF CancelCtx, vars
<1> QED BY <1>1, <1>2, <1>3, TaskFrame, HistoryFrame DEF TypeOK

\* Every step preserves the types.
LEMMA TypeNext == ASSUME TypeOK, RetryInv, LoopInv, [Next]_vars PROVE TypeOK'
<1>1. CASE Loop
  BY <1>1, LoopType, LoopTasksType, LoopSavedType, LoopHistoryType DEF TypeOK
<1>2. ASSUME NEW n \in Node, Task(n) PROVE TypeOK'
  BY <1>2, TaskType
<1>3. CASE AsyncSave \/ CancelCtx \/ UNCHANGED vars
  BY <1>3, OtherType
<1> QED BY <1>1, <1>2, <1>3 DEF Next

-----------------------------------------------------------------------------
(* The goroutines of a superstep and the counter of supersteps.            *)

\* A task that does anything is one of the superstep that is executed.
LEMMA TaskRuns ==
    ASSUME TasksInv, NEW n \in Node,
           readTaskInput(n) \/ ClearRead(n) \/ TaskEnds(n)
    PROVE  pc = "exec" /\ n \in tasks
  BY DEF TasksInv, readTaskInput, ClearRead, TaskEnds

LEMMA TasksNext ==
    ASSUME TypeOK, TasksInv, [Next]_vars
    PROVE  TasksInv'
<1>0. TasksOK
  BY DEF TypeOK
<1>1. CASE prepareNextTasks
  <2>1. PICK next : /\ tasks' = next
                    /\ task' = [n \in Node |-> IF n \in next THEN "spawned" ELSE "none"]
                    /\ pc' = IF next = {} THEN "output" ELSE "exec"
    BY <1>1 DEF prepareNextTasks
  <2> QED BY <2>1 DEF TasksInv
<1>2. CASE AllFailed \/ applyWritesFails \/ applyWrites
  <2>1. UNCHANGED <<tasks, task>> /\ \A n \in tasks : task[n] = "done"
    BY <1>2 DEF AllFailed, applyWritesFails, applyWrites, Completes, WaitAll, taskVars
  <2> QED BY <2>1 DEF TasksInv
<1>3. CASE applyInput \/ LoopEnds \/ SaveSync \/ SaveLater \/ buildOutput
             \/ SaveDeferred \/ Finish
  <2>1. UNCHANGED <<tasks, task>> /\ pc # "exec"
    BY <1>3 DEF applyInput, LoopEnds, SaveSync, SaveLater, buildOutput, SaveDeferred,
                Finish, taskVars
  <2> QED BY <2>1 DEF TasksInv
<1>4. ASSUME NEW n \in Node, readTaskInput(n) \/ ClearRead(n) \/ TaskEnds(n)
      PROVE  TasksInv'
  <2>1. pc = "exec" /\ n \in tasks
    BY <1>4, TaskRuns
  <2>2. UNCHANGED <<tasks, pc>> /\ \A m \in Node \ {n} : task'[m] = task[m]
    BY <1>0, <1>4 DEF readTaskInput, ClearRead, TaskEnds, Starts, TasksOK
  <2> QED BY <2>1, <2>2 DEF TasksInv
<1>5. ASSUME NEW n \in Node, NodeReturns(n) \/ Retry(n) PROVE TasksInv'
  BY <1>5 DEF TasksInv, NodeReturns, Retry
<1>6. CASE AsyncSave \/ CancelCtx \/ UNCHANGED vars
  BY <1>6 DEF TasksInv, AsyncSave, CancelCtx, vars, taskVars
<1> QED BY <1>1, <1>2, <1>3, <1>4, <1>5, <1>6 DEF Next, Loop, Task

LEMMA RetryNext ==
    ASSUME TypeOK, RetryInv, [Next]_vars
    PROVE  RetryInv'
<1>0. fn \in [Node -> {"idle", "running", "backoff", "ok", "failed"}]
      /\ attempt \in [Node -> 0 .. MaxAttempts]
  BY DEF TypeOK, TasksOK
<1>1. CASE UNCHANGED <<fn, attempt>>
  BY <1>1 DEF RetryInv
<1>2. ASSUME NEW n \in Node, readTaskInput(n) \/ ClearRead(n) PROVE RetryInv'
  <2>1. CASE UNCHANGED <<fn, attempt>>
    BY <1>1, <2>1
  <2>2. CASE Starts(n)
    BY <1>0, <2>2 DEF RetryInv, Starts
  <2> QED BY <1>2, <2>1, <2>2 DEF readTaskInput, ClearRead
<1>3. ASSUME NEW n \in Node, NodeReturns(n) PROVE RetryInv'
  BY <1>0, <1>3 DEF RetryInv, NodeReturns
<1>4. ASSUME NEW n \in Node, Retry(n) PROVE RetryInv'
  BY <1>0, <1>4 DEF RetryInv, Retry
<1>5. ASSUME NEW n \in Node, TaskEnds(n) PROVE RetryInv'
  BY <1>1, <1>5 DEF TaskEnds
<1> QED BY <1>1, <1>2, <1>3, <1>4, <1>5
        DEF Next, Loop, Task, applyInput, LoopEnds, prepareNextTasks, AllFailed,
            applyWritesFails, applyWrites, SaveSync, SaveLater, buildOutput,
            SaveDeferred, Finish, AsyncSave, CancelCtx, vars, taskVars

LEMMA LoopInvNext ==
    ASSUME TypeOK, TasksInv, LoopInv, [Next]_vars
    PROVE  LoopInv'
<1>0. step \in Nat /\ committed \in Seq(Contents) /\ Len(committed) \in Nat
  BY TypeFacts
<1> USE DEF LoopInv, Applied
<1>1. CASE applyInput
  BY <1>1 DEF applyInput, Fails, history
<1>2. CASE LoopEnds \/ AllFailed \/ applyWritesFails
  BY <1>2 DEF LoopEnds, AllFailed, applyWritesFails, Fails
<1>3. CASE prepareNextTasks
  BY <1>3 DEF prepareNextTasks, loopVars, history
<1>4. CASE applyWrites
  <2>1. Len(committed) = step /\ step < RecursionLimit
    BY <1>4 DEF applyWrites, Completes, WaitAll
  <2>2. channels' \in Contents
    BY <1>4, LoopType DEF Loop, LoopOK
  <2>3. Len(committed') = step + 1 /\ committed'[step + 1] = channels'
    BY <1>0, <1>4, <2>1, <2>2, AppendProperties DEF applyWrites
  <2> QED BY <1>4, <2>1, <2>3 DEF applyWrites, Completes, WaitAll
<1>5. CASE SaveSync \/ SaveLater
  BY <1>0, <1>5 DEF SaveSync, SaveLater, NextStep, Fails, history
<1>6. CASE buildOutput
  BY <1>6 DEF buildOutput, history
<1>7. CASE SaveDeferred \/ Finish
  BY <1>7 DEF SaveDeferred, Finish, Fails, loopVars, history
<1>8. ASSUME NEW n \in Node, Task(n) PROVE LoopInv'
  <2>1. UNCHANGED <<pc, step, err, committed, wrote>>
    BY <1>8 DEF Task, readTaskInput, ClearRead, NodeReturns, Retry, TaskEnds,
                loopVars, history
  <2>2. pc # "exec" => UNCHANGED channels
    BY <1>8, TaskRuns DEF Task, readTaskInput, NodeReturns, Retry, TaskEnds, loopVars
  <2> QED BY <2>1, <2>2
<1>9. CASE AsyncSave \/ CancelCtx \/ UNCHANGED vars
  BY <1>9 DEF AsyncSave, CancelCtx, vars, loopVars, history
<1> QED BY <1>1, <1>2, <1>3, <1>4, <1>5, <1>6, <1>7, <1>8, <1>9 DEF Next, Loop

-----------------------------------------------------------------------------
(* Saving.                                                                 *)

LEMMA CommittedFacts ==
    ASSUME TypeOK
    PROVE  /\ Committed \in Seq(CheckpointType)
           /\ Len(Committed) = Len(committed) /\ Len(committed) \in Nat
           /\ DOMAIN committed = 1 .. Len(committed)
           /\ DOMAIN Committed = 1 .. Len(committed)
           /\ \A i \in 1 .. Len(committed) :
                 Committed[i] = [step |-> i - 1, channels |-> committed[i]]
<1>1. /\ committed \in Seq(Contents) /\ Len(committed) \in Nat
      /\ DOMAIN committed = 1 .. Len(committed)
      /\ \A i \in 1 .. Len(committed) : committed[i] \in Contents
  BY TypeFacts
<1>2. Committed \in [1 .. Len(committed) -> CheckpointType]
  BY <1>1 DEF Committed, CheckpointType
<1>3. Committed \in Seq(CheckpointType)
  BY <1>1, <1>2, FunctionIsSeq
<1> QED BY <1>1, <1>2, <1>3 DEF Committed

\* A superstep adds itself to what is committed.
LEMMA CommittedGrows ==
    ASSUME TypeOK, LoopInv, applyWrites, TypeOK'
    PROVE  /\ Committed' = Append(Committed, Committed'[Len(committed')])
           /\ CommittedSteps \subseteq CommittedSteps'
<1> DEFINE new == Committed'[Len(committed')]
<1>1. committed' = Append(committed, channels') /\ Len(committed') = Len(committed) + 1
      /\ \A i \in 1 .. Len(committed) : committed'[i] = committed[i]
  <2>1. channels' \in Contents
    BY DEF TypeOK, LoopOK
  <2> QED BY <2>1, TypeFacts, AppendProperties DEF applyWrites
<1>2. /\ Committed' \in Seq(CheckpointType) /\ Len(Committed') = Len(committed')
      /\ DOMAIN committed' = 1 .. Len(committed')
      /\ \A i \in 1 .. Len(committed') :
            Committed'[i] = [step |-> i - 1, channels |-> committed'[i]]
  <2>1. /\ committed' \in Seq(Contents) /\ Len(committed') \in Nat
        /\ DOMAIN committed' = 1 .. Len(committed')
        /\ \A i \in 1 .. Len(committed') : committed'[i] \in Contents
    BY DEF TypeOK, HistoryOK
  <2>2. Committed' \in [1 .. Len(committed') -> CheckpointType]
    BY <2>1 DEF Committed, CheckpointType
  <2>3. Committed' \in Seq(CheckpointType)
    BY <2>1, <2>2, FunctionIsSeq
  <2> QED BY <2>1, <2>2, <2>3 DEF Committed
<1>3. /\ Committed \in Seq(CheckpointType) /\ Len(Committed) = Len(committed)
      /\ Len(committed) \in Nat /\ DOMAIN committed = 1 .. Len(committed)
      /\ \A i \in 1 .. Len(committed) :
            Committed[i] = [step |-> i - 1, channels |-> committed[i]]
  BY CommittedFacts
<1>4. \A i \in 1 .. Len(committed) : Committed'[i] = Committed[i]
  BY <1>1, <1>2, <1>3
<1>5. Committed' = Append(Committed, new)
  <2>1. new \in CheckpointType
    BY <1>1, <1>2, <1>3
  <2>2. /\ Append(Committed, new) \in Seq(CheckpointType)
        /\ Len(Append(Committed, new)) = Len(committed) + 1
        /\ \A i \in 1 .. Len(committed) : Append(Committed, new)[i] = Committed[i]
        /\ Append(Committed, new)[Len(committed) + 1] = new
    BY <1>3, <2>1, AppendProperties
  <2>3. \A i \in 1 .. Len(committed) + 1 : Append(Committed, new)[i] = Committed'[i]
    BY <1>1, <1>3, <1>4, <2>2
  <2> HIDE DEF new
  <2> QED BY <1>1, <1>2, <2>2, <2>3, SeqEqual
<1>6. CommittedSteps \subseteq CommittedSteps'
  BY <1>1, <1>2, <1>3, <1>4 DEF CommittedSteps
<1> QED BY <1>5, <1>6

\* What is saved at the end of a superstep is that superstep.
LEMMA CheckpointIsLast ==
    ASSUME TypeOK, LoopInv, pc = "save"
    PROVE  /\ Checkpoint(step) \in CommittedSteps
           /\ Checkpoint(step) = Committed[Len(committed)]
<1>1. Len(committed) = step + 1 /\ committed[step + 1] = channels /\ step \in Nat
  BY TypeFacts DEF LoopInv, Applied
<1> QED BY <1>1, CommittedFacts DEF Checkpoint, CommittedSteps

\* Steps that save nothing and finish no superstep.
LEMMA StoreKeeps ==
    ASSUME TypeOK, StoreInv, UNCHANGED <<durability, saveVars, committed>>,
           \/ UNCHANGED <<pc, err>>
           \/ pc # "save" /\ pc' = "ended" /\ err' # "none"
           \/ pc \in {"input", "top"} /\ pc' \in {"top", "exec", "output"}
           \/ pc = "output" /\ pc' = "exit"
           \/ Finish
    PROVE  StoreInv'
<1>0. /\ deferred' = deferred /\ saveErr' = saveErr /\ saves' = saves
      /\ store' = store /\ Committed' = Committed
  BY DEF saveVars, Committed
<1>1. SavedInv'
  BY <1>0 DEF StoreInv, SavedInv, CommittedSteps
<1>2. SyncInv'
  BY <1>0 DEF StoreInv, SyncInv, BehindBy, Finish, Fails
<1>3. ExitInv'
  <2>1. CASE UNCHANGED <<pc, err>>
    BY <1>0, <2>1 DEF StoreInv, ExitInv, BehindBy
  <2>2. CASE pc # "save" /\ pc' = "ended" /\ err' # "none"
    BY <1>0, <2>2 DEF StoreInv, ExitInv
  <2>3. CASE pc \in {"input", "top"} /\ pc' \in {"top", "exec", "output"}
    BY <1>0, <2>3 DEF StoreInv, ExitInv, BehindBy
  <2>4. CASE pc = "output" /\ pc' = "exit"
    <3>1. durability = "exit" => store = <<>> /\ deferred = Committed
      BY <2>4 DEF StoreInv, ExitInv, BehindBy
    <3>2. <<>> \o Committed = Committed
      BY CommittedFacts, ConcatEmptySeq
    <3> QED BY <1>0, <2>4, <3>1, <3>2 DEF StoreInv, ExitInv
  <2>5. CASE Finish
    <3>1. pc = "exit" /\ pc' = "ended" /\ deferred = <<>>
          /\ (err' = "none" => ~saveErr)
      BY <2>5 DEF Finish, Fails
    <3>2. store \o <<>> = store
      BY ConcatEmptySeq DEF TypeOK, SavedOK
    <3> QED BY <1>0, <3>1, <3>2 DEF StoreInv, ExitInv
  <2> QED BY <2>1, <2>2, <2>3, <2>4, <2>5
<1> QED BY <1>1, <1>2, <1>3 DEF StoreInv

\* A superstep is finished: the store is one behind.
LEMMA StoreApply ==
    ASSUME TypeOK, LoopInv, StoreInv, applyWrites, TypeOK'
    PROVE  StoreInv'
<1>0. /\ deferred' = deferred /\ saveErr' = saveErr /\ saves' = saves
      /\ store' = store /\ durability' = durability /\ err' = err
      /\ pc = "exec" /\ pc' = "save"
  BY DEF applyWrites, Completes, WaitAll, saveVars
<1>1. /\ Committed' = Append(Committed, Committed'[Len(committed')])
      /\ CommittedSteps \subseteq CommittedSteps'
  BY CommittedGrows
<1>2. SavedInv'
  BY <1>0, <1>1 DEF StoreInv, SavedInv
<1>3. SyncInv'
  BY <1>0, <1>1 DEF StoreInv, SyncInv, BehindBy
<1>4. ExitInv'
  BY <1>0, <1>1 DEF StoreInv, ExitInv, BehindBy
<1> QED BY <1>2, <1>3, <1>4 DEF StoreInv

\* What an appended checkpoint leaves in place.
LEMMA AppendIn ==
    ASSUME NEW S, NEW s \in Seq(CheckpointType), NEW cp \in CheckpointType,
           cp \in S, \A i \in DOMAIN s : s[i] \in S
    PROVE  \A i \in DOMAIN Append(s, cp) : Append(s, cp)[i] \in S
  OBVIOUS

LEMMA StoreSync ==
    ASSUME TypeOK, LoopInv, StoreInv, SaveSync
    PROVE  StoreInv'
<1>0. /\ pc = "save" /\ durability = "sync" /\ UNCHANGED <<deferred, saveErr, saves, durability>>
      /\ UNCHANGED <<Committed, CommittedSteps, committed>>
  BY DEF SaveSync, history, Committed, CommittedSteps
<1>1. /\ Checkpoint(step) \in CommittedSteps /\ Checkpoint(step) = Committed[Len(committed)]
      /\ Checkpoint(step) \in CheckpointType
      /\ store \in Seq(CheckpointType)
  BY <1>0, CheckpointIsLast, CheckpointIsTyped DEF TypeOK, SavedOK
<1>2. Append(store, Checkpoint(step)) = Committed
  BY <1>0, <1>1 DEF StoreInv, SyncInv, BehindBy
<1>3. CASE store' = Append(store, Checkpoint(step)) /\ pc' = "top"
  <2>1. \A i \in DOMAIN store' : store'[i] \in CommittedSteps
    BY <1>1, <1>3, AppendIn DEF StoreInv, SavedInv
  <2> QED BY <1>0, <1>2, <1>3, <2>1
          DEF StoreInv, SavedInv, SyncInv, ExitInv, BehindBy
<1>4. CASE store' = store /\ pc' = "ended"
  BY <1>0, <1>1, <1>2, <1>4 DEF StoreInv, SavedInv, SyncInv, ExitInv
<1> QED BY <1>3, <1>4 DEF SaveSync, Put, NextStep, Fails

LEMMA StoreLater ==
    ASSUME TypeOK, LoopInv, StoreInv, SaveLater
    PROVE  StoreInv'
<1>0. /\ pc = "save" /\ pc' = "top" /\ durability # "sync" /\ durability' = durability
      /\ UNCHANGED <<Committed, CommittedSteps, committed, store, saveErr>>
  BY DEF SaveLater, NextStep, history, Committed, CommittedSteps
<1>1. /\ Checkpoint(step) \in CommittedSteps /\ Checkpoint(step) = Committed[Len(committed)]
      /\ Checkpoint(step) \in CheckpointType
      /\ deferred \in Seq(CheckpointType)
  BY <1>0, CheckpointIsLast, CheckpointIsTyped DEF TypeOK, SavedOK
<1>2. SavedInv'
  <2>1. saves' \subseteq CommittedSteps
    BY <1>1 DEF SaveLater, StoreInv, SavedInv
  <2>2. \A i \in DOMAIN deferred' : deferred'[i] \in CommittedSteps
    <3>1. deferred' = deferred \/ deferred' = Append(deferred, Checkpoint(step))
      BY DEF SaveLater
    <3>2. \A i \in DOMAIN deferred : deferred[i] \in CommittedSteps
      BY DEF StoreInv, SavedInv
    <3> QED BY <1>1, <3>1, <3>2, AppendIn
  <2> QED BY <1>0, <2>1, <2>2 DEF StoreInv, SavedInv
<1>3. SyncInv'
  BY <1>0 DEF SyncInv
<1>4. ExitInv'
  BY <1>0, <1>1 DEF SaveLater, StoreInv, ExitInv, BehindBy
<1> QED BY <1>2, <1>3, <1>4 DEF StoreInv

LEMMA StoreAsync ==
    ASSUME TypeOK, StoreInv, AsyncSave
    PROVE  StoreInv'
<1>0. /\ UNCHANGED <<pc, durability, deferred, saveErr, err>>
      /\ UNCHANGED <<Committed, CommittedSteps, committed>>
  BY DEF AsyncSave, history, Committed, CommittedSteps
<1>1. PICK cp \in saves : saves' = saves \ {cp} /\ (Put(cp) \/ UNCHANGED store)
  BY DEF AsyncSave
<1>2. cp \in CommittedSteps /\ cp \in CheckpointType /\ store \in Seq(CheckpointType)
  BY <1>1 DEF StoreInv, SavedInv, TypeOK, SavedOK
<1>3. \A i \in DOMAIN store' : store'[i] \in CommittedSteps
  BY <1>1, <1>2, AppendIn DEF Put, StoreInv, SavedInv
<1>4. durability # "sync" /\ durability # "exit"
  BY <1>1 DEF StoreInv, SyncInv, ExitInv
<1> QED BY <1>0, <1>1, <1>3, <1>4 DEF StoreInv, SavedInv, SyncInv, ExitInv

LEMMA StoreDeferred ==
    ASSUME TypeOK, StoreInv, SaveDeferred
    PROVE  StoreInv'
<1>0. /\ UNCHANGED <<pc, durability, saves, err>> /\ pc = "exit"
      /\ UNCHANGED <<Committed, CommittedSteps, committed>>
  BY DEF SaveDeferred, history, Committed, CommittedSteps
<1> DEFINE cp == Head(deferred)
<1>1. /\ store \in Seq(CheckpointType) /\ deferred \in Seq(CheckpointType)
      /\ deferred # <<>> /\ deferred' = Tail(deferred)
  BY DEF SaveDeferred, TypeOK, SavedOK
<1>2. /\ cp \in CheckpointType /\ Tail(deferred) \in Seq(CheckpointType)
      /\ Append(store, cp) \o Tail(deferred) = store \o deferred
      /\ cp = deferred[1] /\ 1 \in DOMAIN deferred
      /\ \A i \in DOMAIN Tail(deferred) : /\ i + 1 \in DOMAIN deferred
                                          /\ Tail(deferred)[i] = deferred[i + 1]
  BY <1>1
<1>3. SavedInv'
  <2>1. /\ \A i \in DOMAIN deferred : deferred[i] \in CommittedSteps
        /\ \A i \in DOMAIN store : store[i] \in CommittedSteps
    BY DEF StoreInv, SavedInv
  <2>2. \A i \in DOMAIN deferred' : deferred'[i] \in CommittedSteps
    BY <1>1, <1>2, <2>1
  <2>3. \A i \in DOMAIN store' : store'[i] \in CommittedSteps
    <3>1. store' = store \/ store' = Append(store, cp)
      BY DEF SaveDeferred, Put
    <3> QED BY <1>1, <1>2, <2>1, <3>1, AppendIn
  <2> QED BY <1>0, <2>2, <2>3 DEF StoreInv, SavedInv
<1>4. SyncInv'
  BY <1>0, <1>1 DEF StoreInv, SyncInv
<1>5. ExitInv'
  <2>1. ASSUME durability = "exit", ~saveErr' PROVE store' \o deferred' = Committed
    <3>1. ~saveErr /\ store' = Append(store, cp)
      BY <1>1, <2>1 DEF SaveDeferred, Put, TypeOK, SavedOK
    <3> QED BY <1>0, <1>1, <1>2, <2>1, <3>1 DEF StoreInv, ExitInv
  <2> QED BY <1>0, <2>1 DEF StoreInv, ExitInv
<1> QED BY <1>3, <1>4, <1>5 DEF StoreInv

LEMMA StoreNext ==
    ASSUME TypeOK, LoopInv, StoreInv, [Next]_vars, TypeOK'
    PROVE  StoreInv'
<1>1. CASE applyWrites
  BY <1>1, StoreApply
<1>2. CASE SaveSync
  BY <1>2, StoreSync
<1>3. CASE SaveLater
  BY <1>3, StoreLater
<1>4. CASE AsyncSave
  BY <1>4, StoreAsync
<1>5. CASE SaveDeferred
  BY <1>5, StoreDeferred
<1>6. CASE applyInput \/ LoopEnds \/ prepareNextTasks \/ AllFailed
             \/ applyWritesFails \/ buildOutput \/ Finish
  <2>1. UNCHANGED <<durability, saveVars, committed>>
    BY <1>6 DEF applyInput, LoopEnds, prepareNextTasks, AllFailed,
                applyWritesFails, buildOutput, Finish, history
  <2>2. \/ pc # "save" /\ pc' = "ended" /\ err' # "none"
        \/ pc \in {"input", "top"} /\ pc' \in {"top", "exec", "output"}
        \/ pc = "output" /\ pc' = "exit"
        \/ Finish
    BY <1>6 DEF applyInput, LoopEnds, prepareNextTasks, AllFailed, Completes,
                WaitAll, applyWritesFails, buildOutput, Fails
  <2> QED BY <2>1, <2>2, StoreKeeps
<1>7. ASSUME CancelCtx \/ UNCHANGED vars \/ \E n \in Node : Task(n) PROVE StoreInv'
  <2>1. UNCHANGED <<durability, saveVars, committed, pc, err>>
    BY <1>7 DEF CancelCtx, vars, history, Task, readTaskInput, ClearRead,
                NodeReturns, Retry, TaskEnds
  <2> QED BY <2>1, StoreKeeps
<1> QED BY <1>1, <1>2, <1>3, <1>4, <1>5, <1>6, <1>7 DEF Next, Loop

-----------------------------------------------------------------------------
(* What the channels hold.                                                 *)

LEMMA AuthorFacts ==
    ASSUME NEW n, NEW s PROVE Author(n, s).node = n /\ Author(n, s).step = s
  BY DEF Author

\* An update keeps what a channel held or replaces it with what was written.
LEMMA UpdateMembers ==
    ASSUME TypeOK, NEW c \in Channel, NEW values \in Value,
           NEW i \in DOMAIN Update(c, values)
    PROVE  \/ \E j \in DOMAIN channels[c] : Update(c, values)[i] = channels[c][j]
           \/ \E j \in DOMAIN values : Update(c, values)[i] = values[j]
<1>1. channels[c] \in Value
  BY TypeFacts
<1>2. CASE values = <<>>
  BY <1>2 DEF Update
<1>3. CASE values # <<>> /\ g.kind[c] = "acc"
  <2>1. Update(c, values) = channels[c] \o values
    BY <1>3 DEF Update
  <2>2. /\ Len(channels[c]) \in Nat /\ Len(values) \in Nat
        /\ DOMAIN channels[c] = 1 .. Len(channels[c])
        /\ DOMAIN values = 1 .. Len(values)
        /\ DOMAIN (channels[c] \o values) = 1 .. (Len(channels[c]) + Len(values))
        /\ (channels[c] \o values)[i] = IF i <= Len(channels[c]) THEN channels[c][i]
                                         ELSE values[i - Len(channels[c])]
    BY <1>1, <2>1 DEF Value
  <2>3. CASE i <= Len(channels[c])
    BY <2>1, <2>2, <2>3
  <2>4. CASE ~(i <= Len(channels[c]))
    <3>1. i - Len(channels[c]) \in DOMAIN values
      BY <2>1, <2>2, <2>4
    <3> QED BY <2>1, <2>2, <2>4, <3>1
  <2> QED BY <2>3, <2>4
<1>4. CASE values # <<>> /\ g.kind[c] # "acc"
  <2>1. Update(c, values) = <<values[Len(values)]>>
    BY <1>4 DEF Update
  <2>2. i = 1 /\ Len(values) \in DOMAIN values
    <3>1. Len(values) \in Nat \ {0} /\ DOMAIN values = 1 .. Len(values)
      BY <1>4, EmptySeq, LenProperties DEF Value
    <3>2. DOMAIN <<values[Len(values)]>> = {1}
      OBVIOUS
    <3> QED BY <2>1, <3>1, <3>2
  <2> QED BY <2>1, <2>2
<1> QED BY <1>2, <1>3, <1>4

\* A read clears an ephemeral channel and leaves the others alone.
LEMMA AfterGetFacts ==
    ASSUME NEW chs, NEW cs, NEW c \in Channel
    PROVE  /\ AfterGet(chs, cs)[c] \in {chs[c], <<>>}
           /\ g.kind[c] # "ephemeral" => AfterGet(chs, cs)[c] = chs[c]
  BY DEF AfterGet, Missing

\* The channels after applyWrites.
LEMMA AppliedWrites ==
    ASSUME TypeOK, applyWrites, NEW c \in Channel
    PROVE  /\ channels'[c] \in {Update(c, Values(c)), <<>>}
           /\ g.kind[c] # "ephemeral" => channels'[c] = Update(c, Values(c))
<1>1. channels' = AfterGet([d \in Channel |-> Update(d, Values(d))], Channel)
  BY DEF applyWrites
<1> QED BY <1>1, AfterGetFacts

LEMMA AuthorsNext ==
    ASSUME TypeOK, TasksInv, LoopInv, AuthorsInv, [Next]_vars
    PROVE  AuthorsInv'
<1>0. step \in Nat
  BY TypeFacts
<1>1. CASE applyInput
  <2>1. wrote' = {} /\ channels = Empty /\ step' = step /\ step = 0
    BY <1>1 DEF LoopInv, applyInput, history
  <2>2. CASE pc' = "ended"
    BY <2>2 DEF AuthorsInv
  <2>3. CASE pc' # "ended"
    <3>1. channels' = [c \in Channel |->
              IF c \in g.input THEN Update(c, <<Author(None, 0)>>) ELSE Missing]
      BY <1>1, <2>3 DEF applyInput, Fails
    <3>2. ASSUME NEW c \in Channel, NEW i \in DOMAIN channels'[c]
          PROVE  channels'[c][i].node = None
      <4>1. CASE c \in g.input
        <5>1. channels'[c] = Update(c, <<Author(None, 0)>>)
          BY <3>1, <4>1
        <5>2. channels[c] = <<>> /\ DOMAIN channels[c] = {}
          BY <2>1 DEF Empty, Missing
        <5>3. DOMAIN <<Author(None, 0)>> = {1}
          OBVIOUS
        <5>4. channels'[c][i] = Author(None, 0)
          BY <3>2, <5>1, <5>2, <5>3, InputType, UpdateMembers
        <5> QED BY <5>4, AuthorFacts
      <4>2. CASE c \notin g.input
        BY <3>1, <3>2, <4>2 DEF Missing
      <4> QED BY <4>1, <4>2
    <3> QED BY <2>1, <3>2 DEF AuthorsInv
  <2> QED BY <2>2, <2>3
<1>2. CASE applyWrites
  <2>1. /\ Applied' = step + 1 /\ Applied = step /\ pc = "exec"
        /\ wrote' = wrote \cup {Author(n, step) : n \in Successful}
    BY <1>2 DEF applyWrites, Completes, WaitAll, Applied
  <2>2. /\ \A w \in wrote : w.step < step
        /\ \A c \in Channel : \A i \in DOMAIN channels[c] :
              channels[c][i].node # None => channels[c][i].step < step
    BY <2>1 DEF AuthorsInv
  <2>3. \A w \in wrote' : w.step < step + 1
    <3>1. \A w \in wrote : w.step \in Nat
      BY DEF TypeOK, HistoryOK
    <3> QED BY <1>0, <2>1, <2>2, <3>1, AuthorFacts
  <2>4. ASSUME NEW c \in Channel, NEW i \in DOMAIN channels'[c],
               channels'[c][i].node # None
        PROVE  channels'[c][i].step < step + 1
    <3>1. channels'[c] = Update(c, Values(c))
      BY <1>2, <2>4, AppliedWrites
    <3>2. \/ \E j \in DOMAIN channels[c] : channels'[c][i] = channels[c][j]
          \/ \E j \in DOMAIN Values(c) : channels'[c][i] = Values(c)[j]
      BY <2>4, <3>1, UpdateMembers, WrittenValue
    <3>3. ASSUME NEW j \in DOMAIN channels[c], channels'[c][i] = channels[c][j]
          PROVE  channels'[c][i].step < step + 1
      <4>1. channels[c] \in Seq([node : Node \cup {None}, step : Nat])
        BY TypeFacts DEF Value
      <4>2. channels[c][j] \in [node : Node \cup {None}, step : Nat]
        BY <4>1, LenProperties, ElementOfSeq
      <4> QED BY <1>0, <2>2, <2>4, <3>3, <4>2
    <3>4. ASSUME NEW j \in DOMAIN Values(c), channels'[c][i] = Values(c)[j]
          PROVE  channels'[c][i].step < step + 1
      BY <1>0, <3>4, ValuesFacts
    <3> QED BY <3>2, <3>3, <3>4
  <2> QED BY <2>1, <2>3, <2>4 DEF AuthorsInv
<1>3. CASE \/ LoopEnds \/ prepareNextTasks \/ AllFailed \/ applyWritesFails
           \/ SaveSync \/ SaveLater \/ SaveDeferred \/ Finish \/ AsyncSave
           \/ CancelCtx \/ UNCHANGED vars
  <2>1. CASE pc' = "ended"
    BY <2>1 DEF AuthorsInv
  <2>2. CASE pc' # "ended"
    <3>1. Applied' = Applied /\ UNCHANGED <<channels, wrote>>
      BY <1>3, <2>2 DEF LoopEnds, prepareNextTasks, AllFailed, applyWritesFails,
            SaveSync, SaveLater, SaveDeferred, Finish, AsyncSave, CancelCtx,
            NextStep, Fails, Completes, WaitAll, Applied, vars, loopVars, history
    <3>2. pc # "ended"
      BY <1>3, <2>2 DEF LoopEnds, prepareNextTasks, AllFailed, applyWritesFails,
            SaveSync, SaveLater, SaveDeferred, Finish, AsyncSave, CancelCtx,
            Completes, WaitAll, vars
    <3> QED BY <3>1, <3>2 DEF AuthorsInv
  <2> QED BY <2>1, <2>2
<1>4. ASSUME buildOutput \/ \E n \in Node : Task(n) PROVE AuthorsInv'
  <2>1. Applied' = Applied /\ UNCHANGED wrote /\ (pc' # "ended" => pc # "ended")
    BY <1>4 DEF buildOutput, Task, readTaskInput, ClearRead, NodeReturns, Retry,
                TaskEnds, Applied, loopVars, history
  <2>2. \A c \in Channel : channels'[c] \in {channels[c], <<>>}
    <3>1. \/ UNCHANGED channels
          \/ \E cs : channels' = AfterGet(channels, cs)
      BY <1>4 DEF buildOutput, Task, readTaskInput, ClearRead, NodeReturns, Retry,
                  TaskEnds, loopVars
    <3>2. CASE UNCHANGED channels
      BY <3>2
    <3>3. ASSUME NEW cs, channels' = AfterGet(channels, cs)
          PROVE  \A c \in Channel : channels'[c] \in {channels[c], <<>>}
      BY <3>3, AfterGetFacts
    <3> QED BY <3>1, <3>2, <3>3
  <2> QED BY <2>1, <2>2 DEF AuthorsInv
<1> QED BY <1>1, <1>2, <1>3, <1>4 DEF Next, Loop

\* A superstep's values follow everything that is in an aggregating channel.
LEMMA AppendBatch ==
    ASSUME NEW s \in Value, NEW t \in Seq([node : Node, step : Nat]), NEW k \in Nat,
           \A i \in DOMAIN s : s[i].node # None => s[i].step < k,
           \A i \in DOMAIN t : t[i].step = k,
           \A i \in DOMAIN t, j \in DOMAIN t :
              i < j => Rank(t[i].node) < Rank(t[j].node),
           \A j \in DOMAIN s, i \in DOMAIN s : i < j => Before(s[i], s[j])
    PROVE  /\ \A j \in DOMAIN (s \o t), i \in DOMAIN (s \o t) :
                 i < j => Before((s \o t)[i], (s \o t)[j])
           /\ {(s \o t)[i] : i \in {j \in DOMAIN (s \o t) : (s \o t)[j].node # None}}
                = {s[i] : i \in {j \in DOMAIN s : s[j].node # None}}
                    \cup {t[i] : i \in DOMAIN t}
<1> DEFINE u == s \o t
           m == Len(s)
<1>1. /\ m \in Nat /\ DOMAIN s = 1 .. m
      /\ Len(t) \in Nat /\ DOMAIN t = 1 .. Len(t)
      /\ DOMAIN u = 1 .. (m + Len(t))
      /\ \A i \in DOMAIN u : u[i] = IF i <= m THEN s[i] ELSE t[i - m]
  BY DEF Value
<1>2. \A i \in DOMAIN u : \/ i \in DOMAIN s /\ i <= m /\ u[i] = s[i]
                          \/ i - m \in DOMAIN t /\ i > m /\ u[i] = t[i - m]
  BY <1>1
<1>3. /\ \A i \in DOMAIN s : i \in DOMAIN u /\ u[i] = s[i]
      /\ \A i \in DOMAIN t : i + m \in DOMAIN u /\ u[i + m] = t[i]
  BY <1>1
<1>4. \A i \in DOMAIN t : t[i].node \in Node /\ t[i].node # None
  <2> TAKE i \in DOMAIN t
  <2>1. t[i] \in [node : Node, step : Nat]
    BY <1>1, ElementOfSeq
  <2> QED BY <2>1, ConstantFacts
<1> HIDE DEF u, m
<1>5. ASSUME NEW j \in DOMAIN u, NEW i \in DOMAIN u, i < j
      PROVE  Before(u[i], u[j])
  <2>0. i \in Int /\ j \in Int
    BY <1>1
  <2>1. CASE j \in DOMAIN s /\ j <= m /\ u[j] = s[j]
    <3>1. i \in DOMAIN s /\ u[i] = s[i]
      BY <1>1, <1>2, <1>5, <2>0, <2>1
    <3> QED BY <1>5, <2>1, <3>1
  <2>2. CASE j - m \in DOMAIN t /\ j > m /\ u[j] = t[j - m]
    <3>1. CASE i \in DOMAIN s /\ u[i] = s[i]
      BY <2>2, <3>1 DEF Before
    <3>2. CASE i - m \in DOMAIN t /\ i > m /\ u[i] = t[i - m]
      <4>1. i - m < j - m
        BY <1>1, <1>5, <2>0
      <4> QED BY <2>2, <3>2, <4>1 DEF Before
    <3> QED BY <1>2, <3>1, <3>2
  <2> QED BY <1>2, <2>1, <2>2
<1>6. {u[i] : i \in {j \in DOMAIN u : u[j].node # None}}
        = {s[i] : i \in {j \in DOMAIN s : s[j].node # None}} \cup {t[i] : i \in DOMAIN t}
  <2>1. ASSUME NEW i \in DOMAIN u, u[i].node # None
        PROVE  u[i] \in {s[x] : x \in {j \in DOMAIN s : s[j].node # None}}
                          \cup {t[x] : x \in DOMAIN t}
    BY <1>2, <2>1
  <2>2. ASSUME NEW i \in DOMAIN s, s[i].node # None
        PROVE  \E x \in DOMAIN u : u[x].node # None /\ u[x] = s[i]
    BY <1>3, <2>2
  <2>3. ASSUME NEW i \in DOMAIN t
        PROVE  \E x \in DOMAIN u : u[x].node # None /\ u[x] = t[i]
    BY <1>3, <1>4
  <2> QED BY <2>1, <2>2, <2>3
<1> QED BY <1>5, <1>6 DEF u

\* What a superstep adds to the writes of a channel is what Values lists.
LEMMA WritesGrow ==
    ASSUME TypeOK, applyWrites, NEW c \in Channel
    PROVE  WritesTo(c)' = WritesTo(c) \cup {Values(c)[k] : k \in DOMAIN Values(c)}
<1>1. g' = g /\ wrote' = wrote \cup {Author(n, step) : n \in Successful}
  BY DEF applyWrites
<1>2. ASSUME NEW k \in DOMAIN Values(c)
      PROVE  /\ Values(c)[k] \in {Author(n, step) : n \in Successful}
             /\ c \in g.writes[Values(c)[k].node]
  <2>1. /\ Values(c)[k].step = step /\ Values(c)[k].node \in Successful
        /\ c \in g.writes[Values(c)[k].node]
    BY ValuesFacts
  <2>2. Values(c)[k] \in [node : Node, step : Nat]
    BY ValuesFacts, LenProperties, ElementOfSeq
  <2>3. Values(c)[k] = Author(Values(c)[k].node, step)
    BY <2>1, <2>2 DEF Author
  <2> QED BY <2>1, <2>3
<1>3. ASSUME NEW n \in Successful, c \in g.writes[Author(n, step).node]
      PROVE  Author(n, step) \in {Values(c)[k] : k \in DOMAIN Values(c)}
  BY <1>3, AuthorFacts, ValuesFacts
<1> QED BY <1>1, <1>2, <1>3 DEF WritesTo

LEMMA ReflectApply ==
    ASSUME TypeOK, LoopInv, AuthorsInv, ChannelsReflectResults, applyWrites
    PROVE  ChannelsReflectResults'
<1>0. /\ pc = "exec" /\ err = "none" /\ g' = g /\ Applied = step /\ step \in Nat
      /\ wrote \subseteq [node : Node, step : Nat]
  BY TypeFacts DEF applyWrites, Completes, WaitAll, LoopInv, Applied, TypeOK, HistoryOK
<1>1. ASSUME NEW c \in Channel, g.kind[c] = "acc"
      PROVE  /\ WritesTo(c)' = {channels'[c][i] : i \in
                    {j \in DOMAIN channels'[c] : channels'[c][j].node # None}}
             /\ \A j \in DOMAIN channels'[c], i \in DOMAIN channels'[c] :
                   i < j => Before(channels'[c][i], channels'[c][j])
  <2>1. channels'[c] = channels[c] \o Values(c)
    <3>1. channels'[c] = Update(c, Values(c)) /\ channels[c] \in Value
      BY <1>1, AppliedWrites, TypeFacts
    <3>2. channels[c] \o <<>> = channels[c]
      BY <3>1, ConcatEmptySeq DEF Value
    <3> QED BY <1>1, <3>1, <3>2 DEF Update
  <2>2. /\ WritesTo(c) = {channels[c][i] : i \in
                 {j \in DOMAIN channels[c] : channels[c][j].node # None}}
        /\ \A j \in DOMAIN channels[c], i \in DOMAIN channels[c] :
              i < j => Before(channels[c][i], channels[c][j])
    BY <1>0, <1>1 DEF ChannelsReflectResults
  <2>3. /\ channels[c] \in Value /\ Values(c) \in Seq([node : Node, step : Nat])
        /\ \A i \in DOMAIN channels[c] :
              channels[c][i].node # None => channels[c][i].step < step
        /\ \A i \in DOMAIN Values(c) : Values(c)[i].step = step
        /\ \A i \in DOMAIN Values(c), j \in DOMAIN Values(c) :
              i < j => Rank(Values(c)[i].node) < Rank(Values(c)[j].node)
    BY <1>0, ValuesFacts, TypeFacts DEF AuthorsInv
  <2>4. /\ \A j \in DOMAIN channels'[c], i \in DOMAIN channels'[c] :
              i < j => Before(channels'[c][i], channels'[c][j])
        /\ {channels'[c][i] : i \in
               {j \in DOMAIN channels'[c] : channels'[c][j].node # None}}
             = {channels[c][i] : i \in {j \in DOMAIN channels[c] : channels[c][j].node # None}}
                 \cup {Values(c)[i] : i \in DOMAIN Values(c)}
    <3> DEFINE s == channels[c]
               t == Values(c)
    <3>1. /\ s \in Value /\ t \in Seq([node : Node, step : Nat])
          /\ \A i \in DOMAIN s : s[i].node # None => s[i].step < step
          /\ \A i \in DOMAIN t : t[i].step = step
          /\ \A i \in DOMAIN t, j \in DOMAIN t :
                i < j => Rank(t[i].node) < Rank(t[j].node)
          /\ \A j \in DOMAIN s, i \in DOMAIN s : i < j => Before(s[i], s[j])
      BY <2>2, <2>3
    <3> HIDE DEF s, t
    <3>2. /\ \A j \in DOMAIN (s \o t), i \in DOMAIN (s \o t) :
                i < j => Before((s \o t)[i], (s \o t)[j])
          /\ {(s \o t)[i] : i \in {j \in DOMAIN (s \o t) : (s \o t)[j].node # None}}
               = {s[i] : i \in {j \in DOMAIN s : s[j].node # None}}
                   \cup {t[i] : i \in DOMAIN t}
      BY <1>0, <3>1, AppendBatch
    <3>3. channels'[c] = s \o t
      BY <2>1 DEF s, t
    <3>4. /\ \A j \in DOMAIN channels'[c], i \in DOMAIN channels'[c] :
                i < j => Before(channels'[c][i], channels'[c][j])
          /\ {channels'[c][i] : i \in
                 {j \in DOMAIN channels'[c] : channels'[c][j].node # None}}
               = {s[i] : i \in {j \in DOMAIN s : s[j].node # None}}
                   \cup {t[i] : i \in DOMAIN t}
      BY <3>2, <3>3
    <3> QED BY <3>4 DEF s, t
  <2> QED BY <2>2, <2>4, WritesGrow
<1>2. ASSUME NEW c \in Channel, g.kind[c] = "last", NEW w \in WritesTo(c)'
      PROVE  channels'[c] # Missing /\ channels'[c][1].step >= w.step
  <2>1. channels'[c] = Update(c, Values(c)) /\ channels[c] \in Value
    BY <1>2, AppliedWrites, TypeFacts
  <2>2. CASE Values(c) = <<>>
    <3>1. w \in WritesTo(c)
      BY <1>2, <2>2, WritesGrow
    <3> QED BY <1>0, <1>2, <2>1, <2>2, <3>1 DEF ChannelsReflectResults, Update
  <2>3. CASE Values(c) # <<>>
    <3>1. channels'[c] = <<Values(c)[Len(Values(c))]>>
      BY <1>2, <2>1, <2>3 DEF Update
    <3>2. Len(Values(c)) \in DOMAIN Values(c)
      BY <2>3, ValuesFacts, EmptySeq, LenProperties
    <3>3. channels'[c][1].step = step
      BY <3>1, <3>2, ValuesFacts
    <3>4. w.step \in Nat /\ w.step <= step
      <4>1. CASE w \in WritesTo(c)
        <5>1. w.step \in Nat /\ w.step < step
          BY <1>0, <4>1 DEF WritesTo, AuthorsInv
        <5> QED BY <1>0, <5>1
      <4>2. CASE w \in {Values(c)[k] : k \in DOMAIN Values(c)}
        BY <1>0, <4>2, ValuesFacts
      <4> QED BY <1>2, <4>1, <4>2, WritesGrow
    <3> QED BY <1>0, <3>1, <3>3, <3>4 DEF Missing
  <2> QED BY <2>2, <2>3
<1> QED BY <1>0, <1>1, <1>2 DEF ChannelsReflectResults

LEMMA ReflectNext ==
    ASSUME TypeOK, TasksInv, LoopInv, AuthorsInv, ChannelsReflectResults, [Next]_vars
    PROVE  ChannelsReflectResults'
<1>1. CASE applyInput
  <2>1. CASE None \in g.input
    <3>1. err = "none" /\ UNCHANGED <<g, channels, wrote>>
      BY <1>1, <2>1 DEF LoopInv, applyInput, history
    <3>2. \A c \in Channel : WritesTo(c)' = WritesTo(c)
      BY <3>1 DEF WritesTo
    <3> QED BY <3>1, <3>2 DEF ChannelsReflectResults
  <2>2. CASE None \notin g.input
    <3>1. /\ wrote' = {} /\ channels = Empty /\ g' = g
          /\ channels' = [c \in Channel |->
                IF c \in g.input THEN Update(c, <<Author(None, 0)>>) ELSE Missing]
      BY <1>1, <2>2 DEF LoopInv, applyInput, history
    <3>2. \A c \in Channel : channels'[c] \in {<<Author(None, 0)>>, <<>>}
      <4> TAKE c \in Channel
      <4>1. channels[c] = <<>> /\ <<Author(None, 0)>> # <<>>
            /\ <<>> \o <<Author(None, 0)>> = <<Author(None, 0)>>
            /\ Len(<<Author(None, 0)>>) = 1
        BY <3>1 DEF Empty, Missing
      <4>2. Update(c, <<Author(None, 0)>>) = <<Author(None, 0)>>
        BY <4>1 DEF Update
      <4> QED BY <3>1, <4>2 DEF Missing
    <3>3. ASSUME NEW c \in Channel
          PROVE  /\ DOMAIN channels'[c] \subseteq {1}
                 /\ \A i \in DOMAIN channels'[c] : channels'[c][i].node = None
      <4>1. DOMAIN <<Author(None, 0)>> = {1} /\ DOMAIN <<>> = {}
            /\ <<Author(None, 0)>>[1].node = None
        BY AuthorFacts
      <4>2. CASE channels'[c] = <<Author(None, 0)>>
        BY <4>1, <4>2
      <4>3. CASE channels'[c] = <<>>
        BY <4>1, <4>3
      <4> QED BY <3>2, <4>2, <4>3
    <3>4. \A c \in Channel : WritesTo(c)' = {}
      BY <3>1 DEF WritesTo
    <3> QED BY <3>3, <3>4 DEF ChannelsReflectResults
  <2> QED BY <2>1, <2>2
<1>2. CASE applyWrites
  BY <1>2, ReflectApply
<1>3. CASE applyWritesFails
  BY <1>3 DEF applyWritesFails, Fails, ChannelsReflectResults
<1>4. CASE \/ LoopEnds \/ prepareNextTasks \/ AllFailed \/ SaveSync \/ SaveLater
           \/ SaveDeferred \/ Finish \/ AsyncSave \/ CancelCtx \/ UNCHANGED vars
           \/ buildOutput \/ \E n \in Node : Task(n)
  <2>1. UNCHANGED <<g, wrote>> /\ (err' # "writes" => err # "writes")
    BY <1>4 DEF LoopInv, LoopEnds, prepareNextTasks, AllFailed, SaveSync, SaveLater,
          SaveDeferred, Finish, AsyncSave, CancelCtx, buildOutput, NextStep, Fails,
          WaitAll, vars, history, Task, readTaskInput, ClearRead, NodeReturns,
          Retry, TaskEnds
  <2>2. ASSUME NEW c \in Channel, g.kind[c] # "ephemeral"
        PROVE  channels'[c] = channels[c]
    <3>1. \/ UNCHANGED channels
          \/ \E cs : channels' = AfterGet(channels, cs)
      BY <1>4 DEF LoopEnds, prepareNextTasks, AllFailed, SaveSync, SaveLater,
            SaveDeferred, Finish, AsyncSave, CancelCtx, buildOutput, vars, loopVars,
            Task, readTaskInput, ClearRead, NodeReturns, Retry, TaskEnds
    <3>2. CASE UNCHANGED channels
      BY <3>2
    <3>3. ASSUME NEW cs, channels' = AfterGet(channels, cs)
          PROVE  channels'[c] = channels[c]
      BY <2>2, <3>3, AfterGetFacts
    <3> QED BY <3>1, <3>2, <3>3
  <2>3. \A c \in Channel : WritesTo(c)' = WritesTo(c)
    BY <2>1 DEF WritesTo
  <2>4. \A c \in Channel : g.kind[c] \in {"acc", "last"} => channels'[c] = channels[c]
    BY <2>2
  <2>5. CASE err' = "writes"
    BY <2>5 DEF ChannelsReflectResults
  <2>6. CASE err' # "writes"
    <3>1. g' = g /\ err # "writes"
      BY <2>1, <2>6
    <3>2. ASSUME NEW c \in Channel, g.kind[c] = "acc"
          PROVE  /\ WritesTo(c)' = {channels'[c][i] : i \in
                      {j \in DOMAIN channels'[c] : channels'[c][j].node # None}}
                 /\ \A j \in DOMAIN channels'[c], i \in DOMAIN channels'[c] :
                       i < j => Before(channels'[c][i], channels'[c][j])
      BY <2>3, <2>4, <3>1, <3>2 DEF ChannelsReflectResults
    <3>3. ASSUME NEW c \in Channel, g.kind[c] = "last", NEW w \in WritesTo(c)'
          PROVE  channels'[c] # Missing /\ channels'[c][1].step >= w.step
      BY <2>3, <2>4, <3>1, <3>3 DEF ChannelsReflectResults
    <3> QED BY <3>1, <3>2, <3>3 DEF ChannelsReflectResults
  <2> QED BY <2>5, <2>6
<1> QED BY <1>1, <1>2, <1>3, <1>4 DEF Next, Loop

-----------------------------------------------------------------------------
(* The invariant, and what follows from it.                                *)

LEMMA InitInv == ASSUME Init PROVE IInv
<1>1. TypeOK
  BY TypeInit
<1>2. TasksInv /\ RetryInv
  BY DEF Init, TasksInv, RetryInv
<1>3. LoopInv
  <2>1. pc = "input" /\ Len(committed) = 0 /\ step = 0 /\ wrote = {} /\ channels = Empty
        /\ err = "none"
    BY DEF Init
  <2> QED BY <2>1 DEF LoopInv, Applied
<1>4. StoreInv
  <2>1. Committed = <<>>
    <3>1. Committed \in Seq(CheckpointType) /\ Len(Committed) = 0
      BY <1>1, CommittedFacts DEF Init
    <3> QED BY <3>1, EmptySeq
  <2>2. /\ pc = "input" /\ store = <<>> /\ deferred = <<>> /\ saves = {} /\ ~saveErr
    BY DEF Init
  <2> QED BY <2>1, <2>2 DEF StoreInv, SavedInv, SyncInv, ExitInv, BehindBy
<1>5. \A c \in Channel : channels[c] = <<>>
  BY DEF Init, Empty, Missing
<1>6. AuthorsInv
  BY <1>5 DEF Init, AuthorsInv
<1>7. ChannelsReflectResults
  BY <1>5 DEF Init, ChannelsReflectResults, WritesTo
<1> QED BY <1>1, <1>2, <1>3, <1>4, <1>6, <1>7 DEF IInv

LEMMA NextInv == ASSUME IInv, [Next]_vars PROVE IInv'
<1> USE DEF IInv
<1>1. TypeOK'
  BY TypeNext
<1>2. TasksInv' /\ RetryInv' /\ LoopInv'
  BY TasksNext, RetryNext, LoopInvNext
<1>3. StoreInv'
  BY <1>1, StoreNext
<1>4. AuthorsInv' /\ ChannelsReflectResults'
  BY AuthorsNext, ReflectNext
<1> QED BY <1>1, <1>2, <1>3, <1>4

\* The invariant holds in every reachable state, for all graphs, ways of
\* saving, recursion limits and numbers of attempts (Engine.Run).
THEOREM Invariant == Spec => []IInv
<1>1. Init => IInv
  BY InitInv
<1>2. IInv /\ [Next]_vars => IInv'
  BY NextInv
<1> QED BY <1>1, <1>2, PTL DEF Spec

\* The engine's variables are well typed: no superstep is counted past the
\* recursion limit and no node attempted more often than MaxAttempts.
THEOREM TypeCorrect == Spec => []TypeOK
<1>1. IInv => TypeOK
  BY DEF IInv
<1> QED BY <1>1, Invariant, PTL

\* The checkpointer never holds half a superstep; a synchronous one lags by
\* at most the superstep being saved, a deferred one is empty until the exit
\* and complete after a run without error (saveCheckpoint,
\* saveDeferredCheckpoints).
THEOREM CheckpointsAreWhole == Spec => []StoreHoldsSteps
<1>1. IInv => StoreHoldsSteps
  <2> SUFFICES ASSUME IInv PROVE StoreHoldsSteps
    OBVIOUS
  <2> USE DEF IInv, StoreInv
  <2>1. \A i \in DOMAIN store : \E j \in DOMAIN committed : store[i] = Committed[j]
    BY DEF SavedInv, CommittedSteps
  <2>2. durability = "sync" =>
          \/ store = Committed
          \/ pc \in {"save", "ended"} /\ Append(store, Committed[Len(committed)]) = Committed
    BY DEF SyncInv, BehindBy
  <2>3. durability = "exit" => /\ store # <<>> => pc \in {"exit", "ended"}
                               /\ pc = "ended" /\ err = "none" => store = Committed
    BY DEF ExitInv
  <2> QED BY <2>1, <2>2, <2>3 DEF StoreHoldsSteps
<1> QED BY <1>1, Invariant, PTL

\* Whatever the order in which the tasks of a superstep end, the channels
\* hold what the successful ones wrote, once and in order (applyWrites).
THEOREM ChannelsHoldResults == Spec => []ChannelsReflectResults
<1>1. IInv => ChannelsReflectResults
  BY DEF IInv
<1> QED BY <1>1, Invariant, PTL

-----------------------------------------------------------------------------
(* Graphs whose nodes wait for all their predecessors.                     *)

LEMMA IncomingFacts ==
    ASSUME g \in Graphs, NEW n, NEW p \in incomingEdges(n)
    PROVE  p \in g.nodes /\ HasEdge(g, p, n)
<1>1. PICK i \in DOMAIN g.edges : g.edges[i][2] = n /\ g.edges[i][1] = p
  BY DEF incomingEdges
<1>2. g.edges[i] \in Node \X (Node \cup {End}) /\ g.edges[i][1] \in g.nodes
  BY GraphFields, LenProperties, ElementOfSeq
<1>3. g.edges[i] = <<p, n>>
  BY <1>1, <1>2
<1> QED BY <1>1, <1>2, <1>3 DEF HasEdge

\* The search for nodes whose predecessors have completed finds one as long
\* as there is one left to run.
LEMMA DagProceeds ==
    ASSUME DagsAreAcyclic, g \in Graphs, g.mode = "all", prepareNextTasksDAG = {}
    PROVE  g.nodes \subseteq completedTasks
<1> DEFINE S == g.nodes \ completedTasks
<1>1. SUFFICES ASSUME S # {} PROVE FALSE
  OBVIOUS
<1>2. PICK n \in S : \A p \in S : ~HasEdge(g, p, n)
  BY <1>1 DEF DagsAreAcyclic
<1>3. incomingEdges(n) \subseteq completedTasks
  BY <1>2, IncomingFacts
<1> QED BY <1>2, <1>3 DEF prepareNextTasksDAG

\* The tasks of the next superstep wait for nobody and have not completed.
LEMMA DagPrepare ==
    ASSUME DagsAreAcyclic, IInv, DagInv, g.mode = "all", prepareNextTasks
    PROVE  /\ tasks' \subseteq g.nodes /\ tasks' \cap completedTasks = {}
           /\ \A n \in tasks' : incomingEdges(n) \subseteq completedTasks
           /\ tasks' = {} /\ g.entry # End => completedTasks = g.nodes
<1>1. g \in Graphs /\ g.entry \in g.nodes \cup {End, None}
  BY TypeFacts, GraphFields DEF IInv
<1>2. tasks' \in NextTasks
  BY DEF prepareNextTasks
<1>3. CASE completedTasks = {}
  <2>1. tasks' = {g.entry} \ {End} /\ g.entry # None
    BY <1>2, <1>3 DEF NextTasks, prepareNextTasks
  <2>2. incomingEdges(g.entry) = {}
    BY <1>1, IncomingFacts DEF DagsAreAcyclic
  <2> QED BY <1>1, <1>3, <2>1, <2>2
<1>4. CASE completedTasks # {}
  <2>1. tasks' = prepareNextTasksDAG
    BY <1>2, <1>4 DEF NextTasks
  <2>2. completedTasks \subseteq g.nodes
    BY DEF DagInv
  <2> QED BY <1>1, <2>1, <2>2, DagProceeds DEF prepareNextTasksDAG
<1> QED BY <1>3, <1>4

\* A task that reads a channel to which a predecessor wrote finds its value.
LEMMA ReadsPredecessors ==
    ASSUME IInv, DagInv, g.mode = "all", pc = "exec", NEW n \in tasks,
           NEW p \in incomingEdges(n), NEW c \in Channel,
           g.kind[c] = "acc", c \in g.writes[p]
    PROVE  \E i \in DOMAIN channels[c] : channels[c][i].node = p
<1>1. err = "none"
  BY DEF IInv, LoopInv
<1>2. PICK w \in wrote : w.node = p
  BY <1>1 DEF DagInv, Succeeded
<1>3. w \in WritesTo(c)
  BY <1>2 DEF WritesTo
<1>4. w \in {channels[c][i] : i \in {j \in DOMAIN channels[c] : channels[c][j].node # None}}
  BY <1>1, <1>3 DEF IInv, ChannelsReflectResults
<1> QED BY <1>2, <1>4

\* The tasks of a superstep.
LEMMA DagTask ==
    ASSUME IInv, DagInv, NEW n \in Node, Task(n)
    PROVE  DagInv'
<1>0. /\ UNCHANGED <<g, pc, completedTasks, tasks, err, wrote>>
      /\ TasksInv /\ TypeOK
  BY DEF IInv, Task, readTaskInput, ClearRead, NodeReturns, Retry, TaskEnds, loopVars,
         history
<1>1. SUFFICES ASSUME g.mode = "all" PROVE DagInv'
  BY <1>0 DEF DagInv
<1>2. ASSUME pc = "exec", NEW m \in tasks, task'[m] # "spawned",
             NEW p \in incomingEdges(m), NEW c \in g.triggers[m],
             g.kind[c] = "acc", c \in g.writes[p]
      PROVE  \E i \in DOMAIN input'[m][c] : input'[m][c][i].node = p
  <2>0. m \in Node /\ c \in Channel /\ g.triggers[m] \subseteq Channel
    BY <1>0, TypeFacts, GraphFields
  <2>1. task \in [Node -> {"none", "spawned", "clearing", "waiting", "done"}]
        /\ input \in [Node -> Contents]
    BY <1>0 DEF TypeOK, TasksOK
  <2>2. CASE readTaskInput(n) /\ m = n
    <3>1. input'[m][c] = channels[c]
      BY <2>0, <2>1, <2>2 DEF readTaskInput
    <3> QED BY <1>1, <1>2, <2>0, <3>1, ReadsPredecessors
  <2>3. CASE ~(readTaskInput(n) /\ m = n)
    <3>1. input'[m] = input[m] /\ task[m] # "spawned"
      BY <1>2, <2>0, <2>1, <2>3
         DEF Task, readTaskInput, ClearRead, Starts, NodeReturns, Retry, TaskEnds
    <3> QED BY <1>1, <1>2, <3>1 DEF DagInv, DagRunsInOrder
  <2> QED BY <2>2, <2>3
<1>3. \A x : incomingEdges(x)' = incomingEdges(x)
  BY <1>0 DEF incomingEdges
<1>4. Succeeded' = Succeeded
  BY <1>0 DEF Succeeded
<1>5. DagRunsInOrder'
  BY <1>0, <1>1, <1>2, <1>3 DEF DagInv, DagRunsInOrder
<1> QED BY <1>0, <1>1, <1>3, <1>4, <1>5 DEF DagInv

\* The writes of a superstep: its tasks had not succeeded before.
LEMMA DagApply ==
    ASSUME IInv, DagInv, applyWrites
    PROVE  DagInv'
<1>0. /\ UNCHANGED <<g, tasks, err>> /\ pc = "exec" /\ pc' = "save" /\ err = "none"
      /\ completedTasks' = completedTasks \cup Successful
      /\ wrote' = wrote \cup {Author(n, step) : n \in Successful}
      /\ Successful \subseteq tasks
  BY DEF IInv, LoopInv, applyWrites, Completes, WaitAll, taskVars, Successful
<1>1. SUFFICES ASSUME g.mode = "all" PROVE DagInv'
  BY <1>0 DEF DagInv
<1>2. /\ completedTasks \subseteq g.nodes /\ tasks \subseteq g.nodes
      /\ completedTasks = Succeeded /\ tasks \cap completedTasks = {}
      /\ \A v \in wrote, w \in wrote : v.node = w.node => v = w
  BY <1>0, <1>1 DEF DagInv
<1>3. completedTasks' = Succeeded'
  BY <1>0, <1>2, AuthorFacts DEF Succeeded
<1>4. ASSUME NEW v \in wrote', NEW w \in wrote', v.node = w.node PROVE v = w
  <2>1. CASE v \in wrote /\ w \in wrote
    BY <1>2, <1>4, <2>1
  <2>2. CASE v \notin wrote /\ w \notin wrote
    BY <1>0, <1>4, <2>2, AuthorFacts
  <2>3. \A x \in wrote : x.node \in completedTasks
    BY <1>2 DEF Succeeded
  <2>4. \A x \in wrote' \ wrote : x.node \in tasks
    BY <1>0, AuthorFacts
  <2> QED BY <1>2, <1>4, <2>1, <2>2, <2>3, <2>4
<1>5. DagRunsInOrder'
  BY <1>0, <1>4 DEF DagRunsInOrder
<1> QED BY <1>0, <1>2, <1>3, <1>4, <1>5 DEF DagInv

LEMMA DagNext ==
    ASSUME DagsAreAcyclic, IInv, DagInv, [Next]_vars
    PROVE  DagInv'
<1>0. g' = g
  BY DEF Next, Loop, Task, applyInput, LoopEnds, prepareNextTasks, AllFailed,
         applyWritesFails, applyWrites, SaveSync, SaveLater, buildOutput, SaveDeferred,
         Finish, AsyncSave, CancelCtx, vars, readTaskInput, ClearRead, NodeReturns,
         Retry, TaskEnds
<1>1. SUFFICES ASSUME g.mode = "all" PROVE DagInv'
  BY <1>0 DEF DagInv
<1>2. CASE prepareNextTasks
  <2>1. /\ UNCHANGED <<completedTasks, err, wrote>> /\ err = "none" /\ pc = "top"
        /\ pc' = (IF tasks' = {} THEN "output" ELSE "exec")
        /\ \A n \in tasks' : task'[n] = "spawned"
    <3>1. tasks' \subseteq Node
      BY <1>2, LoopTasksType DEF IInv, Loop, TasksOK
    <3>2. pc = "top" /\ err = "none"
      BY <1>2 DEF IInv, LoopInv, prepareNextTasks
    <3>3. PICK next : /\ tasks' = next
                      /\ task' = [n \in Node |-> IF n \in next THEN "spawned" ELSE "none"]
                      /\ pc' = IF next = {} THEN "output" ELSE "exec"
      BY <1>2 DEF prepareNextTasks
    <3> QED BY <1>2, <3>1, <3>2, <3>3 DEF prepareNextTasks, loopVars, history
  <2>2. /\ tasks' \subseteq g.nodes /\ tasks' \cap completedTasks = {}
        /\ \A n \in tasks' : incomingEdges(n) \subseteq completedTasks
        /\ tasks' = {} /\ g.entry # End => completedTasks = g.nodes
    BY <1>1, <1>2, DagPrepare
  <2>3. \A x : incomingEdges(x)' = incomingEdges(x)
    BY <1>0 DEF incomingEdges
  <2>4. Succeeded' = Succeeded
    BY <2>1 DEF Succeeded
  <2>5. DagRunsInOrder'
    BY <1>0, <1>1, <2>1 DEF DagInv, DagRunsInOrder
  <2> QED BY <1>0, <1>1, <2>1, <2>2, <2>3, <2>4, <2>5 DEF DagInv
<1>3. CASE applyWrites
  BY <1>3, DagApply
<1>4. CASE applyWritesFails
  <2>1. /\ UNCHANGED <<tasks, wrote>> /\ pc' = "ended" /\ err' = "writes"
        /\ completedTasks' = completedTasks \cup Successful /\ Successful \subseteq tasks
    BY <1>4 DEF applyWritesFails, Completes, Fails, taskVars, history, Successful
  <2>2. DagRunsInOrder'
    BY <1>0, <1>1, <2>1 DEF DagInv, DagRunsInOrder
  <2> QED BY <1>0, <1>1, <2>1, <2>2 DEF DagInv
<1>5. ASSUME NEW n \in Node, Task(n) PROVE DagInv'
  BY <1>5, DagTask
<1>6. CASE \/ applyInput \/ LoopEnds \/ AllFailed \/ SaveSync \/ SaveLater
           \/ buildOutput \/ SaveDeferred \/ Finish \/ AsyncSave \/ CancelCtx
           \/ UNCHANGED vars
  <2>1. UNCHANGED <<completedTasks, tasks, task, input, wrote>>
    BY <1>6 DEF applyInput, LoopEnds, AllFailed, SaveSync, SaveLater, buildOutput,
          SaveDeferred, Finish, AsyncSave, CancelCtx, vars, loopVars, taskVars, history
  <2>2. /\ pc' = "exec" => pc = "exec"
        /\ pc' \in {"output", "exit"} => pc \in {"output", "exit"}
        /\ pc' = "ended" /\ err' = "none" =>
              pc = "exit" \/ (pc = "ended" /\ err = "none")
        /\ err' # "writes" => err # "writes"
    <3>1. pc # "ended" => err = "none"
      BY DEF IInv, LoopInv
    <3> QED BY <1>6, <3>1
            DEF applyInput, LoopEnds, AllFailed, WaitAll, SaveSync, SaveLater,
                buildOutput, SaveDeferred, Finish, AsyncSave, CancelCtx, vars,
                NextStep, Fails
  <2>3. \A x : incomingEdges(x)' = incomingEdges(x)
    BY <1>0 DEF incomingEdges
  <2>4. Succeeded' = Succeeded
    BY <2>1 DEF Succeeded
  <2>5. pc' = "ended" /\ err' = "none" /\ g.entry # End => Succeeded = g.nodes
    <3>1. pc # "ended" => err = "none"
      BY DEF IInv, LoopInv
    <3> QED BY <1>1, <2>2, <3>1 DEF DagInv, DagRunsInOrder, Succeeded
  <2>6. DagRunsInOrder'
    BY <1>0, <1>1, <2>1, <2>2, <2>3, <2>4, <2>5 DEF DagInv, DagRunsInOrder, Succeeded
  <2> QED BY <1>0, <1>1, <2>1, <2>2, <2>3, <2>4, <2>6 DEF DagInv
<1> QED BY <1>2, <1>3, <1>4, <1>5, <1>6 DEF Next, Loop

\* In a graph without cycles whose nodes wait for all their predecessors, a
\* node reads what each of them wrote, none succeeds twice, and an execution
\* that ends without an error has run them all (prepareNextTasksDAG).
THEOREM FanInsWait ==
    ASSUME DagsAreAcyclic
    PROVE  Spec => []DagRunsInOrder
<1>1. Init => DagInv
  BY DEF Init, DagInv, DagRunsInOrder, Succeeded
<1>2. IInv /\ DagInv /\ [Next]_vars => DagInv'
  BY DagNext
<1>3. DagInv => DagRunsInOrder
  BY DEF DagInv, DagRunsInOrder
<1> QED BY <1>1, <1>2, <1>3, Invariant, PTL DEF Spec

-----------------------------------------------------------------------------
(* The engine implements Supersteps.                                       *)

\* What has completed has succeeded, and the tasks of a superstep may run
\* together.
ScheduleInv ==
    /\ pc # "ended" => /\ completedTasks = Succeeded
                       /\ completedTasks = {} <=> committed = <<>>
                       /\ committed # <<>> =>
                             Author(lastCompletedNode, Len(committed) - 1) \in wrote
    /\ pc = "exec" => Abstract!MayRun(tasks)

\* The lasting channels hold what the last superstep left in them.
LastingInv == pc \notin {"input", "ended"} => Lasts(channels) = Abstract!State

\* Without a checkpointer there is nothing to save.
UnsavedInv == durability = "none" => saves = {} /\ deferred = <<>>

AbstractInv == ScheduleInv /\ LastingInv /\ UnsavedInv

LEMMA PastFacts ==
    ASSUME TypeOK
    PROVE  /\ Len(Past) = Len(committed) /\ Len(committed) \in Nat
           /\ DOMAIN Past = 1 .. Len(committed)
           /\ \A i \in 1 .. Len(committed) : Past[i] = Lasts(committed[i])
           /\ Past \in Seq({Lasts(chs) : chs \in Contents})
           /\ Past = <<>> <=> committed = <<>>
           /\ committed # <<>> => Len(committed) \in 1 .. Len(committed)
<1> DEFINE S == {Lasts(chs) : chs \in Contents}
<1>1. /\ committed \in Seq(Contents) /\ Len(committed) \in Nat
      /\ DOMAIN committed = 1 .. Len(committed)
      /\ \A i \in 1 .. Len(committed) : committed[i] \in Contents
  BY TypeFacts
<1>2. Past \in [1 .. Len(committed) -> S]
  BY <1>1 DEF Past
<1>3. Past \in Seq(S)
  BY <1>1, <1>2, FunctionIsSeq
<1>4. DOMAIN Past = 1 .. Len(committed)
  BY <1>2
<1>5. Len(Past) = Len(committed)
  BY <1>1, <1>3, <1>4, LenProperties
<1>6. \A i \in 1 .. Len(committed) : Past[i] = Lasts(committed[i])
  BY <1>1 DEF Past
<1>7. Past = <<>> <=> committed = <<>>
  BY <1>1, <1>3, <1>5, EmptySeq
<1>8. committed # <<>> => Len(committed) \in 1 .. Len(committed)
  BY <1>1, EmptySeq
<1> QED BY <1>1, <1>3, <1>4, <1>5, <1>6, <1>7, <1>8

\* What the lasting channels hold between supersteps.
LEMMA StateFacts ==
    ASSUME TypeOK
    PROVE  /\ committed # <<>> => Abstract!State = Lasts(committed[Len(committed)])
           /\ committed = <<>> => Abstract!State =
                 [c \in Abstract!Lasting |-> Abstract!InputOf(c)]
<1>1. /\ Past = <<>> <=> committed = <<>>
      /\ Len(Past) = Len(committed)
      /\ committed # <<>> => Past[Len(committed)] = Lasts(committed[Len(committed)])
  BY PastFacts
<1> QED BY <1>1 DEF Abstract!State

\* A step that the abstract execution does not see.
LEMMA AbstractFrame ==
    ASSUME UNCHANGED <<g, durability, history, store, Outcome>>
    PROVE  UNCHANGED Abstract!vars
  BY DEF Abstract!vars, history, Past, Lasts, SavedSteps

\* A step that ends the execution.
LEMMA AbstractEnds ==
    ASSUME UNCHANGED <<g, durability, history, store>>, pc # "ended",
           pc' = "ended", err' # "none"
    PROVE  Abstract!Next
<1>1. Abstract!Ends("error")
  BY DEF Abstract!Ends, history, Past, Lasts, SavedSteps, Outcome
<1> QED BY <1>1 DEF Abstract!Next

\* What decides which nodes may run.
LEMMA MayRunFrame ==
    ASSUME UNCHANGED <<g, wrote, Past>>
    PROVE  /\ UNCHANGED <<Abstract!Succeeded, Abstract!JustSucceeded>>
           /\ \A p, n : /\ Abstract!Edge(p, n)' <=> Abstract!Edge(p, n)
                        /\ Abstract!Follows(p, n)' <=> Abstract!Follows(p, n)
<1>1. UNCHANGED Abstract!Succeeded
  BY DEF Abstract!Succeeded
<1>2. UNCHANGED Abstract!JustSucceeded
  BY DEF Abstract!JustSucceeded
<1>3. \A p, n : Abstract!Edge(p, n)' <=> Abstract!Edge(p, n)
  BY DEF Abstract!Edge
<1>4. \A p, n : Abstract!Follows(p, n)' <=> Abstract!Follows(p, n)
  BY <1>3 DEF Abstract!Follows
<1> QED BY <1>1, <1>2, <1>3, <1>4

\* Steps after which the schedule is what it was.
LEMMA ScheduleKeeps ==
    ASSUME ScheduleInv, UNCHANGED <<g, completedTasks, lastCompletedNode, history>>,
           pc' = "exec" => pc = "exec" /\ UNCHANGED tasks, pc = "ended" => pc' = "ended"
    PROVE  ScheduleInv'
<1>1. /\ UNCHANGED <<committed, wrote, Succeeded, Past>>
      /\ pc' # "ended" => pc # "ended"
  BY DEF history, Succeeded, Past, Lasts
<1>2. ASSUME pc' = "exec" PROVE Abstract!MayRun(tasks)'
  <2>1. Abstract!MayRun(tasks) /\ UNCHANGED <<g, tasks, wrote, Past>>
    BY <1>1, <1>2 DEF ScheduleInv
  <2> QED BY <2>1, MayRunFrame DEF Abstract!MayRun
<1> QED BY <1>1, <1>2 DEF ScheduleInv

\* What getNextNodes finds follows the last node that completed.
LEMMA NextFollows ==
    ASSUME g \in Graphs, NEW p, NEW conds \in CondResults(p), NEW branch \in BranchResults(p),
           NEW n \in getNextNodes(p, conds, branch) \cap g.nodes
    PROVE  Abstract!Follows(p, n)
<1>1. n # End /\ n \in Node
  BY GraphFields, ConstantFacts
<1>2. CASE \E i \in DOMAIN conds : conds[i] = n
  <2>1. PICK i \in DOMAIN conds : conds[i] = n
    BY <1>2
  <2>2. i \in DOMAIN g.conds /\ g.conds[i].from = p /\ conds[i] \in g.conds[i].to
    BY <2>1 DEF CondResults, From
  <2> QED BY <2>1, <2>2 DEF Abstract!Follows
<1>3. CASE \E i \in DOMAIN EdgesFrom(p) : EdgesFrom(p)[i] = n
  <2>1. PICK i \in DOMAIN g.edges : g.edges[i][1] = p /\ g.edges[i][2] = n
    BY <1>3 DEF EdgesFrom
  <2>2. g.edges[i] \in Node \X (Node \cup {End})
    BY GraphFields, LenProperties, ElementOfSeq
  <2>3. g.edges[i] = <<p, n>>
    BY <2>1, <2>2
  <2> QED BY <2>3 DEF Abstract!Follows, Abstract!Edge
<1>4. CASE n \in branch
  <2>1. PICK pick \in [From(g.branches, p) -> SUBSET (Node \cup {End})] :
           /\ \A i \in From(g.branches, p) : pick[i] \in g.branches[i].to
           /\ branch = UNION {pick[i] : i \in From(g.branches, p)}
    BY DEF BranchResults
  <2>2. PICK i \in From(g.branches, p) : n \in pick[i]
    BY <1>4, <2>1
  <2>3. i \in DOMAIN g.branches /\ g.branches[i].from = p
        /\ n \in UNION g.branches[i].to
    BY <2>1, <2>2 DEF From
  <2> QED BY <2>3 DEF Abstract!Follows
<1>5. n \in UpToEnd(conds) \/ n \in UpToEnd(EdgesFrom(p)) \/ n \in branch
  BY DEF getNextNodes
<1> QED BY <1>2, <1>3, <1>4, <1>5 DEF UpToEnd

\* The tasks that prepareNextTasks returns.
LEMMA SchedulePrepare ==
    ASSUME IInv, AbstractInv, prepareNextTasks, tasks' # {}
    PROVE  Abstract!MayRun(tasks)'
<1>0. /\ g \in Graphs /\ UNCHANGED <<g, committed, wrote, Past>>
      /\ pc = "top" /\ tasks' \in NextTasks
      /\ completedTasks = {} => g.entry # None
  BY TypeFacts DEF IInv, prepareNextTasks, history, Past, Lasts
<1>1. /\ completedTasks = Succeeded
      /\ completedTasks = {} <=> Past = <<>>
      /\ Past # <<>> => Author(lastCompletedNode, Len(Past) - 1) \in wrote
  BY <1>0, PastFacts DEF IInv, AbstractInv, ScheduleInv
<1>2. tasks' \subseteq g.nodes
  BY <1>0, GraphFields DEF NextTasks, prepareNextTasksDAG
<1>3. Past = <<>> => tasks' = {g.entry}
  BY <1>0, <1>1 DEF NextTasks
<1>4. ASSUME Past # <<>>, g.mode = "all"
      PROVE  /\ tasks' \cap Abstract!Succeeded = {}
             /\ \A n \in tasks', p \in Node :
                   Abstract!Edge(p, n) => p \in Abstract!Succeeded
  <2>1. tasks' = prepareNextTasksDAG
    BY <1>0, <1>1, <1>4 DEF NextTasks
  <2>2. \A n, p : Abstract!Edge(p, n) => p \in incomingEdges(n)
    BY DEF Abstract!Edge, incomingEdges
  <2>3. Abstract!Succeeded = completedTasks
    BY <1>1 DEF Abstract!Succeeded, Succeeded
  <2> QED BY <2>1, <2>2, <2>3 DEF prepareNextTasksDAG
<1>5. ASSUME Past # <<>>, g.mode = "any"
      PROVE  \E p \in Abstract!JustSucceeded : \A n \in tasks' : Abstract!Follows(p, n)
  <2>1. lastCompletedNode \in Abstract!JustSucceeded
    BY <1>1, <1>5, AuthorFacts DEF Abstract!JustSucceeded
  <2>2. PICK conds \in CondResults(lastCompletedNode),
             branch \in BranchResults(lastCompletedNode) :
          tasks' = getNextNodes(lastCompletedNode, conds, branch) \cap g.nodes
    BY <1>0, <1>1, <1>5 DEF NextTasks
  <2> QED BY <1>0, <2>1, <2>2, NextFollows
<1>6. UNCHANGED <<g, wrote, Past>>
  BY <1>0
<1>7. (Past # <<>> /\ g.mode = "all")' =>
         /\ tasks' \cap Abstract!Succeeded' = {}
         /\ \A n \in tasks', p \in Node : Abstract!Edge(p, n)' => p \in Abstract!Succeeded'
  BY <1>4, <1>6, MayRunFrame
<1>8. (Past # <<>> /\ g.mode = "any")' =>
         \E p \in Abstract!JustSucceeded' : \A n \in tasks' : Abstract!Follows(p, n)'
  BY <1>5, <1>6, MayRunFrame
<1> QED BY <1>2, <1>3, <1>6, <1>7, <1>8 DEF Abstract!MayRun

LEMMA ScheduleNext ==
    ASSUME IInv, AbstractInv, [Next]_vars
    PROVE  ScheduleInv'
<1>1. CASE prepareNextTasks
  <2>1. /\ UNCHANGED <<completedTasks, lastCompletedNode, committed, wrote, Succeeded>>
        /\ pc = "top" /\ pc' = (IF tasks' = {} THEN "output" ELSE "exec")
    BY <1>1 DEF prepareNextTasks, loopVars, history, Succeeded
  <2> QED BY <1>1, <2>1, SchedulePrepare DEF AbstractInv, ScheduleInv
<1>2. CASE applyWrites
  <2>0. /\ pc = "exec" /\ pc' = "save" /\ committed \in Seq(Contents)
        /\ completedTasks' = completedTasks \cup Successful
        /\ lastCompletedNode' \in Successful
        /\ committed' = Append(committed, channels')
        /\ wrote' = wrote \cup {Author(n, step) : n \in Successful}
    BY <1>2, TypeFacts DEF IInv, applyWrites, Completes, WaitAll
  <2>1. completedTasks' = Succeeded'
    <3>1. completedTasks = Succeeded
      BY <2>0 DEF AbstractInv, ScheduleInv
    <3>2. ASSUME NEW n \in completedTasks' PROVE n \in Succeeded'
      <4>1. CASE n \in completedTasks
        BY <2>0, <3>1, <4>1 DEF Succeeded
      <4>2. CASE n \in Successful
        <5>1. Author(n, step) \in wrote' /\ Author(n, step).node = n
          BY <2>0, <4>2, AuthorFacts
        <5> QED BY <5>1 DEF Succeeded
      <4> QED BY <2>0, <3>2, <4>1, <4>2
    <3>3. ASSUME NEW w \in wrote' PROVE w.node \in completedTasks'
      BY <2>0, <3>1, <3>3, AuthorFacts DEF Succeeded
    <3> QED BY <3>2, <3>3 DEF Succeeded
  <2>2. Len(committed) = step /\ channels' \in Contents
    BY <1>2, <2>0, LoopType DEF IInv, LoopInv, Applied, Loop, LoopOK
  <2>3. committed' # <<>> /\ Len(committed') - 1 = step
    BY <2>0, <2>2, AppendProperties
  <2> QED BY <2>0, <2>1, <2>3 DEF ScheduleInv
<1>3. CASE applyWritesFails
  BY <1>3 DEF applyWritesFails, Fails, ScheduleInv
<1>4. CASE \/ applyInput \/ LoopEnds \/ AllFailed \/ SaveSync \/ SaveLater
           \/ buildOutput \/ SaveDeferred \/ Finish \/ AsyncSave \/ CancelCtx
           \/ UNCHANGED vars \/ \E n \in Node : Task(n)
  <2>1. /\ UNCHANGED <<g, completedTasks, lastCompletedNode, history, tasks>>
        /\ pc' = "exec" => pc = "exec"
        /\ pc = "ended" => pc' = "ended"
    BY <1>4 DEF applyInput, LoopEnds, AllFailed, SaveSync, SaveLater, buildOutput,
          SaveDeferred, Finish, AsyncSave, CancelCtx, vars, loopVars, taskVars, NextStep,
          Fails, Task, readTaskInput, ClearRead, NodeReturns, Retry, TaskEnds
  <2> QED BY <2>1, ScheduleKeeps DEF AbstractInv
<1> QED BY <1>1, <1>2, <1>3, <1>4 DEF Next, Loop

\* A superstep adds what it leaves in the lasting channels.
LEMMA PastGrows ==
    ASSUME IInv, applyWrites
    PROVE  /\ Past' = Append(Past, Lasts(channels'))
           /\ Abstract!State' = Lasts(channels')
           /\ Len(Past) = step /\ g' = g
<1>1. /\ committed \in Seq(Contents) /\ channels' \in Contents /\ g' = g
      /\ committed' = Append(committed, channels')
      /\ Len(committed) = step
  BY TypeFacts, LoopType DEF IInv, LoopInv, Applied, applyWrites, Completes, WaitAll, Loop,
                             LoopOK
<1>2. /\ DOMAIN committed' = 1 .. Len(committed) + 1 /\ Len(committed) \in Nat
      /\ \A i \in 1 .. Len(committed) : committed'[i] = committed[i]
      /\ committed'[Len(committed) + 1] = channels'
  BY <1>1, AppendProperties, LenProperties
<1>3. \A chs : Lasts(chs)' = Lasts(chs)
  BY <1>1 DEF Lasts
<1>4. Past' = [i \in 1 .. Len(committed) + 1 |-> Lasts(committed'[i])]
  BY <1>1, <1>2 DEF Past, Lasts
<1>5. /\ Len(Past) = Len(committed) /\ DOMAIN Past = 1 .. Len(committed)
      /\ \A i \in 1 .. Len(committed) : Past[i] = Lasts(committed[i])
      /\ Past \in Seq({Lasts(chs) : chs \in Contents})
  BY PastFacts DEF IInv
<1>6. Past' = Append(Past, Lasts(channels'))
  <2>1. /\ Lasts(channels') \in {Lasts(chs) : chs \in Contents}
        /\ Append(Past, Lasts(channels')) \in Seq({Lasts(chs) : chs \in Contents})
    BY <1>1, <1>5
  <2>2. /\ DOMAIN Append(Past, Lasts(channels')) = 1 .. Len(committed) + 1
        /\ \A i \in 1 .. Len(committed) : Append(Past, Lasts(channels'))[i] = Past[i]
        /\ Append(Past, Lasts(channels'))[Len(committed) + 1] = Lasts(channels')
    BY <1>2, <1>5, <2>1, AppendProperties, LenProperties
  <2>3. \A i \in 1 .. Len(committed) + 1 : Append(Past, Lasts(channels'))[i] = Past'[i]
    BY <1>2, <1>4, <1>5, <2>2
  <2>4. Append(Past, Lasts(channels')) \in
           [1 .. Len(committed) + 1 -> {Lasts(chs) : chs \in Contents}]
    BY <2>1, <2>2, LenProperties
  <2> QED BY <1>4, <2>3, <2>4
<1>7. Len(Past') = Len(committed) + 1 /\ Past' # <<>>
  BY <1>1, <1>2, <1>5, <1>6, AppendProperties
<1>8. Abstract!State' = Lasts(channels')
  <2>1. Past'[Len(Past')] = Lasts(channels')
    BY <1>2, <1>4, <1>7
  <2> QED BY <1>7, <2>1 DEF Abstract!State
<1> QED BY <1>1, <1>5, <1>6, <1>8

LEMMA StateKeeps ==
    ASSUME UNCHANGED <<g, committed>>
    PROVE  /\ UNCHANGED <<Past, Abstract!State>>
           /\ \A chs : Lasts(chs)' = Lasts(chs)
<1>1. \A chs : Lasts(chs)' = Lasts(chs)
  BY DEF Lasts
<1>2. UNCHANGED Past
  BY DEF Past, Lasts
<1>3. UNCHANGED Abstract!State
  BY <1>2 DEF Abstract!State, Abstract!Lasting, Abstract!InputOf
<1> QED BY <1>1, <1>2, <1>3

\* A read of ephemeral channels leaves the lasting ones alone.
LEMMA LastsAfterGet ==
    ASSUME NEW chs, NEW cs
    PROVE  Lasts(AfterGet(chs, cs)) = Lasts(chs)
  BY DEF Lasts, AfterGet

\* The input, which the first superstep begins with.
LEMMA LastingInput ==
    ASSUME IInv, applyInput, pc' # "ended"
    PROVE  LastingInv'
<1>1. /\ pc = "input" /\ UNCHANGED <<g, committed>> /\ channels = Empty
      /\ channels' = [c \in Channel |-> IF c \in g.input
                         THEN Update(c, <<Author(None, 0)>>) ELSE Missing]
  BY DEF applyInput, Fails, history, IInv, LoopInv
<1>2. committed = <<>>
  <2>1. Len(committed) = 0 /\ committed \in Seq(Contents)
    BY <1>1, TypeFacts DEF IInv, LoopInv, Applied
  <2> QED BY <2>1, EmptySeq
<1>3. \A c \in Channel : Update(c, <<Author(None, 0)>>) = <<[node |-> None, step |-> 0]>>
  <2> TAKE c \in Channel
  <2>1. channels[c] = <<>>
    BY <1>1 DEF Empty, Missing
  <2>2. <<>> \o <<Author(None, 0)>> = <<Author(None, 0)>>
    OBVIOUS
  <2>3. <<Author(None, 0)>>[Len(<<Author(None, 0)>>)] = Author(None, 0)
        /\ <<Author(None, 0)>> # <<>>
    OBVIOUS
  <2> QED BY <2>1, <2>2, <2>3 DEF Update, Author
<1>4. Lasts(channels') = [c \in Abstract!Lasting |-> Abstract!InputOf(c)]
  BY <1>1, <1>3 DEF Lasts, Abstract!Lasting, Abstract!InputOf, Missing
<1> QED BY <1>1, <1>2, <1>4, StateFacts, StateKeeps DEF LastingInv, IInv

LEMMA LastingNext ==
    ASSUME IInv, AbstractInv, [Next]_vars
    PROVE  LastingInv'
<1>1. CASE applyInput
  BY <1>1, LastingInput DEF LastingInv
<1>2. CASE applyWrites
  <2>1. Lasts(channels)' = Lasts(channels')
    BY <1>2, PastGrows DEF Lasts
  <2> QED BY <1>2, <2>1, PastGrows DEF LastingInv
<1>3. CASE LoopEnds \/ AllFailed \/ applyWritesFails
  BY <1>3 DEF LoopEnds, AllFailed, applyWritesFails, Fails, LastingInv
<1>4. ASSUME \/ prepareNextTasks \/ SaveSync \/ SaveLater \/ buildOutput
             \/ SaveDeferred \/ Finish \/ AsyncSave \/ CancelCtx \/ UNCHANGED vars
             \/ \E n \in Node : Task(n)
      PROVE  LastingInv'
  <2>1. /\ UNCHANGED <<g, committed>>
        /\ pc' \notin {"input", "ended"} => pc \notin {"input", "ended"}
        /\ channels' = channels \/ \E cs : channels' = AfterGet(channels, cs)
    <3>1. ASSUME NEW n \in Node, Task(n)
          PROVE  /\ UNCHANGED <<g, pc, committed>>
                 /\ channels' = channels \/ \E cs : channels' = AfterGet(channels, cs)
      BY <3>1 DEF Task, readTaskInput, ClearRead, NodeReturns, Retry, TaskEnds, loopVars,
                  history
    <3> QED BY <1>4, <3>1 DEF prepareNextTasks, SaveSync, SaveLater, buildOutput, SaveDeferred,
               Finish, AsyncSave, CancelCtx, vars, loopVars, history, NextStep, Fails
  <2>2. Lasts(channels') = Lasts(channels)
    BY <2>1, LastsAfterGet
  <2>3. Lasts(channels)' = Lasts(channels')
    BY <2>1 DEF Lasts
  <2> QED BY <2>1, <2>2, <2>3, StateKeeps DEF LastingInv, AbstractInv
<1> QED BY <1>1, <1>2, <1>3, <1>4 DEF Next, Loop

LEMMA UnsavedNext ==
    ASSUME UnsavedInv, [Next]_vars
    PROVE  UnsavedInv'
  BY DEF UnsavedInv, Next, Loop, Task, applyInput, LoopEnds, prepareNextTasks, AllFailed,
         applyWritesFails, applyWrites, SaveSync, SaveLater, buildOutput, SaveDeferred,
         Finish, AsyncSave, CancelCtx, vars, saveVars, readTaskInput, ClearRead, NodeReturns,
         Retry, TaskEnds

-----------------------------------------------------------------------------
(* Each step of the engine is one of Supersteps, or none.                  *)

\* What the superstep writes, and what the channels hold afterwards.
LEMMA SameCardinality == \A S : Abstract!Cardinality(S) = Cardinality(S)
  BY DEF Abstract!Cardinality, Cardinality

LEMMA BatchIsValues ==
    ASSUME Len(Past) = step, NEW c
    PROVE  Abstract!Batch(Successful, c) = Values(c)
<1> DEFINE W == {n \in Successful : c \in g.writes[n]}
           at(k) == CHOOSE n \in W : Abstract!Place(n, W) = k
           sorted(k) == CHOOSE n \in W : Place(n, W) = k
<1>1. \A n, V : Abstract!Place(n, V) = Place(n, V)
  BY SameCardinality DEF Abstract!Place, Abstract!Rank, Place, Rank
<1>2. \A k : at(k) = sorted(k)
  BY <1>1
<1>3. Abstract!Cardinality(W) = Cardinality(W)
  BY SameCardinality
<1>4. Abstract!Batch(Successful, c) = [k \in 1 .. Abstract!Cardinality(W) |->
                                         [node |-> at(k), step |-> Len(Past)]]
  BY DEF Abstract!Batch
<1>5. Values(c) = [k \in 1 .. Cardinality(W) |-> [node |-> sorted(k), step |-> step]]
  BY DEF Values, Written, Sorted, Author
<1> HIDE DEF W, at, sorted
<1> QED BY <1>2, <1>3, <1>4, <1>5

LEMMA AfterIsUpdate ==
    ASSUME IInv, AbstractInv, applyWrites
    PROVE  Lasts(channels') = [c \in Abstract!Lasting |-> Abstract!After(Successful, c)]
<1>1. Lasts(channels) = Abstract!State /\ Len(Past) = step
  BY PastGrows DEF AbstractInv, LastingInv, applyWrites, Completes, WaitAll
<1>2. ASSUME NEW c \in Abstract!Lasting
      PROVE  channels'[c] = Abstract!After(Successful, c)
  <2>1. c \in Channel /\ g.kind[c] # "ephemeral"
    BY DEF Abstract!Lasting
  <2>2. channels'[c] = Update(c, Values(c))
    BY <2>1, AppliedWrites DEF IInv
  <2>3. Abstract!State[c] = channels[c]
    BY <1>1, <2>1 DEF Lasts
  <2> QED BY <1>1, <2>2, <2>3, BatchIsValues DEF Abstract!After, Update
<1> QED BY <1>2 DEF Lasts, Abstract!Lasting

\* What the store holds, once it is not behind.
LEMMA SavedSuperstep ==
    ASSUME TypeOK, NEW j \in DOMAIN committed
    PROVE  [step |-> Committed[j].step, state |-> Lasts(Committed[j].channels)]
              = [step |-> j - 1, state |-> Past[j]]
<1>1. Committed[j] = [step |-> j - 1, channels |-> committed[j]]
  BY CommittedFacts
<1>2. Past[j] = Lasts(committed[j])
  BY PastFacts, CommittedFacts
<1> QED BY <1>1, <1>2

LEMMA StoreIsSaved ==
    ASSUME TypeOK, store = Committed
    PROVE  Abstract!AllSaved
<1>1. DOMAIN store = DOMAIN committed /\ DOMAIN Past = DOMAIN committed
  BY CommittedFacts, PastFacts
<1>2. SavedSteps = {[step |-> j - 1, state |-> Past[j]] : j \in DOMAIN committed}
  BY <1>1, SavedSuperstep DEF SavedSteps
<1> QED BY <1>1, <1>2 DEF Abstract!AllSaved

\* applyWrites is a superstep.
LEMMA SuperstepOfTasks ==
    ASSUME IInv, AbstractInv, applyWrites
    PROVE  Abstract!Superstep(Successful)
<1>0. /\ pc = "exec" /\ pc' = "save" /\ Successful # {} /\ Successful \subseteq tasks
      /\ UNCHANGED <<g, durability, store>> /\ step < RecursionLimit
      /\ wrote' = wrote \cup {Author(n, step) : n \in Successful}
      /\ \A c \in Channel : ~Refuses(c, Values(c))
  BY TypeFacts DEF applyWrites, Completes, WaitAll, saveVars, IInv, LoopInv
<1>1. Outcome = "running" /\ UNCHANGED <<Outcome, SavedSteps>>
  BY <1>0 DEF Outcome, SavedSteps, Lasts
<1>2. Len(Past) = step /\ Past' = Append(Past, Lasts(channels'))
  BY PastGrows
<1>3. Abstract!MayRun(Successful)
  <2>1. Abstract!MayRun(tasks)
    BY <1>0 DEF AbstractInv, ScheduleInv
  <2> QED BY <1>0, <2>1 DEF Abstract!MayRun
<1>4. \A c \in Channel : g.kind[c] = "last" => Len(Abstract!Batch(Successful, c)) <= 1
  <2> SUFFICES ASSUME NEW c \in Channel, g.kind[c] = "last" PROVE Len(Values(c)) <= 1
    BY <1>2, BatchIsValues
  <2>1. Len(Values(c)) \in Nat
    BY WrittenValue DEF IInv, Value
  <2> QED BY <1>0, <2>1 DEF Refuses
<1>5. durability = "sync" => Abstract!AllSaved
  BY <1>0, StoreIsSaved DEF IInv, StoreInv, SyncInv, BehindBy
<1>6. wrote' = wrote \cup {[node |-> n, step |-> Len(Past)] : n \in Successful}
  BY <1>0, <1>2 DEF Author
<1> QED BY <1>0, <1>1, <1>2, <1>3, <1>4, <1>5, <1>6, AfterIsUpdate
        DEF Abstract!Superstep

\* What is put in the store is one of the supersteps.
LEMMA SaveOfSuperstep ==
    ASSUME TypeOK, UNCHANGED <<g, durability, history, Outcome>>, durability # "none",
           NEW cp \in CommittedSteps, store' = Append(store, cp)
    PROVE  Abstract!Next
<1>1. PICK j \in DOMAIN committed : cp = Committed[j]
  BY DEF CommittedSteps
<1>2. /\ store \in Seq(CheckpointType) /\ cp \in CheckpointType
      /\ DOMAIN Past = DOMAIN committed
  BY <1>1, CommittedFacts, PastFacts DEF TypeOK, SavedOK
<1>3. /\ DOMAIN store' = DOMAIN store \cup {Len(store) + 1}
      /\ \A i \in DOMAIN store : store'[i] = store[i]
      /\ store'[Len(store) + 1] = cp
  BY <1>2, AppendProperties, LenProperties
<1>4. SavedSteps' = SavedSteps \cup {[step |-> j - 1, state |-> Past[j]]}
  <2>1. SavedSteps' = {[step |-> store'[i].step, state |-> Lasts(store'[i].channels)] :
                         i \in DOMAIN store'}
    BY DEF SavedSteps, Lasts
  <2>2. [step |-> cp.step, state |-> Lasts(cp.channels)]
           = [step |-> j - 1, state |-> Past[j]]
    BY <1>1, SavedSuperstep
  <2> QED BY <1>3, <2>1, <2>2, SMTT(20) DEF SavedSteps
<1>5. UNCHANGED <<g, durability, Past, wrote, Outcome>>
  BY StateKeeps DEF history
<1>6. Abstract!Save(j)
  BY <1>4, <1>5 DEF Abstract!Save
<1> QED BY <1>2, <1>6 DEF Abstract!Next

\* The end of Run without an error: what should be saved has been.
LEMMA FinishEnds ==
    ASSUME IInv, AbstractInv, Finish
    PROVE  Abstract!Next
<1>1. /\ UNCHANGED <<g, durability, history, store>> /\ pc = "exit" /\ pc' = "ended"
      /\ err = "none" /\ deferred = <<>>
  BY DEF Finish, Fails, IInv, LoopInv, saveVars
<1>2. CASE err' # "none"
  BY <1>1, <1>2, AbstractEnds
<1>3. CASE err' = "none"
  <2>1. ~saveErr
    BY <1>3 DEF Finish, Fails
  <2>2. durability \in {"sync", "exit"} => store = Committed
    <3>1. durability = "sync" => store = Committed
      BY <1>1 DEF IInv, StoreInv, SyncInv, BehindBy
    <3>2. durability = "exit" => store = Committed
      <4>1. store \o <<>> = store
        BY ConcatEmptySeq DEF IInv, TypeOK, SavedOK
      <4> QED BY <1>1, <2>1, <4>1 DEF IInv, StoreInv, ExitInv
    <3> QED BY <3>1, <3>2
  <2>3. durability \in {"sync", "exit"} => Abstract!AllSaved
    BY <2>2, StoreIsSaved DEF IInv
  <2>4. UNCHANGED <<Past, SavedSteps>>
    BY <1>1 DEF history, Past, Lasts, SavedSteps
  <2>5. Abstract!Ends("done")
    BY <1>1, <1>3, <2>3, <2>4 DEF Abstract!Ends, Outcome, history
  <2> QED BY <2>5 DEF Abstract!Next
<1> QED BY <1>2, <1>3

LEMMA StepOfSupersteps ==
    ASSUME IInv, AbstractInv, [Next]_vars
    PROVE  [Abstract!Next]_(Abstract!vars)
<1>0. TypeOK /\ (pc # "ended" => err = "none")
  BY DEF IInv, LoopInv
<1>1. CASE applyWrites
  <2>1. Successful \in SUBSET Node
    BY TypeFacts DEF IInv
  <2> QED BY <1>1, <2>1, SuperstepOfTasks DEF Abstract!Next
<1>2. CASE LoopEnds \/ AllFailed \/ applyWritesFails
  BY <1>2, AbstractEnds DEF LoopEnds, AllFailed, applyWritesFails, Completes, WaitAll, Fails,
                            saveVars
<1>3. CASE applyInput
  <2>1. /\ UNCHANGED <<g, durability, history, store>> /\ pc = "input"
        /\ (pc' = "ended" /\ err' # "none") \/ pc' = "top"
    BY <1>3 DEF applyInput, Fails, saveVars
  <2> QED BY <2>1, AbstractEnds, AbstractFrame DEF Outcome
<1>4. CASE SaveSync
  <2>1. /\ UNCHANGED <<g, durability, history>> /\ durability = "sync" /\ pc = "save"
        /\ \/ store' = Append(store, Checkpoint(step)) /\ pc' = "top"
           \/ store' = store /\ pc' = "ended" /\ err' # "none"
    BY <1>4 DEF SaveSync, Put, NextStep, Fails
  <2>2. CASE store' = Append(store, Checkpoint(step)) /\ pc' = "top"
    <3>1. Checkpoint(step) \in CommittedSteps
      BY <2>1, CheckpointIsLast DEF IInv
    <3>2. UNCHANGED Outcome
      BY <2>1, <2>2 DEF Outcome
    <3> QED BY <1>0, <2>1, <2>2, <3>1, <3>2, SaveOfSuperstep
  <2>3. CASE store' = store /\ pc' = "ended" /\ err' # "none"
    BY <2>1, <2>3, AbstractEnds
  <2> QED BY <2>1, <2>2, <2>3
<1>5. CASE AsyncSave
  <2>1. UNCHANGED <<g, durability, history, Outcome>>
    BY <1>5 DEF AsyncSave, Outcome
  <2>2. PICK cp \in saves : store' = Append(store, cp) \/ store' = store
    BY <1>5 DEF AsyncSave, Put
  <2>3. cp \in CommittedSteps /\ durability # "none"
    BY <2>2 DEF IInv, StoreInv, SavedInv, AbstractInv, UnsavedInv
  <2> QED BY <1>0, <2>1, <2>2, <2>3, SaveOfSuperstep, AbstractFrame
<1>6. CASE SaveDeferred
  <2>1. UNCHANGED <<g, durability, history, Outcome>> /\ deferred # <<>>
    BY <1>6 DEF SaveDeferred, Outcome
  <2>2. store' = Append(store, Head(deferred)) \/ store' = store
    BY <1>6 DEF SaveDeferred, Put
  <2>3. Head(deferred) \in CommittedSteps /\ durability # "none"
    <3>1. deferred \in Seq(CheckpointType)
      BY <1>0 DEF TypeOK, SavedOK
    <3>2. Head(deferred) = deferred[1] /\ 1 \in DOMAIN deferred
      BY <2>1, <3>1
    <3> QED BY <2>1, <3>2 DEF IInv, StoreInv, SavedInv, AbstractInv, UnsavedInv
  <2> QED BY <1>0, <2>1, <2>2, <2>3, SaveOfSuperstep, AbstractFrame
<1>7. CASE Finish
  BY <1>7, FinishEnds
<1>8. CASE \/ prepareNextTasks \/ SaveLater \/ buildOutput \/ CancelCtx \/ UNCHANGED vars
           \/ \E n \in Node : Task(n)
  <2>1. /\ UNCHANGED <<g, durability, history, store, err>>
        /\ pc' = "ended" <=> pc = "ended"
    BY <1>8 DEF prepareNextTasks, SaveLater, NextStep, buildOutput, CancelCtx, vars, saveVars,
          Task, readTaskInput, ClearRead, NodeReturns, Retry, TaskEnds
  <2> QED BY <2>1, AbstractFrame DEF Outcome
<1> QED BY <1>1, <1>2, <1>3, <1>4, <1>5, <1>6, <1>7, <1>8 DEF Next, Loop

LEMMA AbstractStart ==
    ASSUME Init
    PROVE  Abstract!Init /\ AbstractInv
<1>1. committed = <<>> /\ store = <<>> /\ wrote = {} /\ pc = "input" /\ saves = {}
      /\ deferred = <<>> /\ completedTasks = {}
  BY DEF Init
<1>2. Past = <<>>
  BY <1>1 DEF Past
<1>3. SavedSteps = {}
  BY <1>1 DEF SavedSteps
<1> QED BY <1>1, <1>2, <1>3
        DEF Abstract!Init, Outcome, AbstractInv, ScheduleInv, LastingInv, UnsavedInv, Succeeded

\* Each superstep has its effect at once, whatever its goroutines do, and one
\* that follows from which of its tasks succeeded; what is saved are whole
\* supersteps, all of them when a run ends that is to save them (Engine.Run).
THEOREM EngineImplementsSupersteps == Spec => ImplementsSupersteps
<1>1. Init => Abstract!Init /\ AbstractInv
  BY AbstractStart
<1>2. IInv /\ AbstractInv /\ [Next]_vars => AbstractInv'
  BY ScheduleNext, LastingNext, UnsavedNext DEF AbstractInv
<1>3. IInv /\ AbstractInv /\ [Next]_vars => [Abstract!Next]_(Abstract!vars)
  BY StepOfSupersteps
<1> QED BY <1>1, <1>2, <1>3, Invariant, PTL DEF Spec, ImplementsSupersteps, Abstract!Spec
=============================================================================
