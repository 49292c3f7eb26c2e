--------------------------- MODULE ServicesProofs ---------------------------
(***************************************************************************)
(* Proofs about what MCServices puts together, for all values of the       *)
(* constants: that the server implements RunLifecycle and shows whole      *)
(* thread states, for every set of graphs, runs and handlers, and that the *)
(* other components do what their properties say.  A behaviour of Spec is  *)
(* one of one component: the proofs of ComponentProofs are those of its    *)
(* parts.                                                                  *)
(***************************************************************************)
EXTENDS MCServices, FiniteSetTheorems, WellFoundedInduction, TLAPS

-----------------------------------------------------------------------------
Final == {"success", "error"}
Runs == [thread : Ids \cup {None}, assistant : Ids \cup {None},
         status : {"none", "pending", "running"} \cup Final, output : BOOLEAN]
Results == {"missing", "success", "error"}
Requests ==
    [pc : {"idle", "poll", "look", "done", "unknown", "timeout", "batch", "invoke"},
     run : RunId \cup {None}, polls : Nat, rest : Nat,
     results : Seq(Results)]

\* The values of the variables.
TypeOK ==
    /\ DOMAIN assistants \subseteq Ids
    /\ runs \subseteq RunId /\ runOf \in [RunId -> Runs]
    /\ exec \in [RunId -> {"none", "start", "invoke", "output", "ended"}]
    /\ locked \in RunId \cup {None}
    /\ handler \in [Handler -> Requests]
    /\ created \in Seq(RunId)

\* Where the goroutine of a run is says what is written in the run: its status,
\* and its output once the goroutine has ended.
StatusAt(l) ==
    CASE l = "none" -> {"none"}
      [] l = "start" -> {"pending"}
      [] l = "invoke" -> {"running"}
      [] OTHER -> Final
RunsInv ==
    \A r \in RunId :
        /\ runOf[r].status \in StatusAt(exec[r])
        /\ runOf[r].output <=> exec[r] = "ended"

\* A listed run was created, and a wait is for a run.
ListedInv ==
    /\ \A r \in runs : exec[r] # "none"
    /\ \A r \in RunId : exec[r] # "none" => \E i \in DOMAIN created : created[i] = r
    /\ \A h \in Handler : handler[h].pc \in {"poll", "look"} => handler[h].run \in RunId

ServerInv == TypeOK /\ RunsInv /\ ListedInv

-----------------------------------------------------------------------------
\* Requests about graphs, assistants and threads leave the runs alone.
ResourceStep ==
    \/ \E g \in GraphId : RegisterGraph(g)
    \/ \E a \in Ids, g \in GraphId : CreateAssistant(a, g)
    \/ \E a \in Ids : UpdateAssistant(a) \/ DeleteAssistant(a)
    \/ \E t \in Ids : CreateThread(t) \/ UpdateThread(t) \/ DeleteThread(t)
LEMMA ResourceFrame ==
    ASSUME ResourceStep
    PROVE  UNCHANGED <<handler, runs, runOf, exec, locked, answers, created>>
  BY DEF ResourceStep, RegisterGraph, CreateAssistant, UpdateAssistant,
         DeleteAssistant, CreateThread, UpdateThread, DeleteThread, runVars

\* Waits and batches change their handler only, and the history of answers.
HandlerStep(h) ==
    \/ \E r \in RunId : WaitRun(h, r)
    \/ WaitLookup(h) \/ WaitLook(h) \/ Answered(h)
    \/ BatchRuns(h, 2)
    \/ \E a \in Ids : BatchLookup(h, a)
    \/ \E s \in Final : BatchInvoke(h, s)
LEMMA HandlerFrame ==
    ASSUME NEW h \in Handler, HandlerStep(h)
    PROVE  UNCHANGED <<assistants, runs, runOf, exec, locked, created>>
  BY DEF HandlerStep, WaitRun, WaitLookup, WaitLook, Answered, BatchRuns,
         BatchLookup, BatchInvoke, runVars

\* The steps of a run.
RunStep(r) ==
    \/ \E a \in Ids, t \in Ids \cup {None} : CreateRun(r, a, t)
    \/ ExecuteStart(r) \/ ExecuteOutput(r) \/ DeleteRun(r)
    \/ \E s \in Final : ExecuteEnd(r, s)
LEMMA RunFrame ==
    ASSUME NEW r \in RunId, RunStep(r)
    PROVE  UNCHANGED <<assistants, handler, answers>>
  BY DEF RunStep, CreateRun, ExecuteStart, ExecuteOutput, DeleteRun, ExecuteEnd

LEMMA NextCases ==
    ASSUME ServerNext
    PROVE  ResourceStep \/ (\E h \in Handler : HandlerStep(h)) \/ \E r \in RunId : RunStep(r)
  BY DEF ServerNext, ResourceStep, HandlerStep, RunStep, Final

-----------------------------------------------------------------------------
\* Handlers keep their types, and wait for runs.
LEMMA HandlerType ==
    ASSUME ServerInv, NEW h \in Handler, HandlerStep(h)
    PROVE  /\ handler' \in [Handler -> Requests]
           /\ \A g \in Handler : handler'[g].pc \in {"poll", "look"} => handler'[g].run \in RunId
  <1> DEFINE Waits == \A g \in Handler : handler[g].pc \in {"poll", "look"} => handler[g].run \in RunId
  <1>1. handler \in [Handler -> Requests] /\ handler[h] \in Requests /\ Waits
    BY DEF ServerInv, TypeOK, ListedInv
  <1>2. ASSUME NEW q \in Requests, handler' = [handler EXCEPT ![h] = q],
               q.pc \in {"poll", "look"} => q.run \in RunId
        PROVE  handler' \in [Handler -> Requests] /\ Waits'
    BY <1>1, <1>2
  <1>3. ASSUME NEW r \in RunId, WaitRun(h, r)
        PROVE  handler' \in [Handler -> Requests] /\ Waits'
    <2> DEFINE q == [NoRequest EXCEPT !.pc = "poll", !.run = r]
    <2>1. NoRequest \in Requests
      BY DEF NoRequest, Requests, None
    <2>2. q \in Requests /\ q.run \in RunId
      BY <2>1 DEF Requests
    <2>3. handler' = [handler EXCEPT ![h] = q]
      BY <1>3 DEF WaitRun
    <2> QED
      BY <1>2, <2>2, <2>3
  <1>4. CASE WaitLookup(h)
    <2> DEFINE p == IF handler[h].polls = MaxPolls THEN "timeout"
                    ELSE IF handler[h].run \in runs THEN "look" ELSE "unknown"
               q == [handler[h] EXCEPT !.pc = p]
    <2>1. q \in Requests
      BY <1>1 DEF Requests
    <2>2. handler' = [handler EXCEPT ![h] = q]
      BY <1>4 DEF WaitLookup
    <2>3. q.pc = p /\ q.run = handler[h].run /\ handler[h].pc = "poll"
      BY <1>1, <1>4 DEF Requests, WaitLookup
    <2> QED
      BY <1>1, <1>2, <2>1, <2>2, <2>3
  <1>5. CASE WaitLook(h)
    <2>1. PICK q \in {[handler[h] EXCEPT !.pc = "done"],
                      [handler[h] EXCEPT !.pc = "poll", !.polls = @ + 1]} :
             handler' = [handler EXCEPT ![h] = q]
      BY <1>5 DEF WaitLook
    <2>2. q \in Requests /\ q.run = handler[h].run /\ handler[h].pc = "look"
      BY <1>1, <1>5, <2>1 DEF Requests, WaitLook
    <2> QED
      BY <1>1, <1>2, <2>1, <2>2
  <1>6. CASE Answered(h)
    <2>1. NoRequest \in Requests /\ NoRequest.pc = "idle"
      BY DEF NoRequest, Requests, None
    <2> QED
      BY <1>2, <1>6, <2>1 DEF Answered
  <1>7. CASE BatchRuns(h, 2)
    <2> DEFINE q == [NoRequest EXCEPT !.pc = "batch", !.rest = 2]
    <2>1. NoRequest \in Requests
      BY DEF NoRequest, Requests, None
    <2>2. q \in Requests /\ q.pc = "batch"
      BY <2>1 DEF Requests
    <2> QED
      BY <1>2, <1>7, <2>2 DEF BatchRuns
  <1>8. ASSUME NEW a \in Ids, BatchLookup(h, a)
        PROVE  handler' \in [Handler -> Requests] /\ Waits'
    <2> DEFINE found == a \in DOMAIN assistants /\ assistants[a].graph \in graphs
               p == IF found THEN "invoke" ELSE "batch"
               rs == IF found THEN handler[h].results
                     ELSE Append(handler[h].results, "missing")
               q == [handler[h] EXCEPT !.rest = @ - 1, !.pc = p, !.results = rs]
    <2>1. handler' = [handler EXCEPT ![h] = q]
      BY <1>1, <1>8 DEF BatchLookup, Requests
    <2>2. rs \in Seq(Results)
      <3>1. handler[h].results \in Seq(Results) /\ "missing" \in Results
        BY <1>1 DEF Requests, Results
      <3> QED
        BY <3>1
    <2>3. handler[h].rest - 1 \in Nat /\ p \in {"invoke", "batch"}
      BY <1>1, <1>8 DEF BatchLookup, Requests
    <2> HIDE DEF p, rs
    <2>4. q \in Requests /\ q.pc = p
      BY <1>1, <2>2, <2>3 DEF Requests
    <2> QED
      BY <1>2, <2>1, <2>3, <2>4
  <1>9. ASSUME NEW s \in Final, BatchInvoke(h, s)
        PROVE  handler' \in [Handler -> Requests] /\ Waits'
    <2> DEFINE rs == Append(handler[h].results, s)
               q == [handler[h] EXCEPT !.pc = "batch", !.results = rs]
    <2>1. rs \in Seq(Results)
      <3>1. handler[h].results \in Seq(Results) /\ s \in Results
        BY <1>1, <1>9 DEF Requests, Results, Final
      <3> QED
        BY <3>1
    <2>2. handler' = [handler EXCEPT ![h] = q]
      BY <1>1, <1>9 DEF BatchInvoke, Requests
    <2> HIDE DEF rs
    <2>3. q \in Requests /\ q.pc = "batch"
      BY <1>1, <2>1 DEF Requests
    <2> QED
      BY <1>2, <2>2, <2>3
  <1> QED
    BY <1>3, <1>4, <1>5, <1>6, <1>7, <1>8, <1>9 DEF HandlerStep

\* A step of a run keeps what is written in the runs.
LEMMA RunNext ==
    ASSUME ServerInv, NEW r \in RunId, RunStep(r)
    PROVE  ServerInv'
  <1>1. /\ UNCHANGED <<assistants, handler>>
        /\ TypeOK /\ RunsInv /\ ListedInv /\ runOf[r] \in Runs
    BY RunFrame DEF ServerInv, TypeOK
  <1>2. ASSUME NEW a \in Ids, NEW t \in Ids \cup {None}, CreateRun(r, a, t)
        PROVE  ServerInv'
    <2> DEFINE new == [thread |-> t, assistant |-> a, status |-> "pending", output |-> FALSE]
    <2>1. new \in Runs
      BY DEF Runs
    <2>2. /\ exec[r] = "none" /\ exec' = [exec EXCEPT ![r] = "start"]
          /\ runOf' = [runOf EXCEPT ![r] = new]
          /\ runs' = runs \cup {r} /\ created' = Append(created, r) /\ UNCHANGED locked
      BY <1>2 DEF CreateRun
    <2>3. TypeOK'
      BY <1>1, <2>1, <2>2 DEF TypeOK
    <2>4. RunsInv'
      BY <1>1, <2>2 DEF TypeOK, RunsInv, StatusAt, Final
    <2>5. \A i \in DOMAIN created : i \in DOMAIN created' /\ created'[i] = created[i]
      BY <1>1, <2>2 DEF TypeOK
    <2>6. Len(created) + 1 \in DOMAIN created' /\ created'[Len(created) + 1] = r
      BY <1>1, <2>2 DEF TypeOK
    <2>7. ListedInv'
      BY <1>1, <2>2, <2>5, <2>6 DEF TypeOK, ListedInv
    <2> QED
      BY <2>3, <2>4, <2>7 DEF ServerInv
  <1>3. CASE ExecuteStart(r)
    <2>1. /\ exec[r] = "start" /\ exec' = [exec EXCEPT ![r] = "invoke"]
          /\ runOf' = [runOf EXCEPT ![r] = [runOf[r] EXCEPT !.status = "running"]]
          /\ UNCHANGED <<runs, created, locked>>
      BY <1>3 DEF ExecuteStart
    <2>2. [runOf[r] EXCEPT !.status = "running"] \in Runs
      BY <1>1 DEF Runs
    <2>3. TypeOK'
      BY <1>1, <2>1, <2>2 DEF TypeOK
    <2>4. runOf'[r].status = "running" /\ runOf'[r].output = runOf[r].output
      BY <1>1, <2>1 DEF TypeOK, Runs
    <2>5. RunsInv'
      BY <1>1, <2>1, <2>4 DEF TypeOK, RunsInv, StatusAt
    <2>6. ListedInv'
      BY <1>1, <2>1 DEF TypeOK, ListedInv
    <2> QED
      BY <2>3, <2>5, <2>6 DEF ServerInv
  <1>4. ASSUME NEW s \in Final, ExecuteEnd(r, s)
        PROVE  ServerInv'
    <2>1. /\ exec[r] = "invoke" /\ exec' = [exec EXCEPT ![r] = "output"]
          /\ runOf' = [runOf EXCEPT ![r] = [runOf[r] EXCEPT !.status = s]]
          /\ locked' = r /\ UNCHANGED <<runs, created>>
      BY <1>4 DEF ExecuteEnd
    <2>2. [runOf[r] EXCEPT !.status = s] \in Runs
      BY <1>1 DEF Runs
    <2>3. TypeOK'
      BY <1>1, <2>1, <2>2 DEF TypeOK
    <2>4. runOf'[r].status = s /\ runOf'[r].output = runOf[r].output
      BY <1>1, <2>1 DEF TypeOK, Runs
    <2>5. RunsInv'
      BY <1>1, <2>1, <2>4 DEF TypeOK, RunsInv, StatusAt
    <2>6. ListedInv'
      BY <1>1, <2>1 DEF TypeOK, ListedInv
    <2> QED
      BY <2>3, <2>5, <2>6 DEF ServerInv
  <1>5. CASE ExecuteOutput(r)
    <2>1. /\ exec[r] = "output" /\ exec' = [exec EXCEPT ![r] = "ended"]
          /\ runOf' = [runOf EXCEPT ![r] = [runOf[r] EXCEPT !.output = TRUE]]
          /\ locked' = None /\ UNCHANGED <<runs, created>>
      BY <1>5 DEF ExecuteOutput
    <2>2. [runOf[r] EXCEPT !.output = TRUE] \in Runs
      BY <1>1 DEF Runs
    <2>3. TypeOK'
      BY <1>1, <2>1, <2>2 DEF TypeOK
    <2>4. runOf'[r].status = runOf[r].status /\ runOf'[r].output
      BY <1>1, <2>1 DEF TypeOK, Runs
    <2>5. RunsInv'
      BY <1>1, <2>1, <2>4 DEF TypeOK, RunsInv, StatusAt
    <2>6. ListedInv'
      BY <1>1, <2>1 DEF TypeOK, ListedInv
    <2> QED
      BY <2>3, <2>5, <2>6 DEF ServerInv
  <1>6. CASE DeleteRun(r)
    BY <1>1, <1>6 DEF DeleteRun, ServerInv, TypeOK, RunsInv, ListedInv
  <1> QED
    BY <1>2, <1>3, <1>4, <1>5, <1>6 DEF RunStep

\* Requests about assistants keep their ids among Ids.
LEMMA ResourceNext ==
    ASSUME ServerInv, ResourceStep
    PROVE  ServerInv'
  <1>1. DOMAIN assistants \subseteq Ids
    BY DEF ServerInv, TypeOK
  <1>2. DOMAIN assistants' \subseteq Ids
    BY <1>1 DEF ResourceStep, RegisterGraph, CreateAssistant, UpdateAssistant,
           DeleteAssistant, CreateThread, UpdateThread, DeleteThread, With, Without
  <1> QED
    BY <1>2, ResourceFrame DEF ServerInv, TypeOK, RunsInv, ListedInv

LEMMA InvNext == ServerInv /\ [ServerNext]_serverVars => ServerInv'
  <1> SUFFICES ASSUME ServerInv, [ServerNext]_serverVars
               PROVE  ServerInv'
    OBVIOUS
  <1>1. CASE ResourceStep
    BY <1>1, ResourceNext
  <1>2. ASSUME NEW h \in Handler, HandlerStep(h)
        PROVE  ServerInv'
    BY <1>2, HandlerFrame, HandlerType DEF ServerInv, TypeOK, RunsInv, ListedInv
  <1>3. ASSUME NEW r \in RunId, RunStep(r)
        PROVE  ServerInv'
    BY <1>3, RunNext
  <1>4. CASE UNCHANGED serverVars
    BY <1>4 DEF serverVars, ServerInv, TypeOK, RunsInv, ListedInv
  <1> QED
    BY <1>1, <1>2, <1>3, <1>4, NextCases

LEMMA InvInit == ServerInit => ServerInv
  <1> SUFFICES ASSUME ServerInit
               PROVE  ServerInv
    OBVIOUS
  <1>1. NoRun \in Runs /\ NoRun.status = "none" /\ NoRun.output = FALSE
    BY DEF NoRun, Runs
  <1>2. NoRequest \in Requests /\ NoRequest.pc = "idle"
    BY DEF NoRequest, Requests, None
  <1>3. TypeOK
    BY <1>1, <1>2 DEF ServerInit, TypeOK, Empty
  <1>4. RunsInv
    BY <1>1 DEF ServerInit, RunsInv, StatusAt
  <1>5. ListedInv
    BY <1>2 DEF ServerInit, ListedInv
  <1> QED
    BY <1>3, <1>4, <1>5 DEF ServerInv

\* The status and the output of a run are what its goroutine has written.
THEOREM Invariant == ServerSpec => []ServerInv
  BY InvInit, InvNext, PTL DEF ServerSpec

-----------------------------------------------------------------------------
\* The refinement, step by step.

LEMMA LifecycleInit == ServerInit => Lifecycle!Init
  BY DEF ServerInit, Lifecycle!Init, RunStatus, NoRun

\* A step of a run is a step of the lifecycle, or writes the output only.
LEMMA LifecycleRun ==
    ASSUME ServerInv, NEW r \in RunId, RunStep(r)
    PROVE  Lifecycle!Next \/ UNCHANGED <<RunStatus, runs, answers>>
  <1>1. /\ UNCHANGED answers /\ runOf \in [RunId -> Runs] /\ runOf[r] \in Runs
        /\ RunsInv /\ RunStatus[r] = runOf[r].status
    BY RunFrame DEF ServerInv, TypeOK, RunStatus
  <1>2. ASSUME NEW v \in Runs, runOf' = [runOf EXCEPT ![r] = v]
        PROVE  RunStatus' = [RunStatus EXCEPT ![r] = v.status]
    BY <1>1, <1>2 DEF RunStatus
  <1>3. ASSUME NEW a \in Ids, NEW t \in Ids \cup {None}, CreateRun(r, a, t)
        PROVE  Lifecycle!Create(r)
    <2> DEFINE new == [thread |-> t, assistant |-> a, status |-> "pending", output |-> FALSE]
    <2>1. new \in Runs /\ new.status = "pending"
      BY DEF Runs
    <2>2. RunStatus' = [RunStatus EXCEPT ![r] = "pending"]
      BY <1>2, <1>3, <2>1 DEF CreateRun
    <2>3. RunStatus[r] = "none"
      BY <1>1, <1>3 DEF CreateRun, RunsInv, StatusAt
    <2> QED
      BY <1>1, <1>3, <2>2, <2>3 DEF CreateRun, Lifecycle!Create
  <1>4. CASE ExecuteStart(r)
    <2> DEFINE v == [runOf[r] EXCEPT !.status = "running"]
    <2>1. v \in Runs /\ v.status = "running"
      BY <1>1 DEF Runs
    <2>2. RunStatus' = [RunStatus EXCEPT ![r] = "running"]
      BY <1>2, <1>4, <2>1 DEF ExecuteStart
    <2>3. RunStatus[r] = "pending"
      BY <1>1, <1>4 DEF ExecuteStart, RunsInv, StatusAt
    <2>4. Lifecycle!Advance(r, "pending", "running")
      BY <1>1, <1>4, <2>2, <2>3 DEF ExecuteStart, Lifecycle!Advance
    <2> QED
      BY <2>4 DEF Lifecycle!Next
  <1>5. ASSUME NEW s \in Final, ExecuteEnd(r, s)
        PROVE  Lifecycle!Next
    <2> DEFINE v == [runOf[r] EXCEPT !.status = s]
    <2>1. v \in Runs /\ v.status = s
      BY <1>1 DEF Runs
    <2>2. RunStatus' = [RunStatus EXCEPT ![r] = s]
      BY <1>2, <1>5, <2>1 DEF ExecuteEnd
    <2>3. RunStatus[r] = "running"
      BY <1>1, <1>5 DEF ExecuteEnd, RunsInv, StatusAt
    <2>4. Lifecycle!Advance(r, "running", s)
      BY <1>1, <1>5, <2>2, <2>3 DEF ExecuteEnd, Lifecycle!Advance
    <2> QED
      BY <2>4 DEF Lifecycle!Next, Lifecycle!Final, Final
  <1>6. CASE ExecuteOutput(r)
    <2> DEFINE v == [runOf[r] EXCEPT !.output = TRUE]
    <2>1. v \in Runs /\ v.status = runOf[r].status
      BY <1>1 DEF Runs
    <2>2. RunStatus' = [RunStatus EXCEPT ![r] = runOf[r].status]
      BY <1>2, <1>6, <2>1 DEF ExecuteOutput
    <2>3. UNCHANGED RunStatus
      BY <1>1, <2>2 DEF RunStatus
    <2> QED
      BY <1>1, <1>6, <2>3 DEF ExecuteOutput
  <1>7. CASE DeleteRun(r)
    <2>1. Lifecycle!Forget(r)
      BY <1>1, <1>7 DEF DeleteRun, Lifecycle!Forget, RunStatus
    <2> QED
      BY <2>1 DEF Lifecycle!Next
  <1> QED
    BY <1>3, <1>4, <1>5, <1>6, <1>7 DEF RunStep, Lifecycle!Next

\* A handler's step is an answer, or nothing the lifecycle knows of.
LEMMA LifecycleHandler ==
    ASSUME ServerInv, NEW h \in Handler, HandlerStep(h)
    PROVE  Lifecycle!Next \/ UNCHANGED <<RunStatus, runs, answers>>
  <1>1. UNCHANGED <<RunStatus, runs>>
    BY HandlerFrame DEF RunStatus
  <1>2. CASE WaitLook(h) /\ Ended(handler[h].run)
    <2> DEFINE r == handler[h].run
    <2>1. r \in RunId
      BY <1>2 DEF WaitLook, ServerInv, ListedInv
    <2>2. Lifecycle!Answer(r)
      BY <1>1, <1>2, <2>1
        DEF WaitLook, Ended, Lifecycle!Answer, Lifecycle!Final, RunStatus
    <2> QED
      BY <2>1, <2>2 DEF Lifecycle!Next
  <1>3. CASE ~(WaitLook(h) /\ Ended(handler[h].run))
    <2>1. UNCHANGED answers
      BY <1>3
        DEF HandlerStep, WaitRun, WaitLookup, WaitLook, Answered, BatchRuns,
            BatchLookup, BatchInvoke, runVars
    <2> QED
      BY <1>1, <2>1
  <1> QED
    BY <1>2, <1>3

LEMMA LifecycleNext ==
    ServerInv /\ [ServerNext]_serverVars => [Lifecycle!Next]_<<RunStatus, runs, answers>>
  <1> SUFFICES ASSUME ServerInv, [ServerNext]_serverVars
               PROVE  Lifecycle!Next \/ UNCHANGED <<RunStatus, runs, answers>>
    OBVIOUS
  <1>1. CASE ResourceStep \/ UNCHANGED serverVars
    BY <1>1, ResourceFrame DEF serverVars, RunStatus
  <1> QED
    BY <1>1, NextCases, LifecycleRun, LifecycleHandler

\* The server implements RunLifecycle, whatever is deleted while runs execute
\* and whoever waits for them without the lock (executeRun, handleWaitRun,
\* handleDeleteRun).
THEOREM ServerImplementsLifecycle == ServerSpec => RunsImplementLifecycle
  BY LifecycleInit, LifecycleNext, Invariant, PTL
     DEF ServerSpec, RunsImplementLifecycle, Lifecycle!Spec

-----------------------------------------------------------------------------
\* The state of a thread.

\* A run whose status is written and whose output is not holds the lock.
LockInv == \A r \in RunId : exec[r] = "output" => locked = r

LEMMA LockNext ==
    ASSUME ServerInv, LockInv, [ServerNext]_serverVars
    PROVE  LockInv'
  <1>1. exec \in [RunId -> {"none", "start", "invoke", "output", "ended"}]
    BY DEF ServerInv, TypeOK
  <1>2. ASSUME NEW r \in RunId, RunStep(r)
        PROVE  LockInv'
    <2>1. CASE Unlocked
      <3>1. \A q \in RunId : exec[q] # "output"
        BY <2>1, ServerAssumption DEF LockInv, Unlocked, None
      <3> QED
        BY <1>1, <1>2, <3>1
          DEF LockInv, RunStep, CreateRun, ExecuteStart, ExecuteOutput,
              DeleteRun, ExecuteEnd
    <2>2. CASE ~Unlocked
      <3>1. ExecuteOutput(r)
        BY <1>2, <2>2
          DEF RunStep, CreateRun, ExecuteStart, DeleteRun, ExecuteEnd
      <3> QED
        BY <1>1, <3>1 DEF ExecuteOutput, LockInv
    <2> QED
      BY <2>1, <2>2
  <1>3. ASSUME NEW h \in Handler, HandlerStep(h)
        PROVE  LockInv'
    BY <1>3, HandlerFrame DEF LockInv
  <1>4. CASE ResourceStep \/ UNCHANGED serverVars
    BY <1>4, ResourceFrame DEF LockInv, serverVars
  <1> QED
    BY <1>2, <1>3, <1>4, NextCases

LEMMA LessThanPair ==
    ASSUME NEW a \in Nat, NEW b \in Nat, a < b
    PROVE  <<a, b>> \in OpToRel(<, Nat)
  BY DEF OpToRel

\* Some listed run of a thread that has runs was created last.
LEMMA LatestExists ==
    ASSUME ServerInv, NEW t, ListThreadRuns(t) # {}
    PROVE  \E r \in ListThreadRuns(t) :
             \A q \in ListThreadRuns(t) : Position(q) <= Position(r)
  <1>1. /\ created \in Seq(RunId) /\ Len(created) \in Nat
        /\ DOMAIN created = 1 .. Len(created)
    BY DEF ServerInv, TypeOK
  <1>2. ASSUME NEW r \in ListThreadRuns(t)
        PROVE  Position(r) \in 1 .. Len(created)
    <2>1. \E i \in DOMAIN created : created[i] = r
      BY DEF ListThreadRuns, ServerInv, TypeOK, ListedInv
    <2> QED
      BY <1>1, <2>1 DEF Position
  <1> DEFINE Ages == {Len(created) - Position(r) : r \in ListThreadRuns(t)}
  <1>3. Ages \subseteq Nat /\ Ages # {}
    BY <1>1, <1>2
  <1>4. PICK x \in Ages : \A y \in Ages : <<y, x>> \notin OpToRel(<, Nat)
    BY <1>3, NatLessThanWellFounded, WFMin
  <1>5. \A y \in Ages : x <= y
    <2> SUFFICES ASSUME NEW y \in Ages
                 PROVE  x <= y
      OBVIOUS
    <2>1. x \in Nat /\ y \in Nat
      BY <1>3
    <2>2. ~(y < x)
      BY <1>4, <2>1, LessThanPair
    <2> QED
      BY <2>1, <2>2
  <1>6. PICK r \in ListThreadRuns(t) : x = Len(created) - Position(r)
    OBVIOUS
  <1>7. ASSUME NEW q \in ListThreadRuns(t)
        PROVE  Position(q) <= Position(r)
    <2>1. x <= Len(created) - Position(q)
      BY <1>5
    <2> QED
      BY <1>1, <1>2, <1>6, <2>1
  <1> QED
    BY <1>7

LEMMA StateIsWhole ==
    ASSUME ServerInv, LockInv
    PROVE  ThreadStateIsWhole
  <1> SUFFICES ASSUME Unlocked
               PROVE  /\ \A t \in DOMAIN threads :
                           LET state == GetThreadState(t)
                           IN  /\ (state.status = "idle") = (ListThreadRuns(t) = {})
                               /\ state.values = (state.status \in {"success", "error"})
                      /\ \A g \in GraphId :
                           SearchAssistants(g, CountAssistants(g)) = {Matches(g)}
    BY DEF ThreadStateIsWhole
  <1>1. ASSUME NEW r \in runs
        PROVE  /\ runOf[r].status \in {"pending", "running", "success", "error"}
               /\ runOf[r].output = (runOf[r].status \in {"success", "error"})
    <2>1. /\ r \in RunId /\ exec[r] \in {"start", "invoke", "output", "ended"}
          /\ runOf[r].status \in StatusAt(exec[r])
          /\ runOf[r].output \in BOOLEAN /\ (runOf[r].output <=> exec[r] = "ended")
      BY DEF ServerInv, TypeOK, RunsInv, ListedInv, Runs
    <2>2. exec[r] # "output"
      BY <2>1, ServerAssumption DEF LockInv, Unlocked, None
    <2> QED
      BY <2>1, <2>2 DEF StatusAt, Final
  <1>2. ASSUME NEW t \in DOMAIN threads
        PROVE  LET state == GetThreadState(t)
               IN  /\ (state.status = "idle") = (ListThreadRuns(t) = {})
                   /\ state.values = (state.status \in {"success", "error"})
    <2>1. CASE ListThreadRuns(t) = {}
      <3>1. GetThreadState(t) = [status |-> "idle", values |-> FALSE]
        BY <2>1 DEF GetThreadState
      <3>2. GetThreadState(t).status = "idle" /\ GetThreadState(t).values = FALSE
        BY <3>1
      <3>3. (GetThreadState(t).status \in {"success", "error"}) = FALSE
        BY <3>2
      <3> QED
        BY <2>1, <3>2, <3>3
    <2>2. CASE ListThreadRuns(t) # {}
      <3> DEFINE latest == CHOOSE r \in ListThreadRuns(t) :
                             \A q \in ListThreadRuns(t) : Position(q) <= Position(r)
      <3>1. latest \in ListThreadRuns(t)
        BY <2>2, LatestExists
      <3>2. latest \in runs
        BY <3>1 DEF ListThreadRuns
      <3>3. GetThreadState(t) = [status |-> runOf[latest].status,
                                 values |-> runOf[latest].output]
        BY <2>2 DEF GetThreadState
      <3> HIDE DEF latest
      <3> QED
        BY <1>1, <2>2, <3>2, <3>3
    <2> QED
      BY <2>1, <2>2
  <1>3. ASSUME NEW g \in GraphId
        PROVE  SearchAssistants(g, CountAssistants(g)) = {Matches(g)}
    <2> DEFINE M == Matches(g)
    <2>1. IsFiniteSet(Ids) /\ M \subseteq Ids
      BY FS_Interval, ServerAssumption DEF Ids, Matches, ServerInv, TypeOK
    <2>2. IsFiniteSet(M) /\ Cardinality(M) \in Nat
      BY <2>1, FS_Subset, FS_CardinalityType
    <2>3. \A S \in SUBSET M : Cardinality(S) = Cardinality(M) => S = M
      BY <2>2, FS_Subset
    <2>4. SearchAssistants(g, CountAssistants(g)) =
            {S \in SUBSET M : Cardinality(S) = Cardinality(M)}
      BY <2>2 DEF SearchAssistants, CountAssistants
    <2> HIDE DEF M
    <2>5. {S \in SUBSET M : Cardinality(S) = Cardinality(M)} = {M}
      BY <2>3
    <2> QED
      BY <2>4, <2>5 DEF M
  <1> QED
    BY <1>2, <1>3

\* Readers of a thread's state, who hold the lock, never see the status of a
\* run without its output, and a search finds what the count counts
\* (executeRun, handleThreadState, handleSearchAssistants).
THEOREM ThreadStatesAreWhole == ServerSpec => []ThreadStateIsWhole
  <1>1. ServerInit => LockInv
    BY DEF ServerInit, LockInv
  <1>2. ServerInv /\ LockInv /\ [ServerNext]_serverVars => LockInv'
    BY LockNext
  <1>3. ServerInv /\ LockInv => ThreadStateIsWhole
    BY StateIsWhole
  <1> QED
    BY <1>1, <1>2, <1>3, Invariant, PTL DEF ServerSpec

-----------------------------------------------------------------------------
(* The executors.                                                          *)

ExecutorsInv ==
    /\ part = "async" => Ex!AsyncInv
    /\ part = "background" => Ex!BgInv
    /\ part \in {"pipeline", "limiter"} => Ex!PipelineInv /\ Ex!LimiterInv

LEMMA ExecutorsInit == Init => ExecutorsInv
<1>1. Ex!AsyncInit => Ex!AsyncInv
  BY ServicesAssumption, Ex!AsyncInvInit
<1>2. Ex!BgInit => Ex!BgInv
  BY Ex!BgInvInit
<1>3. Ex!PipelineInit => Ex!PipelineInv /\ Ex!LimiterInv
  BY Ex!PipelineInvInit
<1> QED BY <1>1, <1>2, <1>3 DEF Init, ExecutorsInv

\* What a step of the whole is for the component of the behaviour.
LEMMA PartSteps ==
    ASSUME Next \/ UNCHANGED vars
    PROVE  /\ part' = part
           /\ part = "manager" => Ex!ManagerNext \/ UNCHANGED partVars
           /\ part = "saver" => Ex!SaversNext \/ UNCHANGED partVars
           /\ part = "postgres" => Ex!PgNext \/ UNCHANGED partVars
           /\ part = "store" => Ex!StoreNext \/ UNCHANGED partVars
           /\ part = "retry" => Ex!RetryNext \/ UNCHANGED partVars
           /\ part = "cache" => Ex!CacheNext \/ UNCHANGED partVars
           /\ part = "async" => Ex!AsyncNext \/ UNCHANGED partVars
           /\ part = "background" => Ex!BgNext \/ UNCHANGED partVars
           /\ part = "pipeline" => Ex!PipelineNext \/ UNCHANGED partVars
           /\ part = "limiter" => Ex!LimiterNext \/ UNCHANGED partVars
           /\ part = "graphStream" => Ex!StreamNext \/ UNCHANGED partVars
           /\ part = "duplex" => Ex!DuplexNext \/ UNCHANGED partVars
           /\ part = "events" => Ex!EventsNext \/ UNCHANGED partVars
           /\ part = "remote" => Ex!RemoteNext \/ UNCHANGED partVars
           /\ part = "config" => Ex!ConfigNext \/ UNCHANGED partVars
           /\ part = "managed" => Ex!ManagedNext \/ UNCHANGED partVars
           /\ part = "scratchpad" => Ex!PadNext \/ UNCHANGED partVars
<1>1. CASE UNCHANGED vars
  BY <1>1 DEF vars
<1>2. CASE Next
  BY <1>2
     DEF Next, Manager, Saver, Postgres, Store, HttpServer, CompiledStream, Channel, Graph,
         FanGraph, Messages, Async, Background, Heap, Pipeline, Limiter, Retry, Cache, Remote,
         MessageStream, Duplex, Events, Config, Managed, Scratchpad, Writer, Reader, Alone
<1> QED BY <1>1, <1>2

LEMMA ExecutorsNext == ASSUME ExecutorsInv, Next \/ UNCHANGED vars PROVE ExecutorsInv'
<1>1. CASE part = "async"
  <2>1. Ex!AsyncNext \/ UNCHANGED Ex!asyncVars
    BY <1>1, PartSteps DEF partVars, Ex!asyncVars
  <2>2. Ex!AsyncInv'
    BY <1>1, <2>1, ServicesAssumption, Ex!AsyncInvNext DEF ExecutorsInv
  <2> QED BY <1>1, <2>2, PartSteps DEF ExecutorsInv
<1>2. CASE part = "background"
  <2>1. Ex!BgNext \/ UNCHANGED <<Ex!bgVars, Ex!heapVars>>
    BY <1>2, PartSteps DEF partVars, Ex!bgVars, Ex!heapVars
  <2>2. Ex!BgInv'
    BY <1>2, <2>1, Ex!BgInvNext DEF ExecutorsInv
  <2> QED BY <1>2, <2>2, PartSteps DEF ExecutorsInv
<1>3. CASE part \in {"pipeline", "limiter"}
  <2>1. Ex!PipelineNext \/ Ex!LimiterNext \/ UNCHANGED <<Ex!pipelineVars, Ex!limiterVars>>
    BY <1>3, PartSteps DEF partVars, Ex!pipelineVars, Ex!limiterVars
  <2>2. Ex!PipelineInv' /\ Ex!LimiterInv'
    BY <1>3, <2>1, ServicesAssumption, Ex!PipelineInvNext, Ex!LimiterInvNext
      DEF ExecutorsInv
  <2> QED BY <1>3, <2>2, PartSteps DEF ExecutorsInv
<1> QED BY <1>1, <1>2, <1>3, PartSteps DEF ExecutorsInv

\* Whatever the tasks, the workers, the callers and the limits: no slot is lost
\* or made, no task is executed twice, and its result is sent once.
THEOREM ExecutorsAreSound == Spec => []ExecutorsSound
<1>1. ExecutorsInv => ExecutorsSound
  BY ServicesAssumption, Ex!AsyncInvSound, Ex!BgInvSound, Ex!PipelineInvSound
     DEF ExecutorsInv, ExecutorsSound
<1> QED BY <1>1, ExecutorsInit, ExecutorsNext, PTL DEF Spec

-----------------------------------------------------------------------------
(* The streams and the values.                                             *)

StreamsInv ==
    /\ part = "graphStream" => Ex!GraphStreamInv
    /\ part = "duplex" => Ex!DuplexInv
    /\ part = "events" => Ex!EventsInv
    /\ part = "remote" => Ex!RemoteInv
    /\ part \in {"config", "managed", "scratchpad"} => Ex!ValuesInv

LEMMA StreamsInit == Init => StreamsInv
<1>1. Ex!StreamInit => Ex!GraphStreamInv
  BY Ex!GraphStreamInvInit
<1>2. Ex!DuplexInit => Ex!DuplexInv
  BY ServicesAssumption, Ex!DuplexInvInit
<1>3. Ex!EventsInit => Ex!EventsInv
  BY Ex!EventsInvInit
<1>4. Ex!RemoteInit => Ex!RemoteInv
  BY ServicesAssumption, Ex!RemoteInvInit
<1>5. Ex!ValuesInit => Ex!ValuesInv
  BY Ex!ValuesInvInit
<1> QED BY <1>1, <1>2, <1>3, <1>4, <1>5 DEF Init, StreamsInv

LEMMA StreamsNext == ASSUME StreamsInv, Next \/ UNCHANGED vars PROVE StreamsInv'
<1>1. CASE part = "graphStream"
  <2>1. Ex!StreamNext \/ UNCHANGED Ex!streamVars
    BY <1>1, PartSteps DEF partVars, Ex!streamVars
  <2>2. Ex!GraphStreamInv'
    BY <1>1, <2>1, Ex!GraphStreamInvNext DEF StreamsInv
  <2> QED BY <1>1, <2>2, PartSteps DEF StreamsInv
<1>2. CASE part = "duplex"
  <2>1. Ex!DuplexNext \/ UNCHANGED Ex!channelStreamVars
    BY <1>2, PartSteps DEF partVars, Ex!channelStreamVars
  <2>2. Ex!DuplexInv'
    BY <1>2, <2>1, ServicesAssumption, Ex!DuplexInvNext DEF StreamsInv
  <2> QED BY <1>2, <2>2, PartSteps DEF StreamsInv
<1>3. CASE part = "events"
  <2>1. Ex!EventsNext \/ UNCHANGED Ex!eventVars
    BY <1>3, PartSteps DEF partVars, Ex!eventVars
  <2>2. Ex!EventsInv'
    BY <1>3, <2>1, Ex!EventsInvNext DEF StreamsInv
  <2> QED BY <1>3, <2>2, PartSteps DEF StreamsInv
<1>4. CASE part = "remote"
  <2>1. Ex!RemoteNext \/ UNCHANGED Ex!remoteVars
    BY <1>4, PartSteps DEF partVars, Ex!remoteVars
  <2>2. Ex!RemoteInv'
    BY <1>4, <2>1, ServicesAssumption, Ex!RemoteInvNext DEF StreamsInv
  <2> QED BY <1>4, <2>2, PartSteps DEF StreamsInv
<1>5. CASE part \in {"config", "managed", "scratchpad"}
  <2>1. \/ Ex!ConfigNext \/ Ex!ManagedNext \/ Ex!PadNext
        \/ UNCHANGED <<Ex!configVars, Ex!managedVars, Ex!padVars>>
    BY <1>5, PartSteps DEF partVars, Ex!configVars, Ex!managedVars, Ex!padVars
  <2>2. Ex!ValuesInv'
    BY <1>5, <2>1, Ex!ValuesInvNext DEF StreamsInv
  <2> QED BY <1>5, <2>2, PartSteps DEF StreamsInv
<1> QED BY <1>1, <1>2, <1>3, <1>4, <1>5, PartSteps DEF StreamsInv

\* Whatever the producers, the calls, the emitters and the tasks, and however
\* much the channels hold: what a stream takes is delivered once and in order
\* unless somebody closes it early, no two calls of a remote graph return one
\* answer, and its panics have the causes that are named; and nobody's
\* configuration or stack changes with another's writes.
THEOREM StreamsAreSound == Spec => []StreamsSound
<1>1. StreamsInv => StreamsSound
  BY ServicesAssumption, Ex!GraphStreamInvSound, Ex!DuplexInvSound,
     Ex!EventsInvSound, Ex!RemoteInvSound, Ex!ValuesInvSound
    DEF StreamsInv, StreamsSound
<1> QED BY <1>1, StreamsInit, StreamsNext, PTL DEF Spec

-----------------------------------------------------------------------------
(* The checkpoints and the stores.                                         *)

StorageInv ==
    /\ part = "manager" => Ex!ManagerInv
    /\ part = "saver" => Ex!SaversInv
    /\ part = "postgres" => Ex!PgInv
    /\ part = "store" => Ex!StoreInv

LEMMA StorageInit == Init => StorageInv
<1>1. Ex!ManagerInit => Ex!ManagerInv
  BY ServicesAssumption, Ex!ManagerInvInit
<1>2. Ex!SaversInit => Ex!SaversInv
  BY ServicesAssumption, Ex!SaversInvInit
<1>3. Ex!PgInit => Ex!PgInv
  BY Ex!PgInvInit
<1>4. Ex!StoreInit => Ex!StoreInv
  BY Ex!StoreInvInit
<1> QED BY <1>1, <1>2, <1>3, <1>4 DEF Init, StorageInv

LEMMA StorageNext == ASSUME StorageInv, Next \/ UNCHANGED vars PROVE StorageInv'
<1>1. CASE part = "manager"
  <2>1. Ex!ManagerNext \/ UNCHANGED Ex!managerVars
    BY <1>1, PartSteps DEF partVars, Ex!managerVars
  <2>2. Ex!ManagerInv'
    BY <1>1, <2>1, ServicesAssumption, Ex!ManagerInvNext DEF StorageInv
  <2> QED BY <1>1, <2>2, PartSteps DEF StorageInv
<1>2. CASE part = "saver"
  <2>1. Ex!SaversNext \/ UNCHANGED Ex!saverVars
    BY <1>2, PartSteps DEF partVars, Ex!saverVars
  <2>2. Ex!SaversInv'
    BY <1>2, <2>1, ServicesAssumption, Ex!SaversInvNext DEF StorageInv
  <2> QED BY <1>2, <2>2, PartSteps DEF StorageInv
<1>3. CASE part = "postgres"
  <2>1. Ex!PgNext \/ UNCHANGED Ex!pgVars
    BY <1>3, PartSteps DEF partVars, Ex!pgVars
  <2>2. Ex!PgInv'
    BY <1>3, <2>1, ServicesAssumption, Ex!PgInvNext DEF StorageInv
  <2> QED BY <1>3, <2>2, PartSteps DEF StorageInv
<1>4. CASE part = "store"
  <2>1. Ex!StoreNext \/ UNCHANGED Ex!storeVars
    BY <1>4, PartSteps DEF partVars, Ex!storeVars
  <2>2. Ex!StoreInv'
    BY <1>4, <2>1, ServicesAssumption, Ex!StoreInvNext DEF StorageInv
  <2> QED BY <1>4, <2>2, PartSteps DEF StorageInv
<1> QED BY <1>1, <1>2, <1>3, <1>4, PartSteps DEF StorageInv

\* Whatever the threads, the clients and what they make of the versions, the
\* ids, the keys and the bounds: a history keeps to its parents also when saves
\* conflict, a saver finds what was last put, no reader of Postgres goes back,
\* and what has expired stays hidden.
THEOREM StorageIsSound == Spec => []StorageSound
<1>1. StorageInv => StorageSound
  BY ServicesAssumption, Ex!ManagerInvSound, Ex!SaversInvSound, Ex!PgInvSound,
     Ex!StoreInvSound DEF StorageInv, StorageSound
<1> QED BY <1>1, StorageInit, StorageNext, PTL DEF Spec

-----------------------------------------------------------------------------
(* The retries and the cache.                                              *)

RetryAndCacheInv ==
    /\ part = "retry" => Ex!RetryInv
    /\ part = "cache" => Ex!CacheInv

LEMMA RetryAndCacheInit == Init => RetryAndCacheInv
<1>1. Ex!RetryInit => Ex!RetryInv
  BY ServicesAssumption, Ex!RetryInvInit
<1>2. Ex!CacheInit => Ex!CacheInv
  BY ServicesAssumption, Ex!CacheInvInit
<1> QED BY <1>1, <1>2 DEF Init, RetryAndCacheInv

LEMMA RetryAndCacheNext ==
    ASSUME RetryAndCacheInv, Next \/ UNCHANGED vars PROVE RetryAndCacheInv'
<1>1. CASE part = "retry"
  <2>1. Ex!RetryNext \/ UNCHANGED Ex!retryVars
    BY <1>1, PartSteps DEF partVars, Ex!retryVars
  <2>2. Ex!RetryInv'
    BY <1>1, <2>1, ServicesAssumption, Ex!RetryInvNext DEF RetryAndCacheInv
  <2> QED BY <1>1, <2>2, PartSteps DEF RetryAndCacheInv
<1>2. CASE part = "cache"
  <2>1. Ex!CacheNext \/ UNCHANGED Ex!cacheVars
    BY <1>2, PartSteps DEF partVars, Ex!cacheVars, Ex!settings
  <2>2. Ex!CacheInv'
    BY <1>2, <2>1, ServicesAssumption, Ex!CacheInvNext DEF RetryAndCacheInv
  <2> QED BY <1>2, <2>2, PartSteps DEF RetryAndCacheInv
<1> QED BY <1>1, <1>2, PartSteps DEF RetryAndCacheInv

\* Whatever the policies' attempts and jitter, the powers that do not shrink,
\* the callers, the workers, the sizes and the times to live: no executor calls
\* the function more often than its bound or waits longer than MaxInterval or,
\* as long as the numbers fit, less than half of its interval; and what a cache
\* returns is its key's and not too old.
THEOREM RetriesAndCachesAreSound == Spec => []RetryAndCacheSound
<1>1. RetryAndCacheInv => RetryAndCacheSound
  BY ServicesAssumption, Ex!RetryInvSound, Ex!CacheInvSound
     DEF RetryAndCacheInv, RetryAndCacheSound
<1> QED BY <1>1, RetryAndCacheInit, RetryAndCacheNext, PTL DEF Spec
=============================================================================
