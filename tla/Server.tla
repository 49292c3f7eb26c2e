------------------------------- MODULE Server -------------------------------
(***************************************************************************)
(* The HTTP server (server/server.go): graphs, assistants, threads and     *)
(* runs in maps under one lock, the goroutine that executes a run, and the *)
(* handlers that wait for a run or execute a batch.  A request that is     *)
(* refused (an unknown id, a body that cannot be read, a wrong method or   *)
(* token) changes nothing and is left out.                                 *)
(*                                                                         *)
(* Ids are numbers that are used once.  The server keeps pointers, so that *)
(* an execution goes on with a run that was deleted.  What Invoke returns  *)
(* is external.  Metadata is reduced to the graph of an assistant.         *)
(***************************************************************************)
EXTENDS Integers, Sequences, FiniteSets

CONSTANTS
    GraphId, RunId,
    Handler,        \* requests that wait or run a batch
    MaxServerIds,   \* bound: assistants, and threads
    MaxPolls,       \* polls of a wait, 300 in the code
    MaxUpdates      \* bound: updates of an assistant or a thread

\* 0 is no id.
ASSUME ServerAssumption == 0 \notin RunId /\ MaxServerIds \in Nat

VARIABLES
    graphs, assistants, threads,
    runs,           \* the ids in the map
    runOf,          \* run -> the object
    exec,           \* run -> where its goroutine is
    locked,         \* the run whose end is being written under the lock
    made,           \* how many assistants and threads were made
    handler,        \* handler -> its request
    answers,        \* history: runs and statuses that waits returned
    created         \* history: the runs in the order of their creation

serverVars == <<graphs, assistants, threads, runs, runOf, exec, locked, made,
                handler, answers, created>>

None == 0
Ids == 1 .. MaxServerIds
NoRun == [thread |-> None, assistant |-> None, status |-> "none",
          output |-> FALSE]
NoRequest == [pc |-> "idle", run |-> None, polls |-> 0, rest |-> 0,
              results |-> <<>>]
Empty == <<>>

ServerInit ==
    /\ graphs = {} /\ assistants = Empty /\ threads = Empty
    /\ runs = {} /\ runOf = [r \in RunId |-> NoRun]
    /\ exec = [r \in RunId |-> "none"]
    /\ locked = None /\ made = [assistants |-> 0, threads |-> 0]
    /\ handler = [h \in Handler |-> NoRequest]
    /\ answers = {} /\ created = <<>>

\* f with x mapped to y, and f without x.
With(f, x, y) == [z \in DOMAIN f \cup {x} |-> IF z = x THEN y ELSE f[z]]
Without(f, x) == [z \in DOMAIN f \ {x} |-> f[z]]

Unlocked == locked = None
runVars == <<made, runs, runOf, exec, locked, answers, created>>

-----------------------------------------------------------------------------
(* Graphs, assistants and threads.                                         *)

RegisterGraph(g) ==
    /\ Unlocked
    /\ graphs' = graphs \cup {g}
    /\ UNCHANGED <<assistants, threads, handler, runVars>>

CreateAssistant(a, g) ==
    /\ Unlocked /\ g \in graphs /\ a = made.assistants + 1
    /\ made' = [made EXCEPT !.assistants = a]
    /\ assistants' = With(assistants, a, [graph |-> g, version |-> 1])
    /\ UNCHANGED <<graphs, threads, handler, runs, runOf, exec, locked, answers,
                   created>>

UpdateAssistant(a) ==
    /\ Unlocked /\ a \in DOMAIN assistants
    /\ assistants[a].version <= MaxUpdates
    /\ assistants' = [assistants EXCEPT ![a].version = @ + 1]
    /\ UNCHANGED <<graphs, threads, handler, runVars>>

DeleteAssistant(a) ==
    /\ Unlocked /\ a \in DOMAIN assistants
    /\ assistants' = Without(assistants, a)
    /\ UNCHANGED <<graphs, threads, handler, runVars>>

\* The filter by graph; a search returns some of the matches, a count all.
Matches(g) == {a \in DOMAIN assistants : assistants[a].graph = g}
SearchAssistants(g, limit) ==
    {S \in SUBSET Matches(g) :
        LET n == Cardinality(Matches(g)) IN
        Cardinality(S) = IF limit < n THEN limit ELSE n}
CountAssistants(g) == Cardinality(Matches(g))

\* The status of a thread stays as it is made.
CreateThread(t) ==
    /\ Unlocked /\ t = made.threads + 1
    /\ made' = [made EXCEPT !.threads = t]
    /\ threads' = With(threads, t, [status |-> "idle", updates |-> 0])
    /\ UNCHANGED <<graphs, assistants, handler, runs, runOf, exec, locked, answers,
                   created>>

\* UpdateThread; UpdateThreadState answers with the values it is given and
\* keeps none of them.
UpdateThread(t) ==
    /\ Unlocked /\ t \in DOMAIN threads /\ threads[t].updates < MaxUpdates
    /\ threads' = [threads EXCEPT ![t].updates = @ + 1]
    /\ UNCHANGED <<graphs, assistants, handler, runVars>>

\* The runs of the thread stay, and so do their executions.
DeleteThread(t) ==
    /\ Unlocked /\ t \in DOMAIN threads
    /\ threads' = Without(threads, t)
    /\ UNCHANGED <<graphs, assistants, handler, runVars>>

-----------------------------------------------------------------------------
(* Runs.                                                                   *)

\* t is None for a run without a thread.  The goroutine is started.
CreateRun(r, a, t) ==
    /\ Unlocked /\ exec[r] = "none"
    /\ a \in DOMAIN assistants /\ t \in DOMAIN threads \cup {None}
    /\ assistants[a].graph \in graphs
    /\ runs' = runs \cup {r}
    /\ runOf' = [runOf EXCEPT ![r] = [thread |-> t, assistant |-> a,
                                      status |-> "pending", output |-> FALSE]]
    /\ exec' = [exec EXCEPT ![r] = "start"]
    /\ created' = Append(created, r)
    /\ UNCHANGED <<graphs, assistants, threads, made, handler, locked, answers>>

\* executeRun: the run is taken as running, whether it is listed or not.
ExecuteStart(r) ==
    /\ Unlocked /\ exec[r] = "start"
    /\ runOf' = [runOf EXCEPT ![r].status = "running"]
    /\ exec' = [exec EXCEPT ![r] = "invoke"]
    /\ UNCHANGED <<graphs, assistants, threads, made, handler, runs, locked, answers,
                   created>>

\* Mutant: the status a run ends with is written over by a second result.
ExecuteEnd_Again(r, s) ==
    /\ Unlocked /\ exec[r] \in {"invoke", "ended"}
    /\ runOf' = [runOf EXCEPT ![r].status = s]
    /\ locked' = r
    /\ exec' = [exec EXCEPT ![r] = "output"]
    /\ UNCHANGED <<graphs, assistants, threads, made, handler, runs, answers, created>>

\* Mutant: the lock is given up before the output is written.
ExecuteEnd_Unlocks(r, s) ==
    /\ Unlocked /\ exec[r] = "invoke"
    /\ runOf' = [runOf EXCEPT ![r].status = s]
    /\ exec' = [exec EXCEPT ![r] = "output"]
    /\ UNCHANGED <<graphs, assistants, threads, made, handler, runs, locked, answers, created>>

\* Invoke has returned: the status is written, with the lock held ...
ExecuteEnd(r, s) ==
    /\ Unlocked /\ exec[r] = "invoke"
    /\ runOf' = [runOf EXCEPT ![r].status = s]
    /\ locked' = r
    /\ exec' = [exec EXCEPT ![r] = "output"]
    /\ UNCHANGED <<graphs, assistants, threads, made, handler, runs, answers, created>>

\* ... and then the output, or the error in the metadata.
ExecuteOutput(r) ==
    /\ locked = r /\ exec[r] = "output"
    /\ runOf' = [runOf EXCEPT ![r].output = TRUE]
    /\ locked' = None
    /\ exec' = [exec EXCEPT ![r] = "ended"]
    /\ UNCHANGED <<graphs, assistants, threads, made, handler, runs, answers, created>>

\* The execution is not told.
DeleteRun(r) ==
    /\ Unlocked /\ r \in runs
    /\ runs' = runs \ {r}
    /\ UNCHANGED <<graphs, assistants, threads, made, handler, runOf, exec, locked,
                   answers, created>>

\* GET runs and history of a thread.
ListThreadRuns(t) == {r \in runs : runOf[r].thread = t}

\* GET state: what the thread's latest run shows.
Position(r) == CHOOSE i \in DOMAIN created : created[i] = r
GetThreadState(t) ==
    IF ListThreadRuns(t) = {} THEN [status |-> "idle", values |-> FALSE]
    ELSE LET latest == CHOOSE r \in ListThreadRuns(t) :
                         \A q \in ListThreadRuns(t) : Position(q) <= Position(r)
         IN  [status |-> runOf[latest].status, values |-> runOf[latest].output]

-----------------------------------------------------------------------------
(* Waiting for a run.                                                      *)

WaitRun(h, r) ==
    /\ handler[h].pc = "idle"
    /\ handler' = [handler EXCEPT ![h] = [NoRequest EXCEPT !.pc = "poll", !.run = r]]
    /\ UNCHANGED <<graphs, assistants, threads, runVars>>

\* The pointer is read under the lock; an unknown run ends the wait.
WaitLookup(h) ==
    /\ handler[h].pc = "poll" /\ Unlocked
    /\ handler' = [handler EXCEPT ![h].pc =
                     IF handler[h].polls = MaxPolls THEN "timeout"
                     ELSE IF handler[h].run \in runs THEN "look" ELSE "unknown"]
    /\ UNCHANGED <<graphs, assistants, threads, runVars>>

Ended(r) == runOf[r].status \in {"success", "error"}

\* Mutant: whatever the run's status is.
WaitLook_Any(h) ==
    LET r == handler[h].run
    IN  /\ handler[h].pc = "look"
        /\ handler' = [handler EXCEPT ![h].pc = "done"]
        /\ answers' = answers \cup {<<r, runOf[r].status>>}
        /\ UNCHANGED <<graphs, assistants, threads, made, runs, runOf, exec,
                       locked, created>>

\* Its status is read and the run is encoded without the lock, also while
\* its end is being written.
WaitLook(h) ==
    LET r == handler[h].run
    IN  /\ handler[h].pc = "look"
        /\ handler' = IF Ended(r) THEN [handler EXCEPT ![h].pc = "done"]
                      ELSE [handler EXCEPT ![h].pc = "poll", ![h].polls = @ + 1]
        /\ answers' = IF Ended(r) THEN answers \cup {<<r, runOf[r].status>>}
                                  ELSE answers
        /\ UNCHANGED <<graphs, assistants, threads, made, runs, runOf, exec,
                       locked, created>>

-----------------------------------------------------------------------------
(* A batch: one after the other, without runs.                             *)

BatchRuns(h, n) ==
    /\ handler[h].pc = "idle"
    /\ handler' = [handler EXCEPT ![h] = [NoRequest EXCEPT !.pc = "batch", !.rest = n]]
    /\ UNCHANGED <<graphs, assistants, threads, runVars>>

\* An assistant or a graph that is gone is an error of this one.
BatchLookup(h, a) ==
    LET found == a \in DOMAIN assistants /\ assistants[a].graph \in graphs
    IN  /\ handler[h].pc = "batch" /\ handler[h].rest > 0 /\ Unlocked
        /\ handler' = [handler EXCEPT
                         ![h].rest = @ - 1,
                         ![h].pc = IF found THEN "invoke" ELSE "batch",
                         ![h].results = IF found THEN @ ELSE Append(@, "missing")]
        /\ UNCHANGED <<graphs, assistants, threads, runVars>>

BatchInvoke(h, s) ==
    /\ handler[h].pc = "invoke"
    /\ handler' = [handler EXCEPT ![h].pc = "batch", ![h].results = Append(@, s)]
    /\ UNCHANGED <<graphs, assistants, threads, runVars>>

\* The answer is sent; the handler is free for another request.
Answered(h) ==
    /\ \/ handler[h].pc \in {"done", "unknown", "timeout"}
       \/ handler[h].pc = "batch" /\ handler[h].rest = 0
    /\ handler' = [handler EXCEPT ![h] = NoRequest]
    /\ UNCHANGED <<graphs, assistants, threads, runVars>>

ServerNext ==
    \/ \E g \in GraphId : RegisterGraph(g)
    \/ \E a \in Ids, g \in GraphId : CreateAssistant(a, g)
    \/ \E a \in Ids : UpdateAssistant(a) \/ DeleteAssistant(a)
    \/ \E t \in Ids : CreateThread(t) \/ UpdateThread(t) \/ DeleteThread(t)
    \/ \E r \in RunId, a \in Ids, t \in Ids \cup {None} : CreateRun(r, a, t)
    \/ \E r \in RunId : ExecuteStart(r) \/ ExecuteOutput(r) \/ DeleteRun(r)
    \/ \E r \in RunId, s \in {"success", "error"} : ExecuteEnd(r, s)
    \/ \E h \in Handler, r \in RunId : WaitRun(h, r)
    \/ \E h \in Handler : WaitLookup(h) \/ WaitLook(h) \/ Answered(h)
    \/ \E h \in Handler : BatchRuns(h, 2)
    \/ \E h \in Handler, a \in Ids : BatchLookup(h, a)
    \/ \E h \in Handler, s \in {"success", "error"} : BatchInvoke(h, s)

ServerSpec == ServerInit /\ [][ServerNext]_serverVars

-----------------------------------------------------------------------------
(* Properties.                                                             *)

RunStatus == [r \in RunId |-> runOf[r].status]
Lifecycle == INSTANCE RunLifecycle WITH
    runStatus <- RunStatus, known <- runs, answered <- answers

\* The server implements RunLifecycle: a run goes from pending to running to
\* one final status, deleting it or its thread changes nothing of that, and a
\* wait returns only the status it ends with (executeRun, handleWaitRun).
RunsImplementLifecycle == Lifecycle!Spec

\* The thread's state, which readers get under the lock, is whole: it shows a
\* status with the output that belongs to it, and it is idle only without
\* runs.  A search within the limit finds what the count counts.
ThreadStateIsWhole ==
    Unlocked =>
        /\ \A t \in DOMAIN threads :
             LET state == GetThreadState(t)
             IN  /\ (state.status = "idle") = (ListThreadRuns(t) = {})
                 /\ state.values = (state.status \in {"success", "error"})
        /\ \A g \in GraphId : SearchAssistants(g, CountAssistants(g)) = {Matches(g)}
=============================================================================
