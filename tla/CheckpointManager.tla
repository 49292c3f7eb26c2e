------------------------- MODULE CheckpointManager -------------------------
(***************************************************************************)
(* CheckpointManager (graphengine/checkpoint/checkpoint.go): per thread a  *)
(* history of checkpoints, newest last, with versions.  One lock makes     *)
(* every operation atomic; a client that loads a checkpoint, changes it    *)
(* and saves it does so in two operations, between which others save.      *)
(*                                                                         *)
(* A value is the number of the write that made it.  Ids (uuids) are       *)
(* numbers that are never used twice.  A client gives up the object it has *)
(* saved, of which the history keeps the pointer.                          *)
(***************************************************************************)
EXTENDS Integers, Sequences, FiniteSets, SequencesExt

CONSTANTS
    CpThread, CpClient, CpChannel,
    MaxVersions,    \* versions a thread keeps when it saves
    VersionSteps,   \* by how much clients raise the version of what they save
    MaxId           \* bound: checkpoints made, clones included

NoId == 0
NewId == -1     \* an id that no history has
NoCheckpoint == [id |-> NoId]

VARIABLES
    checkpoints,    \* thread -> its history
    held,           \* client -> the checkpoint it works on
    nextId

managerVars == <<checkpoints, held, nextId>>

CpWrite == 0 .. MaxId

Checkpoint == [id : 1 .. MaxId, version : Nat, parent : 0 .. MaxId,
               thread : CpThread, state : [CpChannel -> CpWrite],
               channelVersions : [CpChannel -> Nat],
               behind : BOOLEAN]    \* history: saved right behind its parent

ManagerInit ==
    /\ checkpoints = [t \in CpThread |-> <<>>]
    /\ held = [c \in CpClient |-> NoCheckpoint]
    /\ nextId = 1

\* Every id made here is new.
Fresh == nextId <= MaxId /\ nextId' = nextId + 1

NewCheckpoint(t) ==
    [id |-> nextId, version |-> 0, parent |-> NoId, thread |-> t,
     state |-> [ch \in CpChannel |-> 0],
     channelVersions |-> [ch \in CpChannel |-> 0], behind |-> FALSE]

CloneOf(cp) == [cp EXCEPT !.id = nextId, !.parent = cp.id, !.behind = FALSE]

\* A write to a channel, which is then at its next version.
IncrementChannel(cp, ch) == [cp EXCEPT !.channelVersions[ch] = @ + 1]
Apply(cp, ch) == IncrementChannel([cp EXCEPT !.state[ch] = cp.id], ch)

Latest(t) == Last(checkpoints[t])
HasAny(t) == checkpoints[t] # <<>>

-----------------------------------------------------------------------------
(* Reads.                                                                  *)

Newest(limit, n) == IF limit <= 0 \/ limit > n THEN n ELSE limit

\* What a read returns is a clone: nothing is found by its id, and its parent
\* is what was read.
Copy(cp) == [cp EXCEPT !.id = NewId, !.parent = cp.id, !.behind = FALSE]

\* The newest ones in the order of the history.
List(t, limit) ==
    LET n == Len(checkpoints[t])
        k == Newest(limit, n)
    IN  [i \in 1 .. k |-> Copy(checkpoints[t][n - k + i])]

\* The checkpoint at i and an id for the one before it, which is a clone's.
Tuple(t, i) == [checkpoint |-> Copy(checkpoints[t][i]),
                parentConfig |-> IF i > 1 THEN NewId ELSE NoId]

GetTuple(t) == Tuple(t, Len(checkpoints[t]))

\* Here it is the one that is stored.
GetLineage(t, limit) ==
    LET n == Len(checkpoints[t])
        k == Newest(limit, n)
        first == n - k
    IN  [i \in 1 .. k |->
           [Tuple(t, first + i) EXCEPT
              !.parentConfig = IF first + i > 1 THEN checkpoints[t][first + i - 1].id ELSE @]]

\* The first with the version; 0 if there is none.
IndexOfVersion(t, v) ==
    SelectInSeq(checkpoints[t], LAMBDA cp : cp.version = v)

GetTupleByVersion(t, v) == Tuple(t, IndexOfVersion(t, v))

-----------------------------------------------------------------------------
(* Operations.                                                             *)

\* A client makes a checkpoint of its own.
Begin(c, t) ==
    /\ held[c] = NoCheckpoint
    /\ Fresh
    /\ held' = [held EXCEPT ![c] = NewCheckpoint(t)]
    /\ UNCHANGED checkpoints

\* Load, or LoadByCheckpointID: a clone whose parent is what was loaded.
LoadAny(c, cp) ==
    /\ held[c] = NoCheckpoint
    /\ Fresh
    /\ held' = [held EXCEPT ![c] = CloneOf(cp)]
    /\ UNCHANGED checkpoints

Load(c, t) == HasAny(t) /\ LoadAny(c, Latest(t))

LoadByCheckpointID(c, t) ==
    \E i \in DOMAIN checkpoints[t] : LoadAny(c, checkpoints[t][i])

Trim(s) == IF Len(s) > MaxVersions
             THEN SubSeq(s, Len(s) - MaxVersions + 1, Len(s)) ELSE s

OnLatest(cp) == HasAny(cp.thread) /\ Latest(cp.thread).id = cp.parent

\* Mutant: only an older version than the next one is a conflict.
Conflict_Older(cp) == OnLatest(cp) /\ cp.version <= Latest(cp.thread).version

\* Only the checkpoint that is the latest is compared.
Conflict(cp) == OnLatest(cp) /\ Latest(cp.thread).version # cp.version - 1

\* Save with a conflict keeps the history; otherwise the checkpoint is
\* appended and the history cut.  The version is the client's affair.
Save(c, ch, by) ==
    /\ held[c] # NoCheckpoint
    /\ LET cp == Apply([held[c] EXCEPT !.version = @ + by, !.behind = OnLatest(held[c])], ch)
       IN  checkpoints' =
             IF Conflict(cp) THEN checkpoints
             ELSE [checkpoints EXCEPT ![cp.thread] = Trim(Append(@, cp))]
    /\ held' = [held EXCEPT ![c] = NoCheckpoint]
    /\ UNCHANGED nextId

\* Mutant: the version is that of the clone.
PutWrites_SameVersion(t, ch) ==
    /\ HasAny(t) /\ Fresh
    /\ checkpoints' = [checkpoints EXCEPT
                         ![t] = Append(@, Apply([CloneOf(Latest(t)) EXCEPT !.behind = TRUE], ch))]
    /\ UNCHANGED held

\* The lock is held while activeWrites has an entry, so that no other task
\* ever finds one.  The history is not cut.
PutWrites(t, ch) ==
    /\ HasAny(t) /\ Fresh
    /\ LET new == [CloneOf(Latest(t)) EXCEPT !.version = Latest(t).version + 1,
                                             !.behind = TRUE]
       IN  checkpoints' = [checkpoints EXCEPT ![t] = Append(@, Apply(new, ch))]
    /\ UNCHANGED held

Delete(t, i) ==
    /\ i \in DOMAIN checkpoints[t]
    /\ checkpoints' = [checkpoints EXCEPT ![t] = RemoveAt(@, i)]
    /\ UNCHANGED <<held, nextId>>

ClearThread(t) ==
    /\ checkpoints' = [checkpoints EXCEPT ![t] = <<>>]
    /\ UNCHANGED <<held, nextId>>

ClearAll ==
    /\ checkpoints' = [t \in CpThread |-> <<>>]
    /\ UNCHANGED <<held, nextId>>

ManagerNext ==
    \/ \E c \in CpClient, t \in CpThread :
         Begin(c, t) \/ Load(c, t) \/ LoadByCheckpointID(c, t)
    \/ \E c \in CpClient, ch \in CpChannel , by \in VersionSteps : Save(c, ch, by)
    \/ \E t \in CpThread, ch \in CpChannel : PutWrites(t, ch)
    \/ \E t \in CpThread, i \in 1 .. MaxId : Delete(t, i)
    \/ \E t \in CpThread : ClearThread(t)
    \/ ClearAll

ManagerSpec == ManagerInit /\ [][ManagerNext]_managerVars

-----------------------------------------------------------------------------
(* Properties.                                                             *)

\* Whatever clients make of the versions, and whatever is deleted, trimmed or
\* saved in between: a checkpoint is one channel write ahead of its parent, and
\* one that was saved while its parent was the latest is one version after it
\* and stays right behind it; no two checkpoints have one id.  (One whose parent
\* was overtaken has any version.)  The reads agree with the history: List has
\* the newest ones, the last of a lineage is GetTuple's, and of those with the
\* version that is asked for the oldest is found.
VersionsFollowParents ==
    \A t \in CpThread : \A i, j \in DOMAIN checkpoints[t] :
        LET p == checkpoints[t][i]
            q == checkpoints[t][j]
        IN  /\ p.id = q.id => i = j
            /\ q.parent = p.id =>
                 \E ch \in CpChannel :
                    q.channelVersions = [p.channelVersions EXCEPT ![ch] = @ + 1]
            /\ q.parent = p.id /\ q.behind => j = i + 1 /\ q.version = p.version + 1
            /\ Len(List(t, i)) = i /\ List(t, 0)[i].parent = p.id
            /\ Last(GetLineage(t, i)).checkpoint = GetTuple(t).checkpoint
            /\ j < i /\ q.version = p.version =>
                 GetTupleByVersion(t, p.version).checkpoint.parent # p.id
=============================================================================
