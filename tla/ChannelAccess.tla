---------------------------- MODULE ChannelAccess ----------------------------
(***************************************************************************)
(* Writing to and reading from the channels of a graph outside the engine: *)
(* ChannelWrite and the WriteContexts that share it                        *)
(* (graphengine/pregel/write.go), and the triggers of a ReadContext        *)
(* (read.go); a Read itself changes nothing.  The channels accumulate what *)
(* is written to them, an overwrite replaces it; entries are numbered, and *)
(* an entry has a channel, a value, "good", "nil" or "odd", and a flag     *)
(* overwrite.                                                              *)
(***************************************************************************)
EXTENDS Integers, Sequences, FiniteSets, SequencesExt

CONSTANTS
    Context,        \* WriteContexts; each has one batch
    First, Second,  \* the channels of the registry
    Unknown,        \* a name that is not registered
    Entries,        \* the entries that are written
    MaxEntries,     \* bound: entries made
    MaxFlushes,     \* bound: calls of Write and Flush
    MaxApplied      \* bound: supersteps of the engine

Chan == {First, Second}

VARIABLES
    transformer, validator,
    entries,        \* of the ChannelWrite: pending numbers
    entry,          \* number -> the entry
    batch,          \* context -> the numbers in its batch
    flush,          \* context -> where its Flush is
    channel,        \* channel -> the numbers it holds
    written,        \* history: the numbers applied, in order
    added,          \* history: the numbers added to the ChannelWrite, in order
    failures,       \* history: Writes that failed
    flushes,        \* history: Writes and Flushes begun
    version,        \* channel -> its version, which the engine sets
    lastVersion,    \* channel -> what its ChannelChangedTrigger saw last
    executions,     \* history: how often ShouldExecute returned true
    quiet           \* history: its last answer was false, with these versions

writeVars == <<transformer, validator, entries, entry, batch, flush, channel, written,
               added, failures, flushes>>
readVars == <<version, lastVersion, executions, quiet>>

AccessInit ==
    /\ transformer \in {"identity", "mapping", "prefix", "filter"}
    /\ validator \in {"none", "nonNull", "type"}
    /\ entries = <<>> /\ entry = <<>>
    /\ batch = [x \in Context |-> <<>>] /\ flush = [x \in Context |-> "idle"]
    /\ channel = [c \in Chan |-> <<>>]
    /\ written = <<>> /\ added = <<>> /\ failures = 0 /\ flushes = 0
    /\ version = [c \in Chan |-> 0] /\ lastVersion = [c \in Chan |-> -1]
    /\ executions = 0 /\ quiet = <<>>

-----------------------------------------------------------------------------
(* Entries.                                                                *)

Valid(e) ==
    CASE validator = "none" -> TRUE
      [] validator = "nonNull" -> e.channel = First \/ e.value # "nil"   \* First is whitelisted
      [] validator = "type" -> e.value # "odd"

\* The filter's error for an entry it leaves out is an error like any other;
\* a prefixed name is one nobody has registered.
Transforms(e) == transformer = "filter" => e.value # "odd"
Target(e) ==
    CASE transformer = "mapping" -> IF e.channel = First THEN Second ELSE e.channel
      [] transformer = "prefix" -> Unknown
      [] OTHER -> e.channel

\* The Update of a channel may refuse a value: Second takes only known ones, as
\* a barrier does.
Updates(e) == Target(e) = First \/ (Target(e) = Second /\ e.value # "odd")

Accepted(e) == Valid(e) /\ Transforms(e) /\ Updates(e)

\* How many of the entries q are applied: Write ends at the first that fails.
Applied(q) ==
    LET bad == {i \in 1 .. Len(q) : ~Accepted(entry[q[i]])}
    IN  IF bad = {} THEN Len(q) ELSE (CHOOSE i \in bad : \A j \in bad : i <= j) - 1

Update(ch, n) ==
    LET c == Target(entry[n])
    IN  [ch EXCEPT ![c] = IF entry[n].overwrite THEN <<n>> ELSE Append(@, n)]

-----------------------------------------------------------------------------
(* Writing.                                                                *)

\* Mutant: the entries are forgotten when one of them fails.
Write_Forgets ==
    LET k == Applied(entries) IN
    /\ channel' = FoldLeft(Update, channel, SubSeq(entries, 1, k))
    /\ written' = written \o SubSeq(entries, 1, k)
    /\ entries' = <<>>
    /\ failures' = IF k = Len(entries) THEN failures ELSE failures + 1

\* Under the lock.  After a failure all the entries stay pending, those that
\* have been applied, too.
Write ==
    LET k == Applied(entries) IN
    /\ channel' = FoldLeft(Update, channel, SubSeq(entries, 1, k))
    /\ written' = written \o SubSeq(entries, 1, k)
    /\ entries' = IF k = Len(entries) THEN <<>> ELSE entries
    /\ failures' = IF k = Len(entries) THEN failures ELSE failures + 1

\* AddEntry, WriteTo, Overwrite and WriteNode; or Add of the batch of x.
AddEntry(e, x) ==
    LET n == Len(entry) + 1 IN
    /\ n <= MaxEntries /\ entry' = Append(entry, e)
    /\ IF x \in Context
         THEN /\ flush[x] # "write" /\ flush' = [flush EXCEPT ![x] = "idle"]
              /\ batch' = [batch EXCEPT ![x] = Append(@, n)] /\ UNCHANGED <<entries, added>>
         ELSE entries' = Append(entries, n) /\ added' = Append(added, n) /\ UNCHANGED <<batch, flush>>
    /\ UNCHANGED <<transformer, validator, channel, written, failures, flushes, readVars>>

DirectWrite ==
    /\ flushes < MaxFlushes /\ flushes' = flushes + 1 /\ Write
    /\ UNCHANGED <<transformer, validator, entry, batch, flush, added, readVars>>

\* WriteContext.Flush: the batch, which keeps its entries, is added,
FlushAdds(x) ==
    /\ flush[x] \in {"idle", "done", "failed"} /\ flushes < MaxFlushes /\ flushes' = flushes + 1
    /\ entries' = entries \o batch[x] /\ added' = added \o batch[x]
    /\ flush' = [flush EXCEPT ![x] = "write"]
    /\ UNCHANGED <<transformer, validator, entry, batch, channel, written, failures, readVars>>

\* and everything that is pending by then is written.
FlushWrites(x) ==
    /\ flush[x] = "write" /\ Write
    /\ flush' = [flush EXCEPT ![x] = IF failures' > failures THEN "failed" ELSE "done"]
    /\ UNCHANGED <<transformer, validator, entry, batch, added, flushes, readVars>>

-----------------------------------------------------------------------------
(* Reading.                                                                *)

\* applyWrites of the engine: it alone sets the version.
EngineApplies(c) ==
    /\ version[c] < MaxApplied /\ version' = [version EXCEPT ![c] = @ + 1]
    /\ UNCHANGED <<lastVersion, executions, quiet, writeVars>>

Changed(c) == version[c] # lastVersion[c]

\* The triggers in turn, up to the first that fires: only that one notes what
\* it saw.
ShouldExecute ==
    /\ executions < 2 * MaxApplied + 2
    /\ lastVersion' = IF Changed(First) THEN [lastVersion EXCEPT ![First] = version[First]]
                      ELSE [lastVersion EXCEPT ![Second] = version[Second]]
    /\ executions' = IF \E c \in Chan : Changed(c) THEN executions + 1 ELSE executions
    /\ quiet' = IF \E c \in Chan : Changed(c) THEN <<>> ELSE version
    /\ UNCHANGED <<version, writeVars>>

WriteNext ==
    \/ \E e \in Entries, x \in Context \cup {Unknown} : AddEntry(e, x)
    \/ DirectWrite
    \/ \E x \in Context : FlushAdds(x) \/ FlushWrites(x)
ReadNext == ShouldExecute \/ \E c \in Chan : EngineApplies(c)

-----------------------------------------------------------------------------
(* Properties.                                                             *)

Times(n, q) == Cardinality({i \in 1 .. Len(q) : q[i] = n})

\* No entry is lost: each time it was added it is pending or has been written,
\* and, as long as no Write has failed, written once.  A Flush that succeeded
\* leaves none of its entries behind, whoever wrote them.  An entry that was
\* refused is in no channel, and the entries a channel holds are in the order
\* in which they were written.
WritesAreKept ==
    /\ \A n \in 1 .. Len(entry) :
         /\ Times(n, written) + Times(n, entries) >= Times(n, added)
         /\ failures = 0 => Times(n, written) + Times(n, entries) = Times(n, added)
         /\ n \in ToSet(written) => Accepted(entry[n])
    /\ \A x \in Context : flush[x] = "done" => ToSet(batch[x]) \subseteq ToSet(written)
    /\ \A c \in Chan : \E i \in 0 .. Len(written) :
         channel[c] = SelectSeq(SubSeq(written, i + 1, Len(written)),
                                LAMBDA n : Target(entry[n]) = c)

\* A context that is told not to execute has seen every version, and it
\* executes at most once for each of them.
TriggersMissNothing ==
    /\ executions <= (version[First] + 1) + (version[Second] + 1)
    /\ quiet # <<>> => \A c \in Chan : quiet[c] <= lastVersion[c]
==============================================================================
