---------------------------- MODULE RuntimeValues ----------------------------
(***************************************************************************)
(* What the tasks of a run share by reference: configurations and Runtime  *)
(* (graphengine/managed/managed.go, graphengine/types/config.go), with     *)
(* maps that a copy may share; managed values, which keep what they read   *)
(* last; and the scratchpad with its counters and its stack                *)
(* (graphengine/types/scratchpad.go).                                      *)
(***************************************************************************)
EXTENDS Integers, Sequences, SequencesExt

CONSTANTS
    Task,           \* goroutines; their names are the values they write
    MaxObjects,     \* bound: configurations
    MaxWrites,      \* bound: Sets
    MaxPad          \* bound: operations on the scratchpad

VARIABLES
    objects,        \* configurations: the reference of their map, 0 for nil
    maps,           \* the maps: the value of the one key, or "unset"
    views,          \* history: the value each would have if all copies were deep
    aliased,        \* history: a configuration was given the map of another
    mapPanic,       \* a write to a nil map
    writes,
    shared,         \* the Value of a managed value all tasks use
    reading,        \* task -> where its Get is and the value it returns
    padData,        \* reference of the stack under the key, 0 for none
    stacks,         \* the Stack objects there have been
    padTask,        \* task -> what it does to the stack and what it has read
    counter,
    increments,     \* history
    reference,      \* history: the stack as one that nobody shares
    overlapped,     \* history: two operations on the stack overlapped
    padOps

configVars == <<objects, maps, views, aliased, mapPanic, writes>>
managedVars == <<shared, reading>>
padVars == <<padData, stacks, padTask, counter, increments, reference, overlapped, padOps>>

Rest == [pc |-> "idle", stack |-> 0, items |-> <<>>]

ValuesInit ==
    /\ \E m \in {0, 1} : objects = <<m>>
    /\ maps = <<"unset">> /\ views = <<"unset">> /\ aliased = FALSE /\ mapPanic = FALSE
    /\ writes = 0
    /\ shared = "zero"
    /\ reading \in [Task -> [pc : {"idle"}, has : BOOLEAN, spec : BOOLEAN, got : {"zero"}]]
    /\ padData = 0 /\ stacks = <<>> /\ padTask = [t \in Task |-> Rest]
    /\ counter = 0 /\ increments = 0 /\ reference = <<>> /\ overlapped = FALSE /\ padOps = 0

-----------------------------------------------------------------------------
(* Configurations.                                                         *)

Object == 1 .. Len(objects)
ValueOf(m) == IF m = 0 THEN "unset" ELSE maps[m]
View(o) == ValueOf(objects[o])

\* A further object; r is its map, which is new when it is one past the others.
Derived(r, value) ==
    /\ Len(objects) < MaxObjects /\ ~mapPanic
    /\ objects' = Append(objects, r)
    /\ maps' = IF r > Len(maps) THEN Append(maps, value) ELSE maps

\* Mutant: the clone has the map of its origin.
cloneMap_Same(o) == objects[o]

\* The reference of a copy of an object's map; a copy of nil is nil.
cloneMap(o) == IF objects[o] = 0 THEN 0 ELSE Len(maps) + 1

Clone(o) ==
    /\ Derived(cloneMap(o), View(o))
    /\ views' = Append(views, views[o])
    /\ UNCHANGED <<aliased, mapPanic, writes, managedVars, padVars>>

\* The fields that are overridden are the clone's own.
Override(o) == Clone(o)

\* Runtime.Merge: into a clone, which has no map to write to if o has none.
Merge(o, other) ==
    /\ ~mapPanic /\ Len(objects) < MaxObjects
    /\ IF View(other) # "unset" /\ objects[o] = 0
         THEN mapPanic' = TRUE /\ UNCHANGED <<objects, maps, views>>
         ELSE LET value == IF View(other) # "unset" THEN View(other) ELSE View(o)
                  copy == cloneMap(o)
              IN  /\ objects' = Append(objects, copy)
                  /\ maps' = IF copy > Len(maps) THEN Append(maps, value)
                             ELSE IF copy = 0 THEN maps ELSE [maps EXCEPT ![copy] = value]
                  /\ views' = Append(views, IF views[other] # "unset" THEN views[other] ELSE views[o])
                  /\ UNCHANGED mapPanic
    /\ UNCHANGED <<aliased, writes, managedVars, padVars>>

\* managed.PatchConfig: the entries, and so the reference, of the base.
PatchConfig(o) ==
    /\ Derived(objects[o], "unset")
    /\ views' = Append(views, views[o])
    /\ aliased' = (aliased \/ objects[o] # 0)
    /\ UNCHANGED <<mapPanic, writes, managedVars, padVars>>

\* PatchConfigurable: the updates go into the map of the base.
PatchConfigurable(o, v) ==
    /\ Len(objects) < MaxObjects /\ ~mapPanic
    /\ IF objects[o] = 0
         THEN objects' = Append(objects, Len(maps) + 1) /\ maps' = Append(maps, v)
         ELSE objects' = Append(objects, objects[o]) /\ maps' = [maps EXCEPT ![objects[o]] = v]
    /\ views' = Append(views, v)
    /\ aliased' = (aliased \/ objects[o] # 0)
    /\ UNCHANGED <<mapPanic, writes, managedVars, padVars>>

\* Set of Runtime and of RunnableConfig: a nil map is made first.
Set(o, v) ==
    /\ ~mapPanic /\ writes < MaxWrites /\ writes' = writes + 1
    /\ IF objects[o] = 0
         THEN objects' = [objects EXCEPT ![o] = Len(maps) + 1] /\ maps' = Append(maps, v)
         ELSE maps' = [maps EXCEPT ![objects[o]] = v] /\ UNCHANGED objects
    /\ views' = [views EXCEPT ![o] = v]
    /\ UNCHANGED <<aliased, mapPanic, managedVars, padVars>>

\* RunnableConfig.Merge, and Entrypoint.Invoke, which does so with its own
\* values: into the configuration itself.  A nil map of configurable values is
\* made first; one of metadata is written to.
MergeInto(o, other, field) ==
    /\ ~mapPanic /\ View(other) # "unset" /\ o # other /\ writes < MaxWrites
    /\ writes' = writes + 1
    /\ IF objects[o] = 0 /\ field = "Metadata"
         THEN mapPanic' = TRUE /\ UNCHANGED <<objects, maps, views>>
         ELSE /\ IF objects[o] = 0
                   THEN /\ objects' = [objects EXCEPT ![o] = Len(maps) + 1]
                        /\ maps' = Append(maps, View(other))
                   ELSE maps' = [maps EXCEPT ![objects[o]] = View(other)] /\ UNCHANGED objects
              /\ views' = [views EXCEPT ![o] = views[other]]
              /\ UNCHANGED mapPanic
    /\ UNCHANGED <<aliased, managedVars, padVars>>

\* MergeConfigs: into a new one.
MergeConfigs(o, other) ==
    /\ Derived(Len(maps) + 1, IF View(other) # "unset" THEN View(other) ELSE View(o))
    /\ views' = Append(views, IF views[other] # "unset" THEN views[other] ELSE views[o])
    /\ UNCHANGED <<aliased, mapPanic, writes, managedVars, padVars>>

ConfigNext ==
    \/ \E o \in Object : Clone(o) \/ Override(o) \/ PatchConfig(o)
    \/ \E o \in Object, t \in Task : Set(o, t) \/ PatchConfigurable(o, t)
    \/ \E o, p \in Object : Merge(o, p) \/ MergeConfigs(o, p)
    \/ \E o, p \in Object, field \in {"Configurable", "Metadata"} : MergeInto(o, p, field)

-----------------------------------------------------------------------------
(* Managed values: Get stores what the scratchpad has, and returns what is *)
(* stored.  A spec makes an instance for each read.                        *)

GetStores(t) ==
    LET r == reading[t] IN
    /\ r.pc = "idle"
    /\ IF r.spec
         THEN /\ reading' = [reading EXCEPT ![t].pc = "done", ![t].got = IF r.has THEN t ELSE "zero"]
              /\ UNCHANGED shared
         ELSE /\ shared' = IF r.has THEN t ELSE shared
              /\ reading' = [reading EXCEPT ![t].pc = "stored"]
    /\ UNCHANGED <<configVars, padVars>>

GetReturns(t) ==
    /\ reading[t].pc = "stored"
    /\ reading' = [reading EXCEPT ![t].pc = "done", ![t].got = shared]
    /\ UNCHANGED <<shared, configVars, padVars>>

ManagedNext == \E t \in Task : GetStores(t) \/ GetReturns(t)

-----------------------------------------------------------------------------
(* The scratchpad.  Its map has a lock; a Stack in it has none, and one     *)
(* operation on it is a Get, a change of the items and a Set or a Delete.  *)

Others(t) == \E u \in Task \ {t} : padTask[u].pc # "idle"

StackBegins(t, op) ==
    /\ padTask[t].pc = "idle" /\ padOps < MaxPad /\ padOps' = padOps + 1
    /\ overlapped' = (overlapped \/ Others(t))
    /\ IF padData # 0
         THEN /\ padTask' = [padTask EXCEPT ![t] = [pc |-> op, stack |-> padData,
                                                    items |-> stacks[padData]]]
              /\ UNCHANGED stacks
         ELSE IF op = "push"
           THEN /\ stacks' = Append(stacks, <<>>)
                /\ padTask' = [padTask EXCEPT ![t] = [pc |-> op, stack |-> Len(stacks) + 1,
                                                      items |-> <<>>]]
           ELSE UNCHANGED <<stacks, padTask>>
    /\ UNCHANGED <<padData, counter, increments, reference, configVars, managedVars>>

\* The items that were read, with one more or one less, are written back.
StackWrites(t) ==
    LET p == padTask[t]
        new == IF p.pc = "push" THEN Append(p.items, t)
               ELSE IF p.items = <<>> THEN <<>> ELSE Front(p.items)
    IN
    /\ p.pc \in {"push", "pop"}
    /\ stacks' = [stacks EXCEPT ![p.stack] = new]
    /\ padTask' = [padTask EXCEPT ![t].pc = IF p.pc = "push" THEN "set" ELSE "keep"]
    /\ reference' = IF p.pc = "push" THEN Append(reference, t)
                    ELSE IF reference = <<>> THEN <<>> ELSE Front(reference)
    /\ UNCHANGED <<padData, counter, increments, overlapped, padOps, configVars, managedVars>>

\* An empty stack is taken from the scratchpad.
StackEnds(t) ==
    LET p == padTask[t] IN
    /\ p.pc \in {"set", "keep"}
    /\ padData' = IF p.pc = "keep" /\ stacks[p.stack] = <<>> THEN 0 ELSE p.stack
    /\ padTask' = [padTask EXCEPT ![t] = Rest]
    /\ UNCHANGED <<stacks, counter, increments, reference, overlapped, padOps, configVars,
                   managedVars>>

Count(by) ==
    /\ padOps < MaxPad /\ padOps' = padOps + 1
    /\ counter' = counter + by /\ increments' = increments + by
    /\ UNCHANGED <<padData, stacks, padTask, reference, overlapped, configVars, managedVars>>

ResetCounter ==
    /\ padOps < MaxPad /\ padOps' = padOps + 1 /\ counter' = 0 /\ increments' = 0
    /\ UNCHANGED <<padData, stacks, padTask, reference, overlapped, configVars, managedVars>>

PadNext ==
    \/ \E t \in Task : StackWrites(t) \/ StackEnds(t) \/ \E op \in {"push", "pop"} : StackBegins(t, op)
    \/ Count(1) \/ Count(-1) \/ ResetCounter

-----------------------------------------------------------------------------
(* Properties.                                                             *)

\* Runtimes and configurations that were cloned, merged or overridden, with
\* nothing patched, are independent: each has the value that was set in it, or
\* that it had when it was made; a nil map is written to only in a Merge.  What
\* is read through a spec is the task's own value, or none.  The stack of the
\* scratchpad is a stack as long as no two operations overlap, also after it
\* has been empty.
ValuesAreOwn ==
    /\ ~aliased /\ ~mapPanic => \A o \in Object : View(o) = views[o]
    /\ mapPanic => \E o \in Object : objects[o] = 0
    /\ \A t \in Task : reading[t].pc = "done" /\ reading[t].spec =>
         reading[t].got \in {t, "zero"}
    /\ \A t \in Task : reading[t].pc = "done" /\ reading[t].got # "zero" /\ ~reading[t].spec =>
         reading[reading[t].got].has
    /\ ~overlapped /\ (\A t \in Task : padTask[t].pc = "idle") =>
         reference = IF padData = 0 THEN <<>> ELSE stacks[padData]
    /\ counter = increments
=============================================================================
