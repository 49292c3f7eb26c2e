--------------------------- MODULE MCPregelEngine ---------------------------
(***************************************************************************)
(* Instances of PregelEngine for TLC: small graphs that use every kind of  *)
(* edge and of channel.                                                    *)
(***************************************************************************)
EXTENDS PregelEngine, TLC

CONSTANTS a, b, c, d, msgs, last, signal

Names == <<a, b, c, d>>
Each(x) == [n \in Node |-> x]

\* a fans out to b and c, which d joins.
Fan == [nodes |-> {a, b, c, d}, mode |-> "any", entry |-> a,
        edges |-> << <<a, b>>, <<a, c>>, <<b, d>>, <<c, d>>, <<d, End>> >>,
        conds |-> <<>>, branches |-> <<>>,
        triggers |-> Each({msgs}), writes |-> Each({msgs}),
        kind |-> msgs :> "acc" @@ last :> "last" @@ signal :> "ephemeral",
        input |-> {msgs}]
Dag == [Fan EXCEPT !.mode = "all"]

\* b goes back to a, on to End, or by its plain edge to c.
Cycle == [Fan EXCEPT !.nodes = {a, b, c},
            !.edges = << <<a, b>>, <<b, c>>, <<c, End>> >>,
            !.conds = << [from |-> b, to |-> {a, End, None}] >>,
            !.writes = Each({last}), !.triggers = Each({last})]

\* b and c may write one LastValue, both read a signal, a branch adds d, which
\* follows c but not b.
Race == [Fan EXCEPT !.entry = a,
           !.edges = << <<a, b>>, <<a, c>>, <<b, End>>, <<c, d>> >>,
           !.branches = << [from |-> a, to |-> {{d}, {End}, {}}] >>,
           !.triggers = Each({signal, last}),
           !.writes = a :> {signal, msgs} @@ b :> {last, msgs} @@ c :> {last}
                        @@ d :> {msgs},
           !.kind[msgs] = "any", !.input = {signal}]

NoEntry == [Fan EXCEPT !.entry = None]
Trivial == [Fan EXCEPT !.entry = End]
BadInput == [Fan EXCEPT !.input = {msgs, None}]

AllGraphs == {Fan, Dag, Cycle, Race, NoEntry, Trivial, BadInput}

ASSUME GraphsAreSupported == DagsAreAcyclic
=============================================================================
