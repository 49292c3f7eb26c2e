--------------------------- MODULE MCCancelContext ---------------------------
(***************************************************************************)
(* Instances of CancelContext for TLC.                                     *)
(***************************************************************************)
EXTENDS CancelContext, TLC

CONSTANTS root, c1, c2, k1, k2

Call(m, r, d) == [mode |-> m, recursive |-> r, timeout |-> d, graph |-> FALSE]
Graph(m, r, d) == [Call(m, r, d) EXCEPT !.graph = TRUE]

Chain == c1 :> root @@ c2 :> c1
NoChild == [c \in {} |-> root]

\* Graceful calls, one of them with a timeout, and immediate ones.
MixedCalls ==
    k1 :> {Call({"chat"}, TRUE, 1), Graph({"chat"}, FALSE, 2), Graph({}, TRUE, 0)}
      @@ k2 :> {Call({"tool"}, FALSE, 2), Call({}, TRUE, 0), Call({"tool"}, TRUE, 0)}

\* A shallow call that another one may make recursive.
SafeCalls ==
    k1 :> {Graph({"chat"}, FALSE, 1)}
      @@ k2 :> {Call({"tool"}, TRUE, 2), Call({}, TRUE, 0), Call({"tool"}, FALSE, 0)}
=============================================================================
