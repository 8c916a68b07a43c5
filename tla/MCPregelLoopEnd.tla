-------------------------- MODULE MCPregelLoopEnd --------------------------
(***************************************************************************)
(* Two joins that share the source b, nodes that fail and a node that is   *)
(* registered under the reserved name END without an edge.  c is guarded   *)
(* and comes first in one of m's decisions.                                *)
(***************************************************************************)
EXTENDS PregelLoop

MCChan == {"log", "cur"}
MCKind == [c \in MCChan |-> IF c = "log" THEN "BinaryOperatorAggregate" ELSE "LastValue"]

MCKey == MCChan

MCNode == {"d", "a", "b", "c", "m", END}
MCName == MCNode \cup {"nowhere"}

Writes(cs) == [writes |-> cs, over |-> {}, goto |-> {}, parent |-> FALSE]
Goto(cs, tasks) == [Writes(cs) EXCEPT !.goto = {tasks}]

MCEdges == [n \in {"d", "b", "m"} |->
    CASE n = "d" -> {<<Pull("a"), Pull("b"), Pull("c")>>, <<Pull("b"), Pull("a")>>}
      [] n = "b" -> {<<Pull("d")>>}
      [] n = "m" -> {<<>>, <<Pull("c"), Pull("b")>>, <<Pull("b"), Pull("c")>>}]

MCJoins == <<[sources |-> {"a", "b"}, target |-> "m"],
             [sources |-> {"b", "c"}, target |-> "d"]>>

MCOutputs == [n \in MCNode |->
    CASE n = "d" -> {Writes({}), Goto({"cur"}, <<Pull(END)>>)}
      [] n = "m" -> {Writes({"log"}), Goto({}, <<Pull("nowhere")>>)}
      [] n \in {"a", "b"} -> {Writes({"log"})}
      [] OTHER -> {Writes({"cur"})}]

NoAsks == [n \in MCNode |-> 0]
=============================================================================
