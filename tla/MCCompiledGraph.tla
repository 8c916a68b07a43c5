-------------------------- MODULE MCCompiledGraph --------------------------
(***************************************************************************)
(* A thread for TLC: d fans out to a and b, whose join is m, or goes to m  *)
(* at once.  START's conditional edge picks d or, at times, END.           *)
(***************************************************************************)
EXTENDS CompiledGraph

MCChan == {"log", "cur"}
MCKind == [c \in MCChan |-> IF c = "log" THEN "BinaryOperatorAggregate" ELSE "LastValue"]

\* A key that names no channel may name a node.
MCKey == MCChan \cup {"a"}

MCNode == {"d", "a", "b", "m"}
MCName == MCNode \cup {START}

Push(n) == [node |-> n, type |-> "Push"]
Writes(cs) == [writes |-> cs, over |-> {}, goto |-> {}, parent |-> FALSE]

MCEdges == [n \in {"d", "m"} |->
    IF n = "d" THEN {<<Push("a"), Push("b")>>, <<Pull("m")>>} ELSE {<<>>}]

\* d and a in a line, without the fan-out.
LineEdges == [n \in {"d", "a", "b", "m"} |->
    CASE n = "d" -> {<<Pull("a")>>}
      [] n = "a" -> {<<Pull("m")>>, <<>>}
      [] OTHER   -> {<<>>}]

MCJoins == <<[sources |-> {"a", "b"}, target |-> "m"]>>
NoJoins == <<>>

MCStart == {<<Pull("d")>>, <<>>}
NoStart == {}

MCOutputs == [n \in MCNode |-> IF n = "b" THEN {Writes({"log", "cur"})} ELSE {Writes({"log"})}]

MCInputs == {{"cur"}}
LogInputs == {{"cur", "log"}, {"a"}}
NoAsks == [n \in MCNode |-> 0]
SomeAsks == [NoAsks EXCEPT !["a"] = 2]
MoreAsks == [SomeAsks EXCEPT !["d"] = 1]
=============================================================================
