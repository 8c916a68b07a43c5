---------------------------- MODULE MCPregelLoop ----------------------------
(***************************************************************************)
(* A graph for TLC.  d fans out, either to a and b at once or to a and the *)
(* longer branch x -> b; a and b join into m; m goes back to d, on to z,   *)
(* or ends.                                                                *)
(* The runs differ in what the nodes return and in where they are stopped. *)
(***************************************************************************)
EXTENDS PregelLoop

MCChan == {"log", "cur", "tmp"}
MCKind == [c \in MCChan |-> CASE c = "log" -> "BinaryOperatorAggregate"
                              [] c = "cur" -> "LastValue"
                              [] c = "tmp" -> "EphemeralValue"]

MCKey == MCChan \cup {"undeclared"}

MCNode == {"d", "x", "a", "b", "m", "z"}
MCName == MCNode \cup {END}

Push(n) == [node |-> n, type |-> "Push"]
Writes(cs) == [writes |-> cs, over |-> {}, goto |-> {}, parent |-> FALSE]
Goto(cs, tasks) == [Writes(cs) EXCEPT !.goto = {tasks}]
Parent(cs) == [Writes(cs) EXCEPT !.parent = TRUE]
Over(cs) == [Writes(cs) EXCEPT !.over = cs]

MCEdges == [n \in {"d", "x", "m", "z"} |->
    CASE n = "d" -> {<<Pull("a")>>}
      [] n = "x" -> {<<Pull("b")>>}
      [] n = "m" -> {<<Pull("d")>>, <<Pull("z")>>, <<>>}
      [] n = "z" -> {<<>>}]

MCJoins == <<[sources |-> {"a", "b"}, target |-> "m"]>>

Even == Goto({}, <<Push("a"), Push("b")>>)
Uneven == Goto({"tmp"}, <<Push("a"), Push("x")>>)

\* Updates, an overwrite and both fan-outs.
MCOutputs == [n \in MCNode |->
    CASE n = "d" -> {Even, Uneven}
      [] n = "x" -> {Writes({"cur", "undeclared"})}
      [] n = "a" -> {Writes({"log", "cur"})}
      [] n = "b" -> {Writes({"log"}), Over({"log"})}
      [] n = "m" -> {Writes({"tmp"}), Writes({"log"})}
      [] n = "z" -> {Writes({"cur"})}]

\* The same, with Commands for the parent graph and jumps to END, which is
\* not a registered node.
StrayOutputs == [MCOutputs EXCEPT
    !["x"] = @ \cup {Goto({"log"}, <<Pull(END)>>)},
    !["b"] = @ \cup {Parent({"log"})}]

NoAsks == [n \in MCNode |-> 0]
=============================================================================
