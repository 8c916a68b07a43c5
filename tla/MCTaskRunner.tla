--------------------------- MODULE MCTaskRunner ---------------------------
(***************************************************************************)
(* Up to four tasks for TLC: 1 is an FnNode under the graph's policy, 2 a  *)
(* custom node with a policy and a deadline of its own, whose interval     *)
(* shrinks from 2 to 0 and which asks one question more than there are     *)
(* answers; 3 hangs until its deadline; 4 names no node.                   *)
(***************************************************************************)
EXTENDS TaskRunner

MCGraphRetry ==
    {[max |-> 2, initial |-> 1, num |-> 3, den |-> 1, cap |-> 2, jitter |-> FALSE]}
MCNodeRetry == [t \in 1 .. 4 |->
    IF t = 2
    THEN {[max |-> 2, initial |-> 2, num |-> 1, den |-> 3, cap |-> 1, jitter |-> TRUE]}
    ELSE {}]
MCNodeTimeout == [t \in 1 .. 4 |-> CASE t = 2 -> {2} [] t = 3 -> {1} [] OTHER -> {}]
NoTimeout == {}
MCLimits == {{}, {0}, {1}, {2}}
MCEnds == [t \in 1 .. 4 |-> CASE t = 1 -> {"ok", "retryable"}
                              [] t = 2 -> {"ok", "retryable", "fatal"}
                              [] OTHER -> {}]
MCAsks == [t \in 1 .. 4 |-> CASE t = 1 -> 1 [] t = 2 -> 2 [] OTHER -> 0]
=============================================================================
