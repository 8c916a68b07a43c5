----------------------------- MODULE MCSubgraph -----------------------------
(* Two subgraphs in one superstep: p has two supersteps and may be          *)
(* interrupted, q has one and may fail, for good or to be retried.          *)
EXTENDS Subgraph

MCSub == {"p", "q"}
MCSteps == [s \in MCSub |-> IF s = "p" THEN 2 ELSE 1]
MCEnds == [s \in MCSub |-> IF s = "p" THEN {"ok", "interrupt"} ELSE {"ok", "retryable", "fatal"}]
=============================================================================
