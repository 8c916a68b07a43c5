------------------------------ MODULE MCBuilder ------------------------------
(* Joins of two sources that share one of them, one that lists a source     *)
(* twice and one whose barrier has the same name as another's, for "a+b" is *)
(* a node's name; edges, routers and a chain that can close loops; a node   *)
(* registered under the reserved name END, which a router may choose.       *)
EXTENDS Builder

MCName == {"a", "b", "t", "a+b", END}
MCParts == [n \in MCName |-> IF n = "a+b" THEN <<"a", "b">> ELSE <<n>>]
MCEntryCalls == {"a", "t"}
MCEdgeCalls == {<<"a", END>>, <<"b", "t">>, <<"t", END>>, <<"t", "b">>}
MCRouterCalls == {<<START, {"a", "t"}>>, <<"t", {"a", "b"}>>, <<"b", {END}>>}
MCChains == {<<"t", "b", "a">>}
MCJoinCalls == {[sources |-> <<"a", "b">>, target |-> "t"],
                [sources |-> <<"b", "t">>, target |-> "a"],
                [sources |-> <<"a", "b", "a">>, target |-> "t"],
                [sources |-> <<"a+b">>, target |-> "t"]}
=============================================================================
