------------------------------- MODULE Builder -------------------------------
(***************************************************************************)
(* The life of a graph definition: the StateGraph builder's calls in any   *)
(* order, compile with its checks, and runs of the graph it lets through   *)
(* as far as routing goes (which node is scheduled after which).           *)
(*                                                                         *)
(* PregelLoop takes a compiled graph as its constants, its joins well      *)
(* formed; here the graph is what a user's calls make it, barriers are the *)
(* channels add_edge_join names, and whatever compile() does not look at   *)
(* reaches the run.  Nodes return plain updates and never fail.            *)
(***************************************************************************)
EXTENDS SequencesExt

CONSTANTS
    Name,            \* the names a program may give its nodes
    Parts,           \* name |-> the pieces a "+" splits it into
    EntryCalls,      \* the names add_edge(START, _) or set_entry may be given
    EdgeCalls,       \* the <<from, to>> add_edge may be called with
    RouterCalls,     \* the <<from, to>> of conditional edges, "to" being the
                     \* names the router may choose from
    Chains,          \* the node lists add_sequence may be called with
    JoinCalls,       \* the [sources, target] add_edge_join may be called with
    MaxJoins,        \* bound on the joins of a graph
    MaxSupersteps    \* MAX_SUPERSTEPS

START == "__start__"
END == "__end__"

ASSUME BuilderAssumption ==
    /\ START \notin Name
    /\ Parts \in [Name -> Seq(STRING)]
    /\ EntryCalls \subseteq Name
    /\ EdgeCalls \subseteq Name \X (Name \cup {END})
    /\ RouterCalls \subseteq (Name \cup {START}) \X SUBSET Name
    /\ Chains \subseteq Seq(Name)
    /\ JoinCalls \subseteq [sources : Seq(Name), target : Name]
    /\ MaxJoins \in Nat /\ MaxSupersteps \in Nat

\* An edge and the names it can lead to.
Edge == [kind : {"Static", "Conditional", "End"}, to : SUBSET Name]

VARIABLES
    phase,           \* "building", "rejected", "compiled", "running" or "ended"
    nodes, edges, entry, joins,
    specs,           \* the barrier channels: channel |-> the names it awaits
    seen,            \* the barriers' seen sets in the current run
    pending,         \* names of the current superstep's tasks
    at,              \* cursor of prepare_next_tasks
    next_tasks, satisfied_joins,
    superstep,
    outcome,         \* how the run ended, and at which name
    done, fires      \* history: completions per node, firings per join

definition == <<nodes, edges, entry, joins, specs>>
history == <<done, fires>>
routing == <<seen, pending, at, next_tasks, satisfied_joins, superstep, outcome, history>>
vars == <<phase, definition, routing>>

NotRun == [why |-> "none", name |-> END]

-----------------------------------------------------------------------------
(* Building.  A map insert replaces what was there.                        *)

\* HashMap::insert.
Put(map, key, value) == [k \in DOMAIN map \cup {key} |-> IF k = key THEN value ELSE map[k]]

Building == phase = "building" /\ UNCHANGED <<phase, routing>>

\* add_node, add_node_fn, add_node_fn_typed, add_subgraph.
AddNode(n) ==
    /\ Building
    /\ nodes' = nodes \cup {n}
    /\ UNCHANGED <<edges, entry, joins, specs>>

\* A START edge left behind by add_conditional_edge stays where it is.
AddEdgeFromStart(to) ==
    /\ Building
    /\ entry' = {to}
    /\ UNCHANGED <<nodes, edges, joins, specs>>

AddEdge(from, to) ==
    /\ Building
    /\ edges' = Put(edges, from, IF to = END THEN [kind |-> "End", to |-> {}]
                                 ELSE [kind |-> "Static", to |-> {to}])
    /\ UNCHANGED <<nodes, entry, joins, specs>>

\* add_conditional_edge and add_conditional_edge_with_map.
AddConditionalEdge(from, to) ==
    /\ Building
    /\ edges' = Put(edges, from, [kind |-> "Conditional", to |-> to])
    /\ entry' = IF from = START THEN {} ELSE entry
    /\ UNCHANGED <<nodes, joins, specs>>

\* The edges along a chain; of a name that occurs twice the last one stays.
ChainEdges(chain) ==
    LET Before(n) == {i \in 1 .. Len(chain) - 1 : chain[i] = n}
    IN  [n \in ToSet(Front(chain)) |->
            [kind |-> "Static", to |-> {chain[Max(Before(n)) + 1]}]]

AddSequence(chain) ==
    /\ Building
    /\ nodes' = nodes \cup ToSet(chain)
    /\ edges' = ChainEdges(chain) @@ edges
    /\ UNCHANGED <<entry, joins, specs>>

\* The barrier's name, "__join:" with the sources joined by "+".
ChannelOf(call) ==
    <<FlattenSeq([i \in DOMAIN call.sources |-> Parts[call.sources[i]]]), call.target>>

AddEdgeJoin(call) ==
    /\ Building /\ Len(joins) < MaxJoins
    /\ specs' = Put(specs, ChannelOf(call), ToSet(call.sources))
    /\ joins' = Append(joins, [sources |-> call.sources, target |-> call.target,
                               channel |-> ChannelOf(call)])
    /\ UNCHANGED <<nodes, edges, entry>>

Build ==
    \/ \E n \in Name : AddNode(n)
    \/ \E n \in EntryCalls : AddEdgeFromStart(n)
    \/ \E call \in EdgeCalls : AddEdge(call[1], call[2])
    \/ \E call \in RouterCalls : AddConditionalEdge(call[1], call[2])
    \/ \E chain \in Chains : AddSequence(chain)
    \/ \E call \in JoinCalls : AddEdgeJoin(call)

-----------------------------------------------------------------------------
(* compile.                                                                *)

\* resolve_entry finds a name or a START edge; the name is looked up only
\* when there is no START edge.
EntryGiven == entry # {} \/ START \in DOMAIN edges
EntryKnown == entry \subseteq nodes \/ START \in DOMAIN edges

SourcesKnown == DOMAIN edges \ {START} \subseteq nodes

\* Mutant of TargetsKnown: static targets are not looked up.
TargetsUnknown == TRUE
TargetsKnown ==
    \A from \in DOMAIN edges : edges[from].kind = "Static" => edges[from].to \subseteq nodes

\* Mutant of JoinSources: the targets of joins count as routed.
JoinMembers ==
    UNION {ToSet(joins[j].sources) \cup {joins[j].target} : j \in DOMAIN joins}
JoinSources == UNION {ToSet(joins[j].sources) : j \in DOMAIN joins}
NodesRoute == nodes \ {END} \subseteq DOMAIN edges \cup JoinSources

Accepts == EntryGiven /\ EntryKnown /\ SourcesKnown /\ TargetsKnown /\ NodesRoute

Compile ==
    /\ phase = "building"
    /\ phase' = IF Accepts THEN "compiled" ELSE "rejected"
    /\ UNCHANGED <<definition, routing>>

-----------------------------------------------------------------------------
(* Running.  A router may return any of its names, End, or a Send of two.  *)

Decisions(edge) ==
    CASE edge.kind = "Static"      -> {<<n>> : n \in edge.to}
      [] edge.kind = "Conditional" -> {<<>>} \cup {<<n>> : n \in edge.to} \cup (edge.to \X edge.to)
      [] OTHER                     -> {<<>>}

\* resolve_entry_node: a conditional START that chooses End or Send is an error.
EntryChoices ==
    IF entry # {} THEN {<<n>> : n \in entry} ELSE Decisions(edges[START])

\* A call starts with fresh barriers.
Fresh == [ch \in DOMAIN specs |-> {}]

Invoke ==
    /\ phase = "compiled"
    /\ \E choice \in EntryChoices :
        IF Len(choice) = 1
        THEN phase' = "running" /\ pending' = choice /\ UNCHANGED outcome
        ELSE phase' = "ended" /\ outcome' = [why |-> "NoEntry", name |-> END]
                              /\ UNCHANGED pending
    /\ seen' = Fresh
    /\ at' = 1 /\ next_tasks' = <<>> /\ satisfied_joins' = {} /\ superstep' = 0
    /\ done' = [n \in Name |-> 0] /\ fires' = [j \in DOMAIN joins |-> 0]
    /\ UNCHANGED definition

End(why, name) ==
    /\ phase' = "ended" /\ outcome' = [why |-> why, name |-> name]
    /\ UNCHANGED <<definition, seen, pending, at, next_tasks, satisfied_joins,
                   superstep, history>>

Running == phase = "running"

Finish == Running /\ pending = <<>> /\ superstep < MaxSupersteps /\ End("finished", END)
RecursionLimit == Running /\ at = 1 /\ superstep = MaxSupersteps /\ End("RecursionLimit", END)

\* The runner meets a task whose node is not registered, before any output.
NodeNotFound ==
    /\ Running /\ at = 1 /\ superstep < MaxSupersteps
    /\ \E i \in DOMAIN pending :
        /\ pending[i] \notin nodes
        /\ \A k \in 1 .. i - 1 : pending[k] \in nodes
        /\ End("NodeNotFound", pending[i])

\* The superstep's tasks have returned; their outputs are routed in order.
Routing(n) ==
    /\ Running /\ superstep < MaxSupersteps /\ at \in DOMAIN pending
    /\ ToSet(pending) \subseteq nodes
    /\ n = pending[at]

Advance(n) ==
    /\ at' = at + 1
    /\ done' = [done EXCEPT ![n] = @ + 1]
    /\ UNCHANGED <<phase, definition, pending, superstep, outcome>>

\* join_lookup: the joins a node is a source of, once per time it is listed.
JoinLookup(n) ==
    FlattenSeq([j \in DOMAIN joins |->
        [i \in 1 .. Cardinality({k \in DOMAIN joins[j].sources : joins[j].sources[k] = n}) |-> j]])

IsSource(n) == \E j \in DOMAIN joins : n \in ToSet(joins[j].sources)

\* Mutant of Reset: the barrier that fired keeps its names.
NoReset(ch, marked) == marked
\* from_checkpoint(None) of the barrier that fired.
Reset(ch, marked) == {}

\* One join of the lookup: mark its barrier; if that is full now and has not
\* fired in this superstep, schedule the target and empty it.
Mark(n, st, j) ==
    LET ch == joins[j].channel
        marked == st.seen[ch] \cup ({n} \cap specs[ch])
    IN  IF marked = specs[ch] /\ specs[ch] # {} /\ ch \notin st.satisfied
        THEN [seen |-> [st.seen EXCEPT ![ch] = Reset(ch, marked)],
              satisfied |-> st.satisfied \cup {ch},
              next |-> Append(st.next, joins[j].target),
              fires |-> [st.fires EXCEPT ![j] = @ + 1]]
        ELSE [st EXCEPT !.seen[ch] = marked]

\* The barriers and the schedule after all the joins n is a source of.
AfterJoins(n) ==
    FoldLeft(LAMBDA st, j : Mark(n, st, j),
             [seen |-> seen, satisfied |-> satisfied_joins, next |-> next_tasks, fires |-> fires],
             JoinLookup(n))

RouteJoins ==
    \E n \in Name :
        /\ Routing(n) /\ IsSource(n)
        /\ seen' = AfterJoins(n).seen /\ satisfied_joins' = AfterJoins(n).satisfied
        /\ next_tasks' = AfterJoins(n).next /\ fires' = AfterJoins(n).fires
        /\ Advance(n)

RouteEdge ==
    \E n \in DOMAIN edges \cap Name :
        /\ Routing(n) /\ ~IsSource(n)
        /\ \E choice \in Decisions(edges[n]) : next_tasks' = next_tasks \o choice
        /\ Advance(n)
        /\ UNCHANGED <<seen, satisfied_joins, fires>>

RouteUnreachable ==
    \E n \in Name \ DOMAIN edges :
        Routing(n) /\ ~IsSource(n) /\ End("UnreachableNode", n)

NextSuperstep ==
    /\ Running /\ pending # <<>> /\ at > Len(pending)
    /\ pending' = next_tasks /\ at' = 1
    /\ next_tasks' = <<>> /\ satisfied_joins' = {}
    /\ superstep' = superstep + 1
    /\ UNCHANGED <<phase, definition, seen, outcome, history>>

Terminated == phase \in {"rejected", "ended"} /\ UNCHANGED vars

Init ==
    /\ phase = "building"
    /\ nodes = {} /\ edges = <<>> /\ entry = {} /\ joins = <<>> /\ specs = <<>>
    /\ seen = <<>> /\ pending = <<>> /\ at = 1 /\ next_tasks = <<>>
    /\ satisfied_joins = {} /\ superstep = 0 /\ outcome = NotRun
    /\ done = [n \in Name |-> 0] /\ fires = <<>>

Run == \/ Finish \/ RecursionLimit \/ NodeNotFound \/ RouteJoins \/ RouteEdge
       \/ RouteUnreachable \/ NextSuperstep

Next == Build \/ Compile \/ Invoke \/ Run \/ Terminated

Spec == Init /\ [][Next]_vars

-----------------------------------------------------------------------------
(* Properties.                                                             *)

\* A node compile() let through can always be left: UnreachableNode is only
\* reported for a node registered under the reserved name END (builder.rs:4).
OnlyEndUnreachable == outcome.why = "UnreachableNode" => outcome.name = END

\* A name no node answers to is reached only along what compile() cannot or
\* does not check: a router's choice, a join's target, or an entry set while
\* a START edge is registered.  Static edges never lead there.
Unchecked ==
    (UNION {edges[n].to : n \in {k \in DOMAIN edges : edges[k].kind = "Conditional"}})
        \cup {joins[j].target : j \in DOMAIN joins}
        \cup (IF START \in DOMAIN edges THEN entry ELSE {})
NotFoundIsUnchecked == outcome.why = "NodeNotFound" => outcome.name \in Unchecked

\* A join call that lists no source twice and whose barrier is its own.
Proper(j) ==
    /\ IsInjective(joins[j].sources)
    /\ \A k \in DOMAIN joins : joins[k].channel = joins[j].channel => k = j

\* However a proper join's sources are reached, by several routes, in loops
\* and together with other joins, its target is scheduled at most as often as
\* each source has completed (add_edge_join).
ProperJoinWaits ==
    phase \in {"running", "ended"} =>
        \A j \in DOMAIN fires : Proper(j) =>
            \A s \in ToSet(joins[j].sources) : fires[j] <= done[s]
=============================================================================
