----------------------------- MODULE PregelLoop -----------------------------
(***************************************************************************)
(* One call of PregelLoop::execute: the superstep loop, the tasks it runs  *)
(* in parallel, the merge of their writes, the checkpoints it saves, the   *)
(* interrupts and the routing of the next superstep's tasks.               *)
(*                                                                         *)
(* The engine is one async task; pc is the place it has reached.  Beside   *)
(* it move the node tasks (running), the background saves of               *)
(* Durability::Async (inflight) and the user who cancels (cancel).  The    *)
(* variables keep the names the code gives them; arrivals and fires are    *)
(* history variables that nothing reads.                                   *)
(***************************************************************************)
EXTENDS Channels, FiniteSets

CONSTANTS
    Chan,            \* the state channels, barriers excluded
    Kind,            \* [Chan -> Kinds]
    Key,             \* the keys an output may name, channels or not
    Node,            \* the registered nodes
    Name,            \* every name a task may carry, registered or not
    Edges,           \* node |-> the decisions its edge can take, each the
                     \* tasks it schedules: End is <<>>, Static is <<Pull(t)>>
    Joins,           \* the JoinEdges in order: [sources, target]
    InterruptBefore, InterruptAfter,
    Outputs,         \* node |-> the outputs its process() can return
    Entry,           \* the names execute may be started with
    Asks,            \* node |-> how many times process() calls interrupt()
    Faults,          \* which of "node", "reducer", "saver" may fail
    Durabilities,    \* the durability modes calls are made with
    HasSaver,        \* whether the graph was compiled with a checkpointer
    MaxSupersteps    \* MAX_SUPERSTEPS

END == "__end__"

Task == [node : Name, type : {"Pull", "Push"}]

\* config.durability.
Durability == {"Sync", "Async", "Exit"}

\* A node's output: the keys it writes, which of those writes are overwrites,
\* Command.goto ({} is None) and whether it is a Command with graph = Parent.
Output == [writes : SUBSET Key, over : SUBSET Key,
           goto : SUBSET Seq(Task), parent : BOOLEAN]

Item == [step : Nat, by : Nat, over : BOOLEAN]

JoinEdge == [sources : (SUBSET Node) \ {{}}, target : Name]

ASSUME GraphAssumption ==
    /\ Kind \in [Chan -> Kinds]
    /\ Chan \subseteq Key
    /\ Node \subseteq Name
    /\ DOMAIN Edges \subseteq Node
    /\ \A n \in DOMAIN Edges : Edges[n] \subseteq Seq(Task) /\ Edges[n] # {}
    /\ Joins \in Seq(JoinEdge)
    /\ \A n \in Node \ {END} : n \in DOMAIN Edges \/ \E j \in DOMAIN Joins : n \in Joins[j].sources
    /\ Entry \subseteq Name
    /\ InterruptBefore \subseteq Name /\ InterruptAfter \subseteq Name

ASSUME RunAssumption ==
    /\ Outputs \in [Node -> SUBSET Output]
    /\ Asks \in [Node -> Nat]
    /\ Faults \subseteq {"node", "reducer", "saver"}
    /\ Durabilities \subseteq Durability
    /\ HasSaver \in BOOLEAN
    /\ MaxSupersteps \in Nat

VARIABLES
    pc,                      \* "idle", a place in the loop, or "ended"
    durability,              \* config.durability of the call
    superstep,               \* iterations of the for loop begun and finished
    step, pending_tasks, first_iteration, current_resume_values,
    last_ckpt_id,            \* 0 is the empty string
    cancel,                  \* the watch flag the user sets
    running,                 \* indices of pending_tasks still executing
    task_results,            \* outputs in completion order, with their producer
    at,                      \* cursor of the collect and route loops
    grouped_updates, task_outputs, parent_command,
    next_tasks, satisfied_joins,
    seen,                    \* the join barriers' seen sets
    channels, channel_versions, versions_seen,
    outcome,                 \* what execute returned
    store,                   \* the thread's checkpoints in timestamp order
    inflight,                \* checkpoints spawned tasks have yet to put
    pending_writes,          \* the thread's put_writes entries
    uuids,                   \* identifiers drawn so far
    announced,               \* ids of the CheckpointSaved events sent
    arrivals, fires          \* history: per join, completions and firings

loop == <<durability, superstep, step, pending_tasks, first_iteration,
          current_resume_values>>
results == <<running, task_results>>
collected == <<grouped_updates, task_outputs, parent_command>>
barriers == <<seen, arrivals, fires>>
routed == <<next_tasks, satisfied_joins, barriers>>
state == <<channels, channel_versions, versions_seen>>
locals == <<loop, last_ckpt_id, results, at, collected, routed, state, cancel>>
saver == <<store, inflight, pending_writes, uuids, announced>>
vars == <<pc, locals, outcome, saver>>

Pull(n) == [node |-> n, type |-> "Pull"]
Join == DOMAIN Joins

NoOutcome == [kind |-> "none", why |-> "none", node |-> {}, ckpt |-> 0]

\* Every return of execute: the result and the end of the loop.
Return(kind, why, node, ckpt) ==
    /\ pc' = "ended"
    /\ outcome' = [kind |-> kind, why |-> why, node |-> node, ckpt |-> ckpt]

-----------------------------------------------------------------------------
(* Calling the engine.                                                     *)

\* The locals execute starts with.  The caller has just built the channels
\* with init_channels, so every barrier is empty.
Execute(start, from, ckpt, resuming, answers) ==
    /\ pc' = "top"
    /\ superstep' = 0
    /\ step' = from
    /\ pending_tasks' = <<Pull(start)>>
    /\ first_iteration' = resuming
    /\ current_resume_values' = answers
    /\ last_ckpt_id' = ckpt
    /\ UNCHANGED durability
    /\ running' = {} /\ task_results' = <<>> /\ at' = 1
    /\ grouped_updates' = [c \in Key |-> <<>>]
    /\ task_outputs' = <<>> /\ parent_command' = FALSE
    /\ next_tasks' = <<>> /\ satisfied_joins' = {}
    /\ seen' = [j \in Join |-> {}]
    /\ arrivals' = [j \in Join |-> [n \in Node |-> 0]]
    /\ fires' = [j \in Join |-> 0]
    /\ outcome' = NoOutcome

\* snapshot_channels; an empty sequence also stands for no entry.
Snapshot(chans) == [c \in Chan |-> Checkpointed(Kind[c], chans[c])]

\* Mutant of NewCheckpoint: the checkpoint is its own parent.
SelfParented(id, parent, source, n, chans, writes) ==
    [id |-> id, parent |-> id, source |-> source, step |-> n,
     vals |-> Snapshot(chans), versions |-> channel_versions,
     seen_versions |-> versions_seen, writes |-> writes]

NewCheckpoint(id, parent, source, n, chans, writes) ==
    [id |-> id, parent |-> parent, source |-> source, step |-> n,
     vals |-> Snapshot(chans), versions |-> channel_versions,
     seen_versions |-> versions_seen, writes |-> writes]

\* Mutant of SaveCheckpoint: the id of the new checkpoint is not kept.
SaveAndForget(source, n, writes) ==
    IF HasSaver
    THEN /\ uuids' = uuids + 1
         /\ store' = Append(store, NewCheckpoint(uuids', last_ckpt_id, source,
                                                 n, channels, writes))
         /\ UNCHANGED last_ckpt_id
    ELSE last_ckpt_id' = 0 /\ UNCHANGED <<uuids, store>>

\* save_checkpoint that succeeds: without a saver it returns the empty id.
SaveCheckpoint(source, n, writes) ==
    IF HasSaver
    THEN /\ uuids' = uuids + 1
         /\ last_ckpt_id' = uuids'
         /\ store' = Append(store, NewCheckpoint(uuids', last_ckpt_id, source,
                                                 n, channels, writes))
    ELSE last_ckpt_id' = 0 /\ UNCHANGED <<uuids, store>>

-----------------------------------------------------------------------------
(* The top of the loop.                                                    *)

\* The for loop is exhausted, whatever pending_tasks holds.
RecursionLimit ==
    /\ pc = "top" /\ superstep = MaxSupersteps
    /\ Return("Err", "RecursionLimit", {}, last_ckpt_id)
    /\ UNCHANGED <<locals, saver>>

InLoop == pc = "top" /\ superstep < MaxSupersteps

\* No tasks are left: Exit saves its one checkpoint, then Done.
Finish ==
    /\ InLoop /\ pending_tasks = <<>>
    /\ IF durability = "Exit"
       THEN SaveCheckpoint("Loop", step, {c \in Chan : channels[c] # <<>>})
       ELSE UNCHANGED <<last_ckpt_id, uuids, store>>
    /\ Return("Done", "finished", {}, last_ckpt_id')
    /\ UNCHANGED <<loop, cancel, results, at, collected, routed, state,
                   inflight, pending_writes, announced>>

\* Mutant of FinishFails: the saver's error is dropped, the run is Done.
FinishUnsaved ==
    /\ InLoop /\ pending_tasks = <<>>
    /\ durability = "Exit" /\ HasSaver /\ "saver" \in Faults
    /\ Return("Done", "finished", {}, last_ckpt_id)
    /\ UNCHANGED <<locals, saver>>

FinishFails ==
    /\ InLoop /\ pending_tasks = <<>>
    /\ durability = "Exit" /\ HasSaver /\ "saver" \in Faults
    /\ Return("Err", "saver", {}, last_ckpt_id)
    /\ UNCHANGED <<locals, saver>>

\* The cancel flag is read once per superstep; only the first pending task
\* is named in the result and nothing is written.
Cancelled ==
    /\ InLoop /\ pending_tasks # <<>> /\ cancel
    /\ Return("Interrupted", "UserCancelled", {pending_tasks[1].node}, last_ckpt_id)
    /\ UNCHANGED <<locals, saver>>

\* Mutant of PutWrites: the entry is booked under the parent checkpoint.
PutWritesUnderParent(w) ==
    /\ HasSaver
    /\ pending_writes' = pending_writes \cup {[w EXCEPT !.ckpt = IF @ = 0 THEN 0 ELSE @ - 1]}

\* put_writes of an interrupt; an error of the saver is ignored.
PutWrites(w) ==
    \/ HasSaver /\ pending_writes' = pending_writes \cup {w}
    \/ (~HasSaver \/ "saver" \in Faults) /\ UNCHANGED pending_writes

Guarded == ~first_iteration /\ pending_tasks[1].node \in InterruptBefore

\* interrupt_before looks at the first pending task only.
StopBefore ==
    /\ InLoop /\ pending_tasks # <<>> /\ ~cancel /\ Guarded
    /\ LET n == pending_tasks[1].node IN
       /\ PutWrites([ckpt |-> last_ckpt_id, channel |-> "marker", node |-> n,
                     index |-> 0, answers |-> <<>>])
       /\ Return("Interrupted", "InterruptBefore", {n}, last_ckpt_id)
    /\ UNCHANGED <<locals, store, inflight, uuids, announced>>

ReadyToRun == InLoop /\ pending_tasks # <<>> /\ ~cancel /\ ~Guarded

\* execute_tasks_parallel spawns every pending task.
StartTasks ==
    /\ ReadyToRun
    /\ \A i \in DOMAIN pending_tasks : pending_tasks[i].node \in Node
    /\ pc' = "run"
    /\ first_iteration' = FALSE
    /\ running' = DOMAIN pending_tasks
    /\ task_results' = <<>>
    /\ UNCHANGED <<durability, superstep, step, pending_tasks, current_resume_values,
                   cancel, last_ckpt_id, at, collected, routed, state,
                   outcome, saver>>

\* A task names a node that does not exist; tasks already spawned are aborted.
NodeNotFound ==
    /\ ReadyToRun
    /\ \E i \in DOMAIN pending_tasks : pending_tasks[i].node \notin Node
    /\ first_iteration' = FALSE
    /\ Return("Err", "NodeNotFound", {}, last_ckpt_id)
    /\ UNCHANGED <<durability, superstep, step, pending_tasks, current_resume_values,
                   cancel, last_ckpt_id, results, at, collected, routed,
                   state, saver>>

-----------------------------------------------------------------------------
(* The parallel runner.                                                    *)

\* A task returns; its calls to interrupt() all found a resume value.
\* join_next yields the outputs in the order the tasks complete.
TaskDone(i) ==
    /\ pc = "run"
    /\ LET n == pending_tasks[i].node IN
       /\ Len(current_resume_values) >= Asks[n]
       /\ \E out \in Outputs[n] :
            task_results' = Append(task_results, [by |-> i, out |-> out])
    /\ running' = running \ {i}
    /\ UNCHANGED <<pc, loop, last_ckpt_id, at, collected, routed, state, cancel,
                   outcome, saver>>

\* A task's interrupt() finds no value left: the first error aborts the other
\* tasks, and the engine writes __interrupt__ and __resume__.
TaskInterrupted(i) ==
    /\ pc = "run"
    /\ LET n == pending_tasks[i].node IN
       /\ Len(current_resume_values) < Asks[n]
       /\ PutWrites([ckpt |-> last_ckpt_id, channel |-> "__interrupt__", node |-> n,
                     index |-> Len(current_resume_values),
                     answers |-> current_resume_values])
       /\ Return("Interrupted", "NodeInterrupt", {n}, last_ckpt_id)
    /\ running' = {}
    /\ UNCHANGED <<loop, last_ckpt_id, task_results, at, collected, routed, state,
                   cancel, store, inflight, uuids, announced>>

\* A task fails for good (error, timeout, panic): execute returns its error.
TaskFailed(i) ==
    /\ pc = "run" /\ "node" \in Faults
    /\ Return("Err", "node", {}, last_ckpt_id)
    /\ running' = {}
    /\ UNCHANGED <<loop, last_ckpt_id, task_results, at, collected, routed, state,
                   cancel, saver>>

RunTask == \E i \in running : TaskDone(i) \/ TaskInterrupted(i) \/ TaskFailed(i)

\* Mutant of TasksJoined: the resume values are kept for the next superstep.
TasksJoinedKeepAnswers ==
    /\ pc = "run" /\ running = {}
    /\ pc' = "collect" /\ at' = 1
    /\ grouped_updates' = [c \in Key |-> <<>>]
    /\ task_outputs' = <<>>
    /\ parent_command' = FALSE
    /\ UNCHANGED <<loop, last_ckpt_id, results, routed, state, cancel, outcome, saver>>

\* Mutant of TasksJoined: the first result ends the wait for the others.
TasksJoinedEarly ==
    /\ pc = "run" /\ (task_results # <<>> \/ running = {})
    /\ pc' = "collect" /\ at' = 1 /\ running' = {}
    /\ current_resume_values' = <<>>
    /\ grouped_updates' = [c \in Key |-> <<>>]
    /\ task_outputs' = <<>>
    /\ parent_command' = FALSE
    /\ UNCHANGED <<durability, superstep, step, pending_tasks, first_iteration, last_ckpt_id,
                   task_results, routed, state, cancel, outcome, saver>>

\* All tasks returned Ok.
TasksJoined ==
    /\ pc = "run" /\ running = {}
    /\ pc' = "collect" /\ at' = 1
    /\ current_resume_values' = <<>>
    /\ grouped_updates' = [c \in Key |-> <<>>]
    /\ task_outputs' = <<>>
    /\ parent_command' = FALSE
    /\ UNCHANGED <<durability, superstep, step, pending_tasks, first_iteration, last_ckpt_id,
                   results, routed, state, cancel, outcome, saver>>

-----------------------------------------------------------------------------
(* Collecting and merging: pending_tasks.iter().zip(task_results).         *)

\* Mutant of CollectParent: the cursor stays where it is.
CollectParentAgain ==
    /\ pc = "collect" /\ at <= Len(task_results)
    /\ task_results[at].out.parent
    /\ parent_command' = TRUE
    /\ UNCHANGED <<pc, locals, outcome, saver>>

\* A Command for the parent graph: its update is never collected.
CollectParent ==
    /\ pc = "collect" /\ at <= Len(task_results)
    /\ task_results[at].out.parent
    /\ parent_command' = TRUE
    /\ at' = at + 1
    /\ UNCHANGED <<pc, loop, last_ckpt_id, results, grouped_updates, task_outputs,
                   routed, state, cancel, outcome, saver>>

\* Any other output is booked under the task at the same position, with the
\* versions the channels had before this superstep's merge.
CollectUpdate ==
    /\ pc = "collect" /\ at <= Len(task_results)
    /\ LET r == task_results[at]
           n == pending_tasks[at].node
       IN  /\ ~r.out.parent
           /\ grouped_updates' =
                [c \in Key |->
                    IF c \in r.out.writes
                    THEN Append(grouped_updates[c],
                                [step |-> step, by |-> r.by, over |-> c \in r.out.over])
                    ELSE grouped_updates[c]]
           /\ task_outputs' = Append(task_outputs, [node |-> n, by |-> r.by, out |-> r.out])
           /\ versions_seen' = [versions_seen EXCEPT ![n] = channel_versions]
    /\ at' = at + 1
    /\ UNCHANGED <<pc, loop, last_ckpt_id, results, parent_command, routed,
                   channels, channel_versions, cancel, outcome, saver>>

Collected == pc = "collect" /\ at > Len(task_results)

\* Mutant of Written: a key counts as written from its second write on.
WrittenTwice == {c \in Key : Len(grouped_updates[c]) > 1}
Written == {c \in Key : grouped_updates[c] # <<>>}

\* Mutant of Merged: a key that names no channel gets one.
MergedOpening ==
    [c \in Chan \cup Written |->
        IF c \in Chan THEN Update(Kind[c], channels[c], grouped_updates[c])
        ELSE grouped_updates[c]]
\* apply_grouped_updates: a key that names no channel is passed over.
Merged == [c \in Chan |-> Update(Kind[c], channels[c], grouped_updates[c])]

\* The merge; a parent command then ends the call unsaved.
Merge ==
    /\ Collected
    /\ channels' = Merged
    /\ channel_versions' = [c \in Chan |-> channel_versions[c] + IF c \in Written THEN 1 ELSE 0]
    /\ IF parent_command
       THEN Return("Done", "parent", {}, last_ckpt_id)
       ELSE pc' = "persist" /\ UNCHANGED outcome
    /\ UNCHANGED <<loop, last_ckpt_id, results, at, collected, routed,
                   versions_seen, cancel, saver>>

\* A reducer fails: the half-applied channels are dropped with the call.
MergeFails ==
    /\ Collected /\ "reducer" \in Faults
    /\ \E c \in Written \cap Chan :
          /\ Kind[c] = "BinaryOperatorAggregate"
          /\ Len(channels[c]) + Len(grouped_updates[c]) > 1
    /\ Return("Err", "reducer", {}, last_ckpt_id)
    /\ UNCHANGED <<locals, saver>>

-----------------------------------------------------------------------------
(* Saving the superstep's checkpoint.                                      *)

\* StateValues and CheckpointSaved: sent whenever an id is at hand.
Announce == announced' = IF last_ckpt_id' = 0 THEN announced
                         ELSE announced \cup {last_ckpt_id'}

\* Durability::Sync waits for the put.
PersistSync ==
    /\ pc = "persist" /\ durability = "Sync"
    /\ SaveCheckpoint("Loop", step, Written)
    /\ Announce
    /\ pc' = "after"
    /\ UNCHANGED <<loop, results, at, collected, routed, state, cancel, outcome,
                   inflight, pending_writes>>

\* Mutant of PersistFails: the error is ignored and the drawn id is used.
PersistErrorIgnored ==
    /\ pc = "persist" /\ durability = "Sync" /\ HasSaver /\ "saver" \in Faults
    /\ uuids' = uuids + 1
    /\ last_ckpt_id' = uuids'
    /\ Announce
    /\ pc' = "after"
    /\ UNCHANGED <<loop, results, at, collected, routed, state, cancel, outcome,
                   store, inflight, pending_writes>>

PersistFails ==
    /\ pc = "persist" /\ durability = "Sync" /\ HasSaver /\ "saver" \in Faults
    /\ Return("Err", "saver", {}, last_ckpt_id)
    /\ UNCHANGED <<locals, saver>>

\* Durability::Async draws the id, overwrites last_ckpt_id with it and only
\* then reads last_ckpt_id as the parent; the put is left to a spawned task.
PersistAsync ==
    /\ pc = "persist" /\ durability = "Async"
    /\ uuids' = uuids + 1
    /\ last_ckpt_id' = uuids'
    /\ inflight' = IF HasSaver
                   THEN inflight \cup {NewCheckpoint(uuids', last_ckpt_id', "Loop",
                                                     step, channels, Written)}
                   ELSE inflight
    /\ Announce
    /\ pc' = "after"
    /\ UNCHANGED <<loop, results, at, collected, routed, state, cancel, outcome,
                   store, pending_writes>>

\* Durability::Exit only draws an id.
PersistExit ==
    /\ pc = "persist" /\ durability = "Exit"
    /\ uuids' = uuids + 1
    /\ last_ckpt_id' = uuids'
    /\ Announce
    /\ pc' = "after"
    /\ UNCHANGED <<loop, results, at, collected, routed, state, cancel, outcome,
                   store, inflight, pending_writes>>

\* Mutant of DeliverPut: the spawned task is dropped before it puts.
LosePut(c) ==
    /\ inflight' = inflight \ {c}
    /\ UNCHANGED <<pc, locals, outcome, store, pending_writes, uuids, announced>>

\* The spawned save runs: it takes its timestamp and puts.  Its error is
\* dropped.
DeliverPut(c) ==
    /\ inflight' = inflight \ {c}
    /\ \/ store' = Append(store, c)
       \/ "saver" \in Faults /\ UNCHANGED store
    /\ UNCHANGED <<pc, locals, outcome, pending_writes, uuids, announced>>

-----------------------------------------------------------------------------
(* After the checkpoint: interrupt_after, then prepare_next_tasks.         *)

StopAfter ==
    /\ pc = "after"
    /\ \E k \in DOMAIN task_outputs :
        /\ task_outputs[k].node \in InterruptAfter
        /\ \A i \in 1 .. k - 1 : task_outputs[i].node \notin InterruptAfter
        /\ Return("Interrupted", "InterruptAfter", {task_outputs[k].node}, last_ckpt_id)
    /\ UNCHANGED <<locals, saver>>

BeginRouting ==
    /\ pc = "after"
    /\ \A k \in DOMAIN task_outputs : task_outputs[k].node \notin InterruptAfter
    /\ pc' = "route" /\ at' = 1
    /\ next_tasks' = <<>> /\ satisfied_joins' = {}
    /\ UNCHANGED <<loop, last_ckpt_id, results, collected, barriers, state, cancel,
                   outcome, saver>>

\* join_lookup: the joins a node is a source of.
JoinsOf(n) == {j \in Join : n \in Joins[j].sources}

Routing(n) == /\ pc = "route" /\ at <= Len(task_outputs)
              /\ n = task_outputs[at].node
              /\ at' = at + 1

\* Command.goto comes first, and hides joins and edges.
RouteGoto ==
    /\ \E n \in Node : Routing(n)
    /\ \E tasks \in task_outputs[at].out.goto : next_tasks' = next_tasks \o tasks
    /\ UNCHANGED <<pc, loop, last_ckpt_id, results, collected, satisfied_joins,
                   barriers, state, cancel, outcome, saver>>

\* A set of joins as the increasing sequence of its members.
InOrder(S) == {q \in [1 .. Cardinality(S) -> S] :
                  \A i, k \in DOMAIN q : i < k => q[i] < q[k]}

\* Mutant of Full: the barrier is read before the source is marked.
FullBefore(j, n) == seen[j] = Joins[j].sources
\* NamedBarrierValue: every name has been seen once n is marked.
Full(j, n) == seen[j] \cup {n} = Joins[j].sources

\* Mutant of Marked: a barrier that fired is not emptied.
NeverEmptied(j, n, fired) ==
    IF j \in JoinsOf(n) THEN seen[j] \cup {n} ELSE seen[j]
\* What n's completion leaves in a barrier: one that fired is replaced by an
\* empty one.
Marked(j, n, fired) ==
    IF j \in fired THEN {}
    ELSE IF j \in JoinsOf(n) THEN seen[j] \cup {n} ELSE seen[j]

\* A join source marks its barriers; each one that is full now, and has not
\* fired in this superstep, schedules its target and is emptied.  A source's
\* own edge is not looked at.
RouteJoin ==
    \E n \in Node :
        LET full == {j \in JoinsOf(n) : Full(j, n)}
            fired == full \ satisfied_joins
        IN  /\ Routing(n) /\ task_outputs[at].out.goto = {} /\ JoinsOf(n) # {}
            /\ seen' = [j \in Join |-> Marked(j, n, fired)]
            /\ satisfied_joins' = satisfied_joins \cup fired
            /\ \E q \in InOrder(fired) :
                next_tasks' = next_tasks \o [k \in DOMAIN q |-> Pull(Joins[q[k]].target)]
            /\ arrivals' = [j \in Join |-> IF j \in JoinsOf(n)
                                          THEN [arrivals[j] EXCEPT ![n] = @ + 1]
                                          ELSE arrivals[j]]
            /\ fires' = [j \in Join |-> IF j \in fired THEN fires[j] + 1 ELSE fires[j]]
            /\ UNCHANGED <<pc, loop, last_ckpt_id, results, collected, state, cancel,
                           outcome, saver>>

NoJoin(n) == Routing(n) /\ task_outputs[at].out.goto = {} /\ JoinsOf(n) = {}

\* The edge decides; a conditional edge's router may decide anything.
RouteEdge ==
    \E n \in DOMAIN Edges :
        /\ NoJoin(n)
        /\ \E tasks \in Edges[n] : next_tasks' = next_tasks \o tasks
        /\ UNCHANGED <<pc, loop, last_ckpt_id, results, collected, satisfied_joins,
                       barriers, state, cancel, outcome, saver>>

RouteUnreachable ==
    /\ \E n \in Node \ DOMAIN Edges : NoJoin(n)
    /\ Return("Err", "UnreachableNode", {}, last_ckpt_id)
    /\ UNCHANGED <<loop, last_ckpt_id, results, collected, routed, state, cancel, saver>>

NextSuperstep ==
    /\ pc = "route" /\ at > Len(task_outputs)
    /\ pending_tasks' = next_tasks
    /\ step' = step + 1 /\ superstep' = superstep + 1
    /\ pc' = "top"
    /\ UNCHANGED <<durability, first_iteration, current_resume_values, last_ckpt_id, results,
                   at, collected, routed, state, cancel, outcome, saver>>

-----------------------------------------------------------------------------
(* The user raises the cancel flag at any time.                            *)
Cancel ==
    /\ pc # "ended" /\ ~cancel
    /\ cancel' = TRUE
    /\ UNCHANGED <<pc, loop, last_ckpt_id, results, at, collected, routed, state,
                   outcome, saver>>

Engine ==
    \/ RecursionLimit \/ Finish \/ FinishFails \/ Cancelled \/ StopBefore
    \/ StartTasks \/ NodeNotFound \/ TasksJoined \/ CollectParent \/ CollectUpdate
    \/ Merge \/ MergeFails \/ PersistSync \/ PersistFails \/ PersistAsync \/ PersistExit
    \/ StopAfter \/ BeginRouting \/ RouteGoto \/ RouteJoin \/ RouteEdge
    \/ RouteUnreachable \/ NextSuperstep

Background == \E c \in inflight : DeliverPut(c)

-----------------------------------------------------------------------------
(* One call on its own: the caller's checkpoint is saved, then execute.    *)

Idle ==
    /\ pc = "idle" /\ outcome = NoOutcome
    /\ durability \in Durabilities
    /\ superstep = 0 /\ step = 0 /\ pending_tasks = <<>>
    /\ first_iteration = FALSE /\ current_resume_values = <<>>
    /\ cancel = FALSE
    /\ running = {} /\ task_results = <<>> /\ at = 1
    /\ grouped_updates = [c \in Key |-> <<>>]
    /\ task_outputs = <<>> /\ parent_command = FALSE
    /\ next_tasks = <<>> /\ satisfied_joins = {}
    /\ seen = [j \in Join |-> {}]
    /\ arrivals = [j \in Join |-> [n \in Node |-> 0]]
    /\ fires = [j \in Join |-> 0]
    /\ channels = [c \in Chan |-> <<>>]
    /\ channel_versions = [c \in Chan |-> 0]
    /\ versions_seen = [n \in Name |-> channel_versions]
    /\ inflight = {} /\ pending_writes = {} /\ announced = {}

Init ==
    /\ Idle
    /\ last_ckpt_id = IF HasSaver THEN 1 ELSE 0
    /\ uuids = last_ckpt_id
    /\ store = IF HasSaver THEN <<NewCheckpoint(1, 0, "Input", 0, channels, {})>> ELSE <<>>

\* The answers a resumed call may carry: the first few of node n's calls.
AnswersTo(n) == {[i \in 1 .. k |-> n] : k \in 0 .. IF n \in Node THEN Asks[n] ELSE 0}

Call ==
    /\ pc = "idle"
    /\ \E n \in Entry, resuming \in BOOLEAN :
        \E answers \in IF resuming THEN AnswersTo(n) ELSE {<<>>} :
            Execute(n, 1, last_ckpt_id, resuming, answers)
    /\ UNCHANGED <<state, cancel, saver>>

Terminated == pc = "ended" /\ UNCHANGED vars

Next == Call \/ Engine \/ RunTask \/ Background \/ Cancel \/ Terminated

Spec == Init /\ [][Next]_vars

\* The runtime keeps polling the engine, the node tasks and the spawned saves;
\* nodes are assumed to return.
Fairness == /\ WF_vars(Call) /\ WF_vars(Engine)
            /\ WF_vars(RunTask) /\ WF_vars(Background)

FairSpec == Spec /\ Fairness

-----------------------------------------------------------------------------
(* Properties.                                                             *)

CheckpointType ==
    [id : Nat, parent : Nat, source : {"Input", "Loop", "Resume", "Update"},
     step : Nat, vals : [Chan -> Seq(Item)], versions : [Chan -> Nat],
     seen_versions : [Name -> [Chan -> Nat]], writes : SUBSET Key]

PendingWrite == [ckpt : Nat, channel : {"marker", "__interrupt__"}, node : Name,
                 index : Nat, answers : Seq(Name)]

Reason == {"none", "finished", "parent",
           "UserCancelled", "InterruptBefore", "NodeInterrupt", "InterruptAfter",
           "RecursionLimit", "NodeNotFound", "UnreachableNode", "NoEntry",
           "node", "reducer", "saver"}

Outcome == [kind : {"none", "Done", "Interrupted", "Err"}, why : Reason,
            node : SUBSET Name, ckpt : Nat]

LoopType ==
    /\ pc \in {"idle", "top", "run", "collect", "persist", "after", "route", "ended"}
    /\ durability \in Durability
    /\ superstep \in Nat /\ step \in Nat /\ at \in Nat \ {0}
    /\ pending_tasks \in Seq(Task)
    /\ first_iteration \in BOOLEAN /\ cancel \in BOOLEAN
    /\ current_resume_values \in Seq(Name)
    /\ outcome \in Outcome

TaskResult == [by : Nat, out : Output]
TaskOutput == [node : Name, by : Nat, out : Output]

ResultType ==
    /\ running \subseteq Nat
    /\ task_results \in Seq(TaskResult)
    /\ grouped_updates \in [Key -> Seq(Item)]
    /\ task_outputs \in Seq(TaskOutput)
    /\ parent_command \in BOOLEAN

RoutingType ==
    /\ next_tasks \in Seq(Task)
    /\ satisfied_joins \subseteq Join
    /\ seen \in [Join -> SUBSET Node]
    /\ arrivals \in [Join -> [Node -> Nat]]
    /\ fires \in [Join -> Nat]

StateType ==
    /\ channels \in [Chan -> Seq(Item)]
    /\ channel_versions \in [Chan -> Nat]
    /\ versions_seen \in [Name -> [Chan -> Nat]]

SaverType ==
    /\ last_ckpt_id \in Nat /\ uuids \in Nat /\ announced \subseteq Nat
    /\ store \in Seq(CheckpointType)
    /\ inflight \subseteq CheckpointType
    /\ pending_writes \subseteq PendingWrite

\* Every variable holds a value of its type: the channels are the declared
\* ones, whatever keys the nodes write.
TypeOK == LoopType /\ ResultType /\ RoutingType /\ StateType /\ SaverType

\* While the tasks run each one is either executing or has its result in the
\* list, so zip() pairs every result with a task and drops none; a task runs
\* only during its superstep.
ZipIsTotal ==
    /\ pc # "run" => running = {}
    /\ pc \in {"run", "collect"} =>
        /\ running \subseteq DOMAIN pending_tasks
        /\ \A i \in DOMAIN pending_tasks : pending_tasks[i].node \in Node
        /\ Cardinality(running) + Len(task_results) = Len(pending_tasks)

RunnerVerdict ==
    IF pc = "run" THEN "running"
    ELSE IF pc = "collect" THEN "ok"
    ELSE IF pc = "ended" /\ outcome.why \in {"node", "NodeInterrupt", "NodeNotFound"} THEN "err"
    ELSE "idle"

Runner == INSTANCE ParallelTasks WITH
    open <- running, verdict <- RunnerVerdict,
    booked <- IF pc \in {"run", "collect"}
              THEN {task_results[k].by : k \in DOMAIN task_results} ELSE {}

\* The engine's view of a superstep is the contract its parallel runner keeps
\* (TaskRunner): results are collected only once every task has its one result,
\* and the first error drops them all (engine.rs:209, runner.rs:80).
RunnerAsPromised == Runner!Spec

\* A join's target is scheduled at most as often as each source completed:
\* it never runs ahead of a source (NamedBarrierValue, add_edge_join).
JoinNeverEarly ==
    \A j \in Join : \A s \in Joins[j].sources : fires[j] <= arrivals[j][s]

\* At a superstep boundary some source of every join is still awaited: no
\* complete set of arrivals is left without its target having been scheduled.
\* (Of graphs that do not complete a source twice before the others once.)
JoinNeverStuck ==
    pc = "top" => \A j \in Join : \E s \in Joins[j].sources : arrivals[j][s] = fires[j]

\* The writes of a superstep reach an aggregating channel once each: the
\* entries of this step are exactly those of the tasks that wrote it.
Producers(c) == {task_results[k].by : k \in
                    {i \in DOMAIN task_results : /\ ~task_results[i].out.parent
                                                /\ c \in task_results[i].out.writes}}
EntriesOf(c) == {i \in DOMAIN channels[c] : channels[c][i].step = step}
Aggregates == {c \in Chan : Kind[c] = "BinaryOperatorAggregate"}
Overwrites(c) == \E i \in DOMAIN grouped_updates[c] : grouped_updates[c][i].over

MergeTakesEveryWrite ==
    pc = "persist" =>
        \A c \in Aggregates :
            ~Overwrites(c) => /\ {channels[c][i].by : i \in EntriesOf(c)} = Producers(c)
                              /\ Cardinality(EntriesOf(c)) = Cardinality(Producers(c))

\* An aggregating channel holds the supersteps' writes in superstep order:
\* what an earlier superstep wrote is never behind what a later one wrote.
LogInStepOrder ==
    \A c \in Aggregates : \A i, k \in DOMAIN channels[c] :
        i < k => channels[c][i].step <= channels[c][k].step

SavesEachStep == HasSaver /\ durability = "Sync"
Latest == store[Len(store)]

\* With Durability::Sync, between the merge of one superstep and the merge of
\* the next, the newest checkpoint is the engine's state: a restart from it
\* loses at most the superstep that was running.
CheckpointIsState ==
    SavesEachStep /\ pc \in {"top", "run", "after", "route"} =>
        /\ Latest.id = last_ckpt_id
        /\ Latest.vals = Snapshot(channels)
        /\ Latest.versions = channel_versions
        /\ Latest.seen_versions = versions_seen

\* The checkpoints of a Sync call form a chain: each names its predecessor as
\* parent, is one step later, and carries an id of its own.
ParentChain ==
    SavesEachStep =>
        /\ \A i \in DOMAIN store \ {1} : /\ store[i].parent = store[i - 1].id
                                        /\ store[i].step = store[i - 1].step + 1
        /\ \A i, k \in DOMAIN store : store[i].id = store[k].id => i = k

\* A channel whose saved value differs between two successive checkpoints has
\* a greater version in the later one.
ChangeRaisesVersion ==
    SavesEachStep =>
        \A i \in DOMAIN store \ {1} : \A c \in Chan :
            store[i].vals[c] # store[i - 1].vals[c]
                => store[i].versions[c] > store[i - 1].versions[c]

Stored == {store[i].id : i \in DOMAIN store}

\* With Durability::Sync, CheckpointSaved is sent only for checkpoints that can
\* be loaded (the event's doc: the checkpoint has been persisted).
AnnouncedIsStored == SavesEachStep => announced \subseteq Stored

\* An Interrupted result of interrupt_before or interrupt() can be resumed
\* from: its checkpoint is the thread's newest and carries the entry that
\* names the node; one more answer is the one the failing call asked for.
InterruptIsRecorded ==
    /\ SavesEachStep /\ "saver" \notin Faults
    /\ outcome.why \in {"InterruptBefore", "NodeInterrupt"}
    => /\ Latest.id = outcome.ckpt
       /\ \E w \in pending_writes : /\ w.ckpt = outcome.ckpt /\ outcome.node = {w.node}
                                    /\ w.index = Len(w.answers)

\* A run that finished has left its final state in the newest checkpoint,
\* under the id it returns (Sync and Exit).
FinishedIsDurable ==
    HasSaver /\ durability # "Async" /\ outcome.why = "finished" =>
        Latest.id = outcome.ckpt /\ Latest.vals = Snapshot(channels)

\* Every call returns: the superstep limit ends what no edge ends.
Termination == pc = "top" ~> pc = "ended"

\* A background save that was announced ends up in the store.
SavesLand ==
    \A id \in 1 .. MaxSupersteps + 1 :
        durability = "Async" /\ id \in announced ~> id \in Stored

-----------------------------------------------------------------------------
(* What documents, comments or names in the repository say and the code    *)
(* does not do.                                                            *)

\* "Returns the NodeOutput of each task" (runner.rs): an output is booked,
\* and routed, under the node that produced it.
OutputBookedUnderItsNode ==
    \A k \in DOMAIN task_outputs :
        task_outputs[k].node = pending_tasks[task_outputs[k].by].node
=============================================================================
