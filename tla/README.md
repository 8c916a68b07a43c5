# eko-core in TLA+

Models of the state-graph engine of eko-agent (`src/eko-core`), the TLC runs that
check them on small graphs and the TLAPS proofs that hold for every graph.
`tlc -config LoopSync.cfg MCPregelLoop.tla` checks a run; `tlapm
PregelLoopProofs.tla` checks the proofs of a module; `PROJECT.json` lists the runs, the
mutants each property is tested with, the source lines of every definition, the
hazards and the findings.

## The system

A user builds a `StateGraph` (channels, nodes, edges, joins), compiles it and
calls `invoke`, `resume`, `get_state` and `update_state` on threads, whose
checkpoints live in a `BaseCheckpointSaver`.

| Component | State | Operations | Correct when |
|---|---|---|---|
| Pregel loop, `graph/pregel/engine.rs` | step, pending tasks, channels and their versions, barrier contents, last checkpoint id | one superstep: run the tasks, collect, merge, save, stop or route | every write is merged once, joins fire exactly when complete, the newest checkpoint is the state, the call returns |
| Task runner, `graph/pregel/runner.rs` | the `JoinSet`, a semaphore, retry counters | spawn, retry, time out, join, abort on the first error | each task's one output reaches its task; nobody waits for ever |
| Channels, `channels/*.rs` | a value, a list or the sets of a barrier | `update`, `get`, `checkpoint`, `from_checkpoint` | an update batch is folded in order; a restart restores what was saved |
| Channel operations, `graph/pregel/channel_ops.rs` | none | init, snapshot, read, apply | a changed channel has a greater version |
| Compiled graph, `graph/compiled.rs` | none of its own | invoke, resume, get_state, update_state | the thread's history is a tree; a resume continues what was interrupted |
| Saver, `checkpoint/*.rs` | checkpoints and pending writes per thread | get_tuple, put, put_writes, list, delete_thread | the latest is found; what was put is found whole |
| Builder, `graph/builder.rs` | nodes, edges, joins, channel specs | add_*, compile | a compiled graph has no node without a way out |
| Nodes, commands, `graph/node.rs`, `command.rs` | a counter of `interrupt()` calls per execution | process, interrupt | the n-th call gets the n-th answer |
| Subgraph, `graph/subgraph.rs` | the event channel and forwarder of each call | process: invoke the inner graph, forward its events | no event is lost or reordered, the stream closes, an inner interrupt stops the outer graph |
| Stream, `core/stream.rs` | none | events by mode | what an event says has happened |
| Types, derive macro | none | | not modelled: no behaviour at run time |

They interact through shared channels (tasks of a superstep read one snapshot
and write through the merge), through the saver (the only link between two
calls), through a cancel flag raised at any time, and through tasks spawned and
forgotten (the puts of `Durability::Async`, the forwarders of subgraphs). What is hard: the completion order
of parallel tasks; the first error aborting the rest; saves that fail, lag or
overtake; crashes between merge and save; joins that fill over several
supersteps and cycles; retries, timeouts and permits of tasks that are aborted;
concurrent calls on one thread; an interrupt, its answers and whatever the user
does in between. `hazards` in PROJECT.json lists them with their lines.

## The modules

**Channels** - the update, checkpoint and restart operations of the channels. A
content is the sequence of writes the value still reflects, each tagged with the
superstep and the task that wrote it, so that a user's reducer need not be known:
its value is a fold over that sequence.

**PregelLoop** - one call of `execute`. The engine is one async task and `pc` is
where it stands; every `await` and every loop iteration another task could see
is a step.

| Place (`pc`) | Code, `engine.rs` | Actions |
|---|---|---|
| `top` | 128-206 | RecursionLimit, Finish, FinishFails, Cancelled, StopBefore, StartTasks, NodeNotFound |
| `run` | 208-255, `runner.rs` | TaskDone, TaskInterrupted, TaskFailed, TasksJoined |
| `collect` | 257-323 | CollectParent, CollectUpdate, Merge, MergeFails |
| `persist` | 325-397 | PersistSync, PersistFails, PersistAsync, PersistExit |
| `after` | 399-410 | StopAfter, BeginRouting |
| `route` | 563-645 | RouteGoto, RouteJoin, RouteEdge, RouteUnreachable, NextSuperstep |

Beside the engine run the node tasks (`running`), the spawned puts (`inflight`,
DeliverPut) and the user (Cancel). Variables are named after the code's;
`arrivals` and `fires` are history variables. Node outputs, routers and goto
targets are free choices from the constants `Outputs` and `Edges`, since they are
the user's code; so is whether a node, reducer or saver fails (`Faults`). The
saver's operations are one step each, its checkpoints a sequence in timestamp
order. `Key` has the names an output may write; those that are no channel are passed
over by the merge and kept in the checkpoint's `writes`, as in the code. Barrier
channels are the variable `seen`. Retries and timeouts show only
as the outcome of a task. `GraphAssumption` is what `compile` accepts, with joins
that list no source twice and have a barrier of their own. The durability is
chosen per call from `Durabilities`.

**CompiledGraph** extends PregelLoop to a thread's life: invoke, resume and
update_state, one after the other, and crashes. A call is two steps, loading the
tuple and applying the user's values (`Load...`), then saving and running
(`Begin...`, `SaveUpdate`), because other tasks may run at the `await` between
them. Either half may fail, in the saver or in a reducer. A resume may carry any
answer, or none, at any time, as `extract_resume_values` takes it unasked; the history
variables `question` (the last interrupt() the user was told of) and `heeded` (every
answer so far was to it, with its checkpoint still the newest) tell which answers the
property can be about. `Crash` loses everything but the store; when it is only the
future that is dropped, the spawned puts survive. The saver is taken to be a persistent one, as
the repository's own MemorySaver is not. `Keys` keeps the code's lookup of a
channel name among the edges.

**ParallelTasks** is what a superstep expects of its runner: every task's one
result is kept, or the call fails as a whole. It stands between two models:
PregelLoop uses it (`RunnerAsPromised`) and TaskRunner implements it
(`KeepsContract`), each by a refinement mapping. So the loop's `RunTask` may
leave out how tasks are retried and limited.

**TaskRunner** - one call of `execute_tasks_parallel`. The caller is `pc`
(Spawn, NodeNotFound, AllSpawned, JoinNext, JoinError, AllJoined, and Dropped
when its future is dropped); each task is `stage`: waiting for a permit, running,
sleeping between attempts, over. Dropping the JoinSet marks tasks `aborted`; a
task is dropped at its next await, so it holds its permit until then. Time is
ticks that pass only while a timer is armed. `counter` is the context's
interrupt counter, `Ends` how an attempt may end ({} hangs).

| Code, `runner.rs` | Actions |
|---|---|
| 22-47, timeout | TimedOut, Tick |
| 49-75, retry | Succeeds, Fails, BacksOff, Wake |
| 91-117, single task | Spawn, DroppedInline |
| 123-165, spawn loop | Spawn, NodeNotFound, AllSpawned, Acquire, Drop |
| 167-174, join | JoinNext, JoinError, AllJoined |
| `node.rs` 64-75 | Answered, Interrupted |

**CheckpointStore** is what callers expect of a saver, each operation at one
instant. **MemorySaver** implements it (`KeepsPromise`) with its two mutexes:
get_tuple is LoadNothing or FindEntry (which keeps the mutex of storage) and
ReadWrites, delete_thread is DeleteFirst and DeleteSecond, put and put_writes are
one step. The callers are invoke, resume, update_state and get_state reduced to
what they do to the saver; `saving` holds checkpoints on their way to put, stamped
by the clock at once (Sync) or in the spawned task (Async). Exit is SkipSave, a
superstep that draws an id and stores nothing, and FinalSave, which ends the call; the
history variable `skipped` keeps what those ids stood for. A call may change from saves
it waits for to either of the others, which covers the calls whose first save, of the
input, is always awaited. Threads do not interact, so one is modelled.

**Builder** - the calls on `StateGraph` in any order, `compile` and the routing of
whatever it accepts. Barriers are channels named by the sources joined with "+",
so that two joins may share one; `join_lookup` lists a join once per mention of
a source. Nodes return plain updates; a router may choose any of its names, end,
or send two tasks.

**Subgraph** - a superstep whose tasks are SubgraphNodes. `inner[k]` is the inner
PregelLoop of one call of process (one per attempt of the runner), reduced to
where it sends events, reads the shared cancel flag and ends; `sub[k]` is its
channel, `forwarder[k]` the spawned task that wraps and sends on. The stream is
kept per sender, because the consumer's channel keeps each sender's order only.

**DynamicBarrier** - `DynamicBarrierValue`: the loop of `update` one value per step,
`get`, the version `apply_grouped_updates` keeps, and the restart of a call.

The **MC...** modules give the constants their values. Definitions commented as
mutants are faulty variants of the definition that follows; each shows that a
property can fail.

## The runs

| Run | Question | Bounds |
|---|---|---|
| LoopSync | merge, joins, versions and checkpoints of a Sync call | 10 supersteps: three rounds of a cycle through the join by either branch |
| LoopFaults | chain, announcements, the final save and the use of the runner when things fail (Sync, Exit) | 5 supersteps, two joins with a common source, unknown names, a guarded node, failing node, reducer, save |
| LoopAsync | does every call return, does every announced save land | 4 supersteps, so up to 4 puts in flight in any order |
| GraphThread | is the thread's history a forest that only grows | 3 calls, from the newest, any stored and an unknown checkpoint; values the saver or the reducer refuses, a key that is no channel but a node's name |
| GraphResume | is what resume needs on record, do answers and resumes find their node | 4 calls, crashes anywhere, any answer with any resume, stops before, after and inside nodes, two questions of one node, failing nodes |
| RunnerPolicies | permits, answers, back-off, aborts; does the call return and keep its contract | 1 to 4 tasks: one retried under the graph's policy, whose interval grows into its cap, one under its own, whose interval shrinks to 0, with a deadline and too few answers, one that hangs, one unknown; limits none, 0, 1, 2 |
| SaverRace | are the saver's operations atomic, parents right, interrupts found | 2 callers, one that may save in the background, one that may put its saves off and delete; 3 checkpoints, 2 readings of the clock, so ties happen |
| BuilderCompile | what does compile exclude, do proper joins wait | 5 names, one of them "a+b" and one END; up to 2 joins of 4, edges, routers and a chain that close loops; 4 supersteps |
| SubgraphStream | are events conserved, does the stream end completely | 2 subgraphs of 2 and 1 supersteps, 2 attempts, a cancel, a drop, a consumer that may leave |
| BarrierPhases | does the dynamic barrier open exactly when due, and say so | 3 names (symmetric), batches of 2, 4 merges |

The bounds are small because the interesting cases are: two tasks already give
both completion orders, two rounds of a cycle a barrier's reuse, two answers an
index that matters, three calls a branch with a sibling, two callers every
interleaving of two critical sections, two checkpoints a tie. `MaxSupersteps`
stands for MAX_SUPERSTEPS (100) and is reached in the runs. Only BarrierPhases
uses symmetry: its names are interchangeable and it checks invariants only.
Deadlock is checked everywhere but in RunnerPolicies, where `Some(0)` permits
really leave everyone waiting; otherwise only what has ended stutters.

`JoinNeverStuck` is stated for graphs that do not complete one source of a join
twice before another completes once, as in the run's graph; the code keeps a
set, so the extra completion is absorbed. `HistoryGrows` and
`MergeTakesEveryWrite` set overwriting writes apart, which discard history on
purpose. `InterruptIsRecorded` assumes that put_writes succeeds, as the code
ignores its error. `InterruptFound` is about a caller alone on its thread, who
called on the latest checkpoint, waited for each of its saves (spawned none and put
none off), and whose checkpoint shares its timestamp with no other: each condition is
needed (see below). `ForestDespiteRaces` counts the ids Exit never stored among the
checkpoints, so it says of Exit's final checkpoint where it belongs and not that its
parent can be loaded. `AnswersReachAsker` is about users who answer the question last
put to them while its checkpoint is the newest, as often as they like and with other
calls in between or not; GraphResume has the others too, and without the condition
it is violated. `ProperJoinWaits`
is about joins that list no source twice and share their barrier with no other.
`Returns` sets `Some(0)` and nodes that never return without a deadline apart.
In `AnswersInOrder` the nodes are FnNodes, whose context is cloned per attempt.

**Fairness.** LoopAsync: weak fairness of the engine, the node tasks, the spawned
puts and the call. RunnerPolicies: of the caller's loop, of each task's next step
and of the clock. SubgraphStream: of the outer call, the inner calls, the
forwarders and a reading consumer. The tokio runtime polls every ready task and
fires every timer; nodes are assumed to return, except where the model has one
that hangs. A task that waits for a permit needs no strong fairness: tokio's
semaphore serves in order, and here each permit is wanted finitely often. Nothing
is assumed of Cancel, Dropped or Leave. Each edge of a cycle may be taken for
ever: what ends the call is the superstep limit.

## What the code does not do

Two runs check one statement of the repository each and find a behaviour of the
code that breaks it:

- ZipOrder: outputs are paired with tasks by position although they arrive in
  completion order, so an output is routed under another task's node
  (`engine.rs:265`, `runner.rs:168`).
- SubgraphDone: an interrupted or cancelled subgraph becomes a Command for the
  parent graph, and that ends the outer call with Done (`subgraph.rs:86`,
  `engine.rs:316`), where the comment says the interrupt bubbles up.

Further disagreements seen while modelling, without a run of their own:

- interrupt_before looks at the first pending task only (`engine.rs:172`;
  `docs/src/advanced/interrupt.md:14`).
- A checkpoint saved by Durability::Async is its own parent (`engine.rs:343`;
  `checkpoint/types.rs:58`).
- Resuming an interrupted superstep drops its other tasks (`engine.rs:126`), and
  after interrupt_after a resume restarts at the entry (`engine.rs:466`;
  `interrupt.md:3`).
- An answer goes to the entry node, or to one the newest checkpoint's writes name,
  whenever the interrupt's checkpoint is not the newest any more, because
  `extract_resume_values` takes it all the same (`engine.rs:475`, `499`, against
  `interrupt.md:49`): when it is sent again after a resume that saved its checkpoint
  and then failed or crashed, after a second invoke or an update_state, after a
  background save that lands late, a deletion or a second caller's call. The
  shortest trace is invoke, NodeInterrupt, resume(answer), crash, resume(answer).
- With Durability::Exit the ids between the input's checkpoint and the final one are
  never stored (`engine.rs:373`), yet the final checkpoint names the last of them as
  its parent (`engine.rs:131`; `checkpoint/types.rs:58`), and an interrupt is written
  under such an id (`engine.rs:222`), so the next resume loads the input's checkpoint
  and does not find it.
- A source listed twice in add_edge_join marks the barrier again after it fired
  and was reset, so the next round does not wait for all; joins added twice, or
  whose sources run together as "a+b", share a barrier (`builder.rs:172`,
  `engine.rs:600`; the doc at `builder.rs:169` promises all sources). A join
  with an unregistered source never fires and the run ends Done.
- compile() checks neither the sources nor the targets of joins, and skips the
  entry's check when a START edge is registered (`builder.rs:227`, against line 4).
- A LastValue channel written by two tasks of a superstep keeps the write of the
  one that completes last (`runner.rs:168`; `docs/src/execution/superstep.md:21`).
- A graph that ends in exactly MAX_SUPERSTEPS supersteps gets RecursionLimit
  (`engine.rs:418`).
- Nothing calls `consume`, so an ephemeral value outlives its step
  (`ephemeral.rs:26`). The dynamic barrier never resets to priming by itself
  (`dynamic_barrier.rs:96`, against line 8).
- Durability::Exit announces checkpoints it never saves (`engine.rs:388`).
- After a cancellation a resume starts at the entry, not at the node the result
  named (`engine.rs:475`); get_state's next is empty after an interrupt_before
  (`engine.rs:509`); a resume's own checkpoint has no writes (`compiled.rs:259`).
- Of equal timestamps get_tuple takes the last and list the first in hash order,
  so get_state and get_state_history may disagree (`memory.rs:61`, `167`); a
  deletion during a call can take its pending writes away or leave some behind.
- A retry policy is not validated: initial_interval_ms may be 0 or above the cap, and
  a factor below 1 shrinks the interval, down to 0 by the truncation (`runner.rs:69`;
  `graph/types.rs:46`); the retries then follow each other without a pause.
- A custom GraphNode retried in one context goes on counting its interrupts
  (`node.rs:63`). The first back-off is not capped, and a sleeping task keeps its
  permit (`runner.rs:57`, `68`).
- ctx.emit passes the stream-mode filter, although `node.rs:78` says Custom must
  be enabled; inner calls use the default modes whatever the outer call asked
  for. The outer Done event may precede forwarded events, and a parent Command
  ends the call without one. A retried subgraph's first forwarder may interleave
  with the second's.
- A subgraph runs on a fresh thread id, so its checkpoints cannot be resumed, and
  checkpoint_ns is never read (`subgraph.rs:68`). An aggregating channel it shares
  with the outer graph gets the inner list folded in again.

## The proofs

Every invariant and every action property of the passing runs is a theorem, from the
assumptions on the constants alone unless a hypothesis is named below: for every
graph, policy and number of tasks, calls, crashes, callers, checkpoints, subgraphs and
names. The inductive invariants were model-checked before they were proved.

- **PregelLoopProofs**. `TypeCorrect`: TypeInv is TypeOK with what each action
  needs of the bounds of `at` and of the tasks; the zip is total because running
  tasks and results together always number the pending tasks. `JoinSafety`: the
  property does not say why an empty barrier implies no debt; JoinInv adds that
  a source in a barrier's seen set has completed once more often than the join
  has fired. `SyncCheckpoints` and `ChainSafety`: ChainInv adds that the ids drawn are
  those stored, in order, so a new one is fresh; StateInv that the state between two
  merges is the saved one. `RunnerUse`: each engine step is a ParallelTasks step or a
  stutter.
- **PregelStateProofs** continues it with the data of a call. `EveryWriteOnce` and
  `LogOrder` follow a write from the runner to the reducer: ResultsInv (each result is
  of a task of its own), GroupInv (the groups hold the writes of the tasks collected so
  far, once each), LogInv (before the merge a channel has entries of earlier steps
  only) and MergedInv (after it, this step's are the producers'). `VersionsTell` and
  `AnnouncedStored`: the merge is the one moment at which the channels leave the newest
  checkpoint behind, and it raises the version of what it changes. `FinishedDurable`:
  EndInv, that nothing is in flight for Exit, so that no save can follow the last one.
  `JoinProgress` has the hypothesis that no source completes a second time before the
  others have (OncePerRound, an invariant of LoopSync); without it the barrier, a set,
  absorbs a completion. RoundInv then says that every barrier awaits a source which has
  not completed more often than the join has fired.
- **CompiledGraphProofs** lifts a call's invariants to a thread's life: calls that
  start from any checkpoint, crashes, and saves that outlive their call. `ThreadTypes`
  rests on what a call may load. `TreeSafety` and `ThreadCheckpoints`: TreeInv gives the
  checkpoints their position as id, ThreadInv says where a call stands in the tree and
  when its state is the newest checkpoint's. `HistoryGrowth`: GrowInv says the same of
  the checkpoint about to be saved; its hypothesis NoOverwrites is that no node writes
  an overwriting object, which discards history on purpose. `OneInterrupt`: IdsInv, that
  a call that can still record an interrupt has a checkpoint without an entry.
  `ResumeSafety`: InterruptInv, that the entry is there while the user holds the
  interrupt; its hypothesis is that put_writes does not fail, as the code goes on
  without the entry when it does. `AnswerSafety`: AskInv, that the
  question the user was asked is booked under its checkpoint, that answers stay with
  the node they were given to, in the saver too, and that only a call's first superstep
  has any. Its hypothesis AnswersKept is that put_writes does not fail; durability,
  updates and other calls are free, since the property itself speaks of answers to the
  newest checkpoint. `InterruptRecorded`: HeldInv, that an interrupt at hand is the
  newest checkpoint's; its hypothesis RecordKept adds Durability::Sync and no
  update_state. Each part is needed: otherwise the newest checkpoint is another one, or
  lacks the entry. GraphResume satisfies both hypotheses.
- **TaskRunnerProofs**. `RunnerTyped`; `PermitSafety` by counting the holders,
  whose number each step changes by what it does to `permits`; `AnswersOrdered`;
  `BackoffSafety` with IntervalInv, that the interval is at most the larger of the
  first one and the cap, and two lemmas: GrownBounded, whatever the factor, and
  SleepsFor, what the jitter adds, nothing to the intervals 0 and 1; `RunnerContract` with BookInv, that a finished task is
  exactly one whose stage says so and whose result is not yet collected;
  `ReturnIsFinal` with LeftInv, that a task still unfinished when the call has left is
  one that the JoinSet's drop has aborted.
- **MemorySaverProofs**. `SaverTyped` needs Entries (one holder at most, whose
  entry is an answer) and Distinct (saves draw ids of their own). `StoreContract`:
  the step that reads the pending writes is where get_tuple takes effect, which is
  right because the mutex of storage is held until then. `ForestSafety` needs
  Footing: a call that may save stands on a stored checkpoint or on the last one it
  put off, and one that awaits a save on what that save is about to store. `InterruptSafety`: AloneInv says that an
  undisturbed call stands on the newest checkpoint with at most its own save under
  way, and that what it leaves is found there; ClockInv, that no stamp is ahead of the
  clock, makes its save the newest. The clock of the model is never set back; the code
  relies on the system's.
- **BuilderProofs**. `LeavableNodes` and `NotFoundSafety`: what compile checked of the
  definition stays true, for nothing changes it afterwards, so whatever is scheduled is
  registered or is a name compile did not check. `JoinsWait`: Waits is JoinInv again,
  but one step marks all the joins of a node in a fold, whose list is itself flattened
  from one list per join. How many joins there are is not bounded, so the first part of
  the module proves what FoldLeft and FlattenSeq compute: the function they choose
  exists (FoldExists), and an invariant of each step of the fold holds of its result
  (JoinsInvariant). It is an induction over sets of numbers (Induction), by a least
  number outside the set, as the library's induction theorems take an operator and
  cannot be used. LookupOnce is why a join must not repeat a source: then it is marked
  once per node, and a fire that resets the barrier is not followed by a second mark.
- **SubgraphProofs**. `StreamFaithful` and `StreamComplete`: events conserved is
  kept by each send and each forward because queues are first in first out; a
  forwarder that is down, and whose consumer listens, has left nothing behind.
- **DynamicBarrierProofs**. `BarrierOpens` and `OpeningCounts`: seen is what was
  signalled of the target set, so comparing sizes is comparing sets.

Only model-checked: liveness (Termination and SavesLand of the loop, Returns of the
runner, StreamCloses of the subgraphs), which is beyond the prover because fairness
speaks of ENABLED. The two runs that find a violation are of statements that do not hold.

## What is next

Subgraph over two instances of PregelLoop rather than its reduction. For liveness, the
safety half of a proof: a measure that each step of the engine lowers.

## Not modelled

Message, tool and model types and the derive macro have no behaviour at run
time. Input and output key filters, event payloads, JSON encoding, error texts
and the format of timestamps are data. `Topic::drain` and `EphemeralValue::consume`
have no caller in the repository. A panic of a node is its fatal error. The
back-off factor is a fraction instead of a float: a negative one acts as 0; an infinite
one or one that is no number, which sets every later interval to the cap, is left out.
The rounding of f64,
from 2^53 ms on, and the overflow of u64 when the jitter is added, from 2^63 ms on, are
out of range. `list` and get_state_history only read. Mutex
poisoning needs a panic inside the saver, which does not panic. A user's own
saver, and several threads at once, which share nothing, are left out.
