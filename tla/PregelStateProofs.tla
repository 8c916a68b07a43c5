-------------------------- MODULE PregelStateProofs --------------------------
(***************************************************************************)
(* What one call does to the channels and to its checkpoints, for every    *)
(* graph: the merge of a superstep's writes, the versions, the announced   *)
(* and the final checkpoint, and the joins at a superstep boundary.        *)
(***************************************************************************)
EXTENDS PregelLoopProofs, FunctionTheorems

\* The actions that move results, writes or channels.
DataStep ==
    \/ Call \/ StartTasks \/ TasksJoined \/ CollectParent \/ CollectUpdate \/ Merge
    \/ NextSuperstep \/ \E i \in running : TaskDone(i)

\* The others leave them alone; they save, route, or end the call.
LEMMA Elsewhere ==
    ASSUME [Next]_vars, ~DataStep
    PROVE  /\ UNCHANGED <<step, task_results, grouped_updates, channels, channel_versions>>
           /\ running' = running \/ running' = {}
           /\ \/ pc' = pc /\ (pc = "collect" => at' = at)
              \/ pc' = "ended"
              \/ pc = "persist" /\ pc' = "after"
              \/ pc = "after" /\ pc' = "route"
<1>1. CASE \/ RecursionLimit \/ FinishFails \/ Cancelled \/ MergeFails \/ PersistFails
           \/ StopAfter \/ Finish \/ StopBefore \/ NodeNotFound
           \/ RouteUnreachable \/ \E i \in running : TaskInterrupted(i) \/ TaskFailed(i)
  BY <1>1 DEF RecursionLimit, FinishFails, Cancelled, MergeFails, PersistFails, StopAfter,
              Finish, StopBefore, NodeNotFound, RouteUnreachable, TaskInterrupted,
              TaskFailed, Return, locals, loop, results, collected, state
<1>2. CASE PersistSync \/ PersistAsync \/ PersistExit \/ BeginRouting
  BY <1>2 DEF PersistSync, PersistAsync, PersistExit, BeginRouting, loop, results,
              collected, state
<1>3. CASE RouteGoto \/ RouteJoin \/ RouteEdge
  <2>1. pc = "route" /\ UNCHANGED <<pc, loop, results, collected, state>>
    BY <1>3 DEF RouteGoto, RouteJoin, RouteEdge, NoJoin, Routing
  <2> QED
    BY <2>1 DEF loop, results, collected, state
<1>4. CASE Background \/ Cancel \/ Terminated \/ UNCHANGED vars
  BY <1>4 DEF Background, DeliverPut, Cancel, Terminated, vars, locals, loop, results,
              collected, state
<1> QED
  BY <1>1, <1>2, <1>3, <1>4 DEF Next, Engine, RunTask, DataStep

-----------------------------------------------------------------------------
(* The merge of a superstep's writes.                                      *)

\* Each result is of a task of its own.
ResultsInv ==
    /\ \A i, k \in DOMAIN task_results : task_results[i].by = task_results[k].by => i = k
    /\ \A i \in DOMAIN task_results : task_results[i].by \notin running

\* The tasks before the cursor that wrote c, Commands for the parent excepted.
CollectedProducers(c) ==
    {task_results[k].by : k \in {i \in DOMAIN task_results : /\ i < at
                                                            /\ ~task_results[i].out.parent
                                                            /\ c \in task_results[i].out.writes}}

\* The writes collected so far are those of the collected tasks, once each.
GroupInv ==
    pc = "collect" => \A c \in Chan :
        /\ \A i \in DOMAIN grouped_updates[c] : grouped_updates[c][i].step = step
        /\ {grouped_updates[c][i].by : i \in DOMAIN grouped_updates[c]} = CollectedProducers(c)
        /\ \A i, k \in DOMAIN grouped_updates[c] :
              grouped_updates[c][i].by = grouped_updates[c][k].by => i = k

\* Until the merge, an aggregating channel holds entries of earlier
\* supersteps only.
LogInv ==
    /\ pc = "idle" => \A c \in Aggregates : channels[c] = <<>>
    /\ \A c \in Aggregates : \A i \in DOMAIN channels[c] :
          /\ channels[c][i].step <= step
          /\ pc \in {"top", "run", "collect"} => channels[c][i].step < step
    /\ LogInStepOrder

\* After it, this superstep's entries are those of its producers, once each.
MergedInv ==
    pc = "persist" => \A c \in Aggregates :
        ~Overwrites(c) =>
            /\ {channels[c][i].by : i \in EntriesOf(c)} = Producers(c)
            /\ \A i, k \in EntriesOf(c) : channels[c][i].by = channels[c][k].by => i = k

MergeInv == ResultsInv /\ GroupInv /\ LogInv /\ MergedInv

\* The types the following lemmas need.
LEMMA DataTypes ==
    ASSUME TypeInv
    PROVE  /\ task_results \in Seq(TaskResult) /\ step \in Nat /\ at \in Nat
           /\ \A c \in Chan : channels[c] \in Seq(Item) /\ grouped_updates[c] \in Seq(Item)
           /\ Aggregates \subseteq Chan
BY GraphAssumption DEF TypeInv, TypeOK, LoopType, ResultType, StateType, Aggregates

LEMMA MergeInit == Init => MergeInv
BY GraphAssumption DEF Init, Idle, MergeInv, ResultsInv, GroupInv, LogInv, LogInStepOrder, MergedInv, Aggregates

LEMMA MergeElsewhere ==
    ASSUME TypeInv, MergeInv, [Next]_vars, ~DataStep
    PROVE  MergeInv'
<1>1. /\ UNCHANGED <<step, task_results, grouped_updates, channels>>
      /\ running' = running \/ running' = {}
      /\ \/ pc' = pc /\ (pc = "collect" => at' = at)
         \/ pc' = "ended"
         \/ pc = "persist" /\ pc' = "after"
         \/ pc = "after" /\ pc' = "route"
  BY Elsewhere
<1>2. ResultsInv'
  BY <1>1 DEF MergeInv, ResultsInv
<1>3. GroupInv'
  BY <1>1 DEF MergeInv, GroupInv, CollectedProducers
<1>4. LogInv'
  BY <1>1 DEF MergeInv, LogInv, LogInStepOrder, Aggregates
<1>5. MergedInv'
  BY <1>1 DEF MergeInv, MergedInv, Overwrites, EntriesOf, Producers, Aggregates
<1> QED
  BY <1>2, <1>3, <1>4, <1>5 DEF MergeInv

\* Starting, running and awaiting the tasks, and the step to the next superstep.
LEMMA MergeRunning ==
    ASSUME TypeInv, MergeInv,
           \/ Call \/ StartTasks \/ TasksJoined \/ NextSuperstep
           \/ \E i \in running : TaskDone(i)
    PROVE  MergeInv'
<1>0. task_results \in Seq(TaskResult) /\ step \in Nat
      /\ \A c \in Aggregates : channels[c] \in Seq(Item)
  BY DataTypes
<1>1. CASE Call
  <2>1. /\ pc = "idle" /\ pc' = "top" /\ task_results' = <<>> /\ channels' = channels
    BY <1>1 DEF Call, Execute, state
  <2> QED
    BY <2>1 DEF MergeInv, ResultsInv, GroupInv, LogInv, LogInStepOrder, MergedInv, Aggregates
<1>2. CASE StartTasks
  <2>1. pc = "top" /\ pc' = "run" /\ task_results' = <<>> /\ UNCHANGED <<channels, step>>
    BY <1>2 DEF StartTasks, ReadyToRun, InLoop, state
  <2> QED
    BY <2>1 DEF MergeInv, ResultsInv, GroupInv, LogInv, LogInStepOrder, MergedInv, Aggregates
<1>3. ASSUME NEW i \in running, TaskDone(i)
      PROVE  MergeInv'
  <2>1. PICK out : task_results' = Append(task_results, [by |-> i, out |-> out])
    BY <1>3 DEF TaskDone
  <2>2. pc = "run" /\ pc' = "run" /\ running' = running \ {i} /\ UNCHANGED <<channels, step>>
    BY <1>3 DEF TaskDone, state, loop
  <2>3. ResultsInv'
    BY <1>0, <2>1, <2>2 DEF MergeInv, ResultsInv
  <2> QED
    BY <2>2, <2>3 DEF MergeInv, GroupInv, LogInv, LogInStepOrder, MergedInv, Aggregates
<1>4. CASE TasksJoined
  <2>1. /\ pc = "run" /\ pc' = "collect" /\ at' = 1
        /\ grouped_updates' = [c \in Key |-> <<>>]
        /\ UNCHANGED <<running, task_results, channels, step>>
    BY <1>4 DEF TasksJoined, results, state
  <2>2. \A c \in Chan : CollectedProducers(c)' = {}
    BY <1>0, <2>1 DEF CollectedProducers
  <2>3. GroupInv'
    BY <2>1, <2>2, GraphAssumption DEF GroupInv
  <2> QED
    BY <2>1, <2>3 DEF MergeInv, ResultsInv, LogInv, LogInStepOrder, MergedInv, Aggregates
<1>5. CASE NextSuperstep
  <2>1. /\ pc = "route" /\ pc' = "top" /\ step' = step + 1
        /\ UNCHANGED <<running, task_results, channels>>
    BY <1>5 DEF NextSuperstep, results, state
  <2>2. \A c \in Aggregates : \A i \in DOMAIN channels[c] : channels[c][i].step \in Nat
    <3>1. ASSUME NEW c \in Aggregates, NEW i \in DOMAIN channels[c]
          PROVE  channels[c][i] \in Item
      BY <1>0
    <3> QED
      BY <3>1 DEF Item
  <2>3. LogInv'
    BY <1>0, <2>1, <2>2 DEF MergeInv, LogInv, LogInStepOrder, Aggregates
  <2> QED
    BY <2>1, <2>3 DEF MergeInv, ResultsInv, GroupInv, MergedInv
<1> QED
  BY <1>1, <1>2, <1>3, <1>4, <1>5

\* Collecting one result.
LEMMA MergeCollecting ==
    ASSUME TypeInv, MergeInv, CollectParent \/ CollectUpdate
    PROVE  MergeInv'
<1> DEFINE r == task_results[at]
<1>0. /\ task_results \in Seq(TaskResult) /\ at \in Nat \ {0}
      /\ grouped_updates \in [Key -> Seq(Item)] /\ Chan \subseteq Key
  BY GraphAssumption DEF TypeInv, TypeOK, LoopType, ResultType
<1>1. /\ pc = "collect" /\ at \in DOMAIN task_results /\ at' = at + 1
      /\ UNCHANGED <<pc, running, task_results, channels, step>>
  BY <1>0 DEF CollectParent, CollectUpdate, loop, results, state
<1>2. \A c \in Chan :
          CollectedProducers(c)' = IF ~r.out.parent /\ c \in r.out.writes
                                   THEN CollectedProducers(c) \cup {r.by}
                                   ELSE CollectedProducers(c)
  <2>1. \A i \in DOMAIN task_results : i < at + 1 <=> i < at \/ i = at
    BY <1>0
  <2> QED
    BY <1>1, <2>1 DEF CollectedProducers
<1>3. \A c \in Chan : r.by \notin CollectedProducers(c)
  BY <1>0, <1>1 DEF MergeInv, ResultsInv, CollectedProducers
<1>4. GroupInv'
  <2>1. CASE CollectParent
    <3>1. r.out.parent /\ grouped_updates' = grouped_updates
      BY <2>1 DEF CollectParent
    <3> QED
      BY <1>1, <1>2, <3>1 DEF MergeInv, GroupInv
  <2>2. CASE CollectUpdate
    <3> DEFINE entry(c) == [step |-> step, by |-> r.by, over |-> c \in r.out.over]
    <3>1. ~r.out.parent
          /\ grouped_updates' = [c \in Key |-> IF c \in r.out.writes
                                               THEN Append(grouped_updates[c], entry(c))
                                               ELSE grouped_updates[c]]
      BY <2>2 DEF CollectUpdate
    <3>2. \A c : entry(c).step = step /\ entry(c).by = r.by
      OBVIOUS
    <3> HIDE DEF entry, r
    <3> SUFFICES ASSUME NEW c \in Chan
                 PROVE  LET g == grouped_updates'[c] IN
                        /\ \A i \in DOMAIN g : g[i].step = step
                        /\ {g[i].by : i \in DOMAIN g} = CollectedProducers(c)'
                        /\ \A i, k \in DOMAIN g : g[i].by = g[k].by => i = k
      BY <1>1 DEF GroupInv
    <3>3. CASE c \notin r.out.writes
      BY <1>0, <1>1, <1>2, <3>1, <3>3 DEF MergeInv, GroupInv
    <3>4. CASE c \in r.out.writes
      <4> DEFINE g == grouped_updates[c]
                 h == grouped_updates'[c]
      <4>1. h = Append(g, entry(c)) /\ g \in Seq(Item)
        BY <1>0, <3>1, <3>4
      <4>2. DOMAIN h = DOMAIN g \cup {Len(g) + 1} /\ Len(g) + 1 \notin DOMAIN g
        BY <4>1
      <4>3. (\A i \in DOMAIN g : h[i] = g[i]) /\ h[Len(g) + 1] = entry(c)
        BY <4>1
      <4>4. /\ \A i \in DOMAIN g : g[i].step = step
            /\ {g[i].by : i \in DOMAIN g} = CollectedProducers(c)
            /\ \A i, k \in DOMAIN g : g[i].by = g[k].by => i = k
        BY <1>1 DEF MergeInv, GroupInv
      <4>5. CollectedProducers(c)' = CollectedProducers(c) \cup {r.by}
        BY <1>2, <3>1, <3>4
      <4> HIDE DEF g, h
      <4>6. {h[i].by : i \in DOMAIN h} = CollectedProducers(c)'
        BY <3>2, <4>2, <4>3, <4>4, <4>5
      <4>7. \A i, k \in DOMAIN h : h[i].by = h[k].by => i = k
        BY <1>3, <3>2, <4>2, <4>3, <4>4
      <4>8. \A i \in DOMAIN h : h[i].step = step
        BY <3>2, <4>2, <4>3, <4>4
      <4> QED
        BY <4>6, <4>7, <4>8 DEF h
    <3> QED
      BY <3>3, <3>4
  <2> QED
    BY <2>1, <2>2
<1> QED
  BY <1>1, <1>4 DEF MergeInv, ResultsInv, LogInv, LogInStepOrder, MergedInv

\* An aggregating channel after a batch with one: entries of the batch only.
LEMMA AggregateOver ==
    ASSUME NEW content \in Seq(Item), NEW batch \in Seq(Item),
           LastOverwrite(batch) # {}, NEW n \in Nat,
           \A i \in DOMAIN batch : batch[i].step = n
    PROVE  \A i \in DOMAIN Aggregate(content, batch) : Aggregate(content, batch)[i].step = n
<1> DEFINE i == CHOOSE i \in LastOverwrite(batch) : TRUE
           first == [batch[i] EXCEPT !.over = FALSE]
           rest == SubSeq(batch, i + 1, Len(batch))
<1>1. i \in 1 .. Len(batch) /\ batch[i] \in Item /\ batch[i].step = n
  BY DEF LastOverwrite
<1> HIDE DEF i
<1>2. first.step = n /\ first \in Item
  BY <1>1 DEF Item
<1>3. rest \in Seq(Item) /\ \A k \in DOMAIN rest : rest[k].step = n
  <2>1. rest = [k \in 1 .. Len(batch) - i |-> batch[i + k]]
    BY <1>1
  <2>2. \A k \in 1 .. Len(batch) - i : i + k \in DOMAIN batch /\ batch[i + k] \in Item
    BY <1>1
  <2> HIDE DEF rest
  <2> QED
    BY <1>1, <2>1, <2>2
<1>4. Aggregate(content, batch) = <<first>> \o rest
  BY DEF Aggregate, Overwritten, i
<1> HIDE DEF first, rest
<1>5. <<first>> \in Seq(Item) /\ Len(<<first>>) = 1
  BY <1>2
<1>6. \A k \in DOMAIN (<<first>> \o rest) :
          (<<first>> \o rest)[k] = IF k = 1 THEN first ELSE rest[k - 1]
  BY <1>3, <1>5
<1>7. DOMAIN (<<first>> \o rest) = 1 .. 1 + Len(rest)
  BY <1>3, <1>5
<1> QED
  BY <1>2, <1>3, <1>4, <1>6, <1>7

\* The merge.
LEMMA MergeMerging ==
    ASSUME TypeInv, MergeInv, Merge
    PROVE  MergeInv'
<1>0. /\ task_results \in Seq(TaskResult) /\ step \in Nat /\ at \in Nat
      /\ \A c \in Chan : channels[c] \in Seq(Item) /\ grouped_updates[c] \in Seq(Item)
      /\ Aggregates \subseteq Chan
  BY DataTypes
<1>1. /\ pc = "collect" /\ pc' \in {"persist", "ended"} /\ at > Len(task_results)
      /\ UNCHANGED <<running, task_results, grouped_updates, step>>
  BY DEF Merge, Collected, Return, loop, results, collected
<1>2. \A c \in Aggregates : channels'[c] = Aggregate(channels[c], grouped_updates[c])
  BY <1>0 DEF Merge, Merged, Aggregates, Update
<1>3. \A c \in Aggregates : Producers(c) = CollectedProducers(c)
  BY <1>0, <1>1 DEF Producers, CollectedProducers
<1>4. ASSUME NEW c \in Aggregates
      PROVE  /\ \A i \in DOMAIN channels'[c] : channels'[c][i].step <= step
             /\ \A i, k \in DOMAIN channels'[c] :
                   i < k => channels'[c][i].step <= channels'[c][k].step
             /\ ~Overwrites(c) =>
                   /\ {channels'[c][i].by : i \in EntriesOf(c)'} = Producers(c)
                   /\ \A i, k \in EntriesOf(c)' :
                         channels'[c][i].by = channels'[c][k].by => i = k
  <2> DEFINE old == channels[c]
             new == channels'[c]
             g == grouped_updates[c]
  <2>1. old \in Seq(Item) /\ g \in Seq(Item) /\ new = Aggregate(old, g)
    BY <1>0, <1>2
  <2>2. /\ \A i \in DOMAIN g : g[i].step = step
        /\ {g[i].by : i \in DOMAIN g} = Producers(c)
        /\ \A i, k \in DOMAIN g : g[i].by = g[k].by => i = k
    BY <1>0, <1>1, <1>3 DEF MergeInv, GroupInv
  <2>3. /\ \A i \in DOMAIN old : old[i].step < step
        /\ \A i, k \in DOMAIN old : i < k => old[i].step <= old[k].step
    BY <1>1 DEF MergeInv, LogInv, LogInStepOrder
  <2>4. EntriesOf(c)' = {i \in DOMAIN new : new[i].step = step}
    BY <1>1 DEF EntriesOf
  <2>5. LastOverwrite(g) # {} => Overwrites(c)
    BY DEF LastOverwrite, Overwrites
  <2> HIDE DEF old, new, g
  <2>6. CASE LastOverwrite(g) = {}
    <3>1. new = old \o g
      BY <2>1, <2>6 DEF Aggregate
    <3> DEFINE m == Len(old)
               n == Len(g)
    <3>2. /\ m \in Nat /\ n \in Nat /\ DOMAIN old = 1 .. m /\ DOMAIN g = 1 .. n
          /\ DOMAIN new = 1 .. m + n
          /\ \A i \in 1 .. m : new[i] = old[i]
          /\ \A i \in m + 1 .. m + n : i - m \in 1 .. n /\ new[i] = g[i - m]
      BY <2>1, <3>1
    <3> HIDE DEF m, n
    <3>3. \A i \in 1 .. m : new[i].step < step
      BY <2>3, <3>2
    <3>4. \A i \in m + 1 .. m + n : new[i].step = step
      BY <2>2, <3>2
    <3>5. \A i \in 1 .. m : new[i].step \in Nat
      <4>1. \A i \in 1 .. m : old[i] \in Item
        BY <2>1, <3>2
      <4> QED
        BY <3>2, <4>1 DEF Item
    <3>6. \A i \in 1 .. m + n : i \in 1 .. m \/ i \in m + 1 .. m + n
      BY <3>2
    <3>7. \A i \in DOMAIN new : new[i].step <= step
      BY <1>0, <3>2, <3>3, <3>4, <3>5, <3>6
    <3>8. \A i, k \in DOMAIN new : i < k => new[i].step <= new[k].step
      <4> SUFFICES ASSUME NEW i \in DOMAIN new, NEW k \in DOMAIN new, i < k
                   PROVE  new[i].step <= new[k].step
        OBVIOUS
      <4>1. CASE k \in 1 .. m
        <5>1. i \in 1 .. m
          BY <3>2, <4>1
        <5> QED
          BY <2>3, <3>2, <4>1, <5>1
      <4>2. CASE k \in m + 1 .. m + n
        BY <3>2, <3>4, <3>7, <4>2
      <4> QED
        BY <3>2, <3>6, <4>1, <4>2
    <3>9. EntriesOf(c)' = m + 1 .. m + n
      <4>1. \A i \in 1 .. m : new[i].step # step
        BY <1>0, <3>3, <3>5
      <4> QED
        BY <2>4, <3>2, <3>4, <3>6, <4>1
    <3>10. {new[i].by : i \in m + 1 .. m + n} = {g[i].by : i \in 1 .. n}
      <4>1. \A i \in 1 .. n : i + m \in m + 1 .. m + n /\ new[i + m] = g[i]
        BY <3>2
      <4> QED
        BY <3>2, <4>1
    <3>11. \A i, k \in m + 1 .. m + n : new[i].by = new[k].by => i = k
      <4> SUFFICES ASSUME NEW i \in m + 1 .. m + n, NEW k \in m + 1 .. m + n,
                          new[i].by = new[k].by
                   PROVE  i = k
        OBVIOUS
      <4>0. /\ i - m \in DOMAIN g /\ new[i] = g[i - m]
            /\ k - m \in DOMAIN g /\ new[k] = g[k - m]
        BY <3>2
      <4>1. i - m = k - m
        BY <2>2, <4>0
      <4> QED
        BY <3>2, <4>1
    <3> QED
      BY <2>2, <3>2, <3>7, <3>8, <3>9, <3>10, <3>11 DEF new
  <2>7. CASE LastOverwrite(g) # {}
    <3>1. \A i \in DOMAIN new : new[i].step = step
      BY <1>0, <2>1, <2>2, <2>7, AggregateOver
    <3> QED
      BY <1>0, <2>5, <2>7, <3>1 DEF new
  <2> QED
    BY <2>6, <2>7
<1>5. LogInv' /\ MergedInv'
  <2>1. /\ Aggregates' = Aggregates
        /\ \A c \in Aggregates : Overwrites(c)' = Overwrites(c) /\ Producers(c)' = Producers(c)
    BY <1>1 DEF Aggregates, Overwrites, Producers
  <2>2. LogInv'
    BY <1>1, <1>4, <2>1 DEF LogInv, LogInStepOrder
  <2>3. MergedInv'
    BY <1>4, <2>1 DEF MergedInv
  <2> QED
    BY <2>2, <2>3
<1> QED
  BY <1>1, <1>5 DEF MergeInv, ResultsInv, GroupInv

LEMMA MergeInductive == Spec => [](TypeInv /\ MergeInv)
<1>1. Init => MergeInv
  BY MergeInit
<1>2. TypeInv /\ MergeInv /\ [Next]_vars => MergeInv'
  BY MergeElsewhere, MergeRunning, MergeCollecting, MergeMerging DEF DataStep
<1>3. Spec => []TypeInv
  BY TypeCorrect, PTL DEF TypeInv
<1> QED
  BY <1>1, <1>2, <1>3, PTL DEF Spec

\* For every graph, every set of outputs and every order in which the tasks
\* complete, the writes of a superstep reach an aggregating channel once each:
\* none is lost and none is doubled between runner and reducer (engine.rs:307).
THEOREM EveryWriteOnce == Spec => []MergeTakesEveryWrite
<1>1. TypeInv /\ MergeInv => MergeTakesEveryWrite
  <2> SUFFICES ASSUME TypeInv, MergedInv, pc = "persist", NEW c \in Aggregates, ~Overwrites(c)
               PROVE  /\ {channels[c][i].by : i \in EntriesOf(c)} = Producers(c)
                      /\ Cardinality(EntriesOf(c)) = Cardinality(Producers(c))
    BY DEF MergeTakesEveryWrite, MergeInv
  <2> DEFINE by == [i \in EntriesOf(c) |-> channels[c][i].by]
  <2>1. /\ {channels[c][i].by : i \in EntriesOf(c)} = Producers(c)
        /\ \A i, k \in EntriesOf(c) : channels[c][i].by = channels[c][k].by => i = k
    BY DEF MergedInv
  <2>2. by \in Bijection(EntriesOf(c), Producers(c))
    <3>1. by \in [EntriesOf(c) -> Producers(c)]
      BY <2>1
    <3>2. \A t \in Producers(c) : \E i \in EntriesOf(c) : by[i] = t
      BY <2>1
    <3>3. \A i, k \in EntriesOf(c) : by[i] = by[k] => i = k
      BY <2>1
    <3> QED
      BY <3>1, <3>2, <3>3, Fun_IsBij
  <2>3. IsFiniteSet(EntriesOf(c))
    <3>1. channels[c] \in Seq(Item)
      BY DataTypes
    <3>2. EntriesOf(c) \in SUBSET (1 .. Len(channels[c])) /\ Len(channels[c]) \in Int
      BY <3>1 DEF EntriesOf
    <3>3. IsFiniteSet(1 .. Len(channels[c]))
      BY <3>2, FS_Interval
    <3> QED
      BY <3>2, <3>3, FS_Subset
  <2>4. ExistsBijection(EntriesOf(c), Producers(c))
    BY <2>2 DEF ExistsBijection
  <2> QED
    BY <2>1, <2>3, <2>4, FS_Bijection
<1> QED
  BY <1>1, MergeInductive, PTL

\* Whatever the graph writes and overwrites, an aggregating channel never has
\* an entry of a later superstep before one of an earlier superstep.
THEOREM LogOrder == Spec => []LogInStepOrder
<1>1. MergeInv => LogInStepOrder
  BY DEF MergeInv, LogInv
<1> QED
  BY <1>1, MergeInductive, PTL

-----------------------------------------------------------------------------
(* Versions and announcements under Durability::Sync.                      *)

\* The merge is the one moment at which the channels leave the newest
\* checkpoint behind, and it raises the version of what it changes.
VersionInv ==
    /\ pc = "collect" => Latest.vals = Snapshot(channels) /\ Latest.versions = channel_versions
    /\ pc = "persist" => \A c \in Chan :
          Latest.vals[c] # Snapshot(channels)[c] => channel_versions[c] > Latest.versions[c]
    /\ \A i \in DOMAIN store \ {1} : \A c \in Chan :
          store[i].vals[c] # store[i - 1].vals[c]
              => store[i].versions[c] > store[i - 1].versions[c]
    /\ announced \subseteq 1 .. Len(store)

\* Of a Sync call, only PersistSync stores and announces.
LEMMA SyncStoreKept ==
    ASSUME SavesEachStep, ChainInv, [Next]_vars, ~PersistSync
    PROVE  store' = store /\ announced' = announced
<1>1. durability = "Sync" /\ inflight = {}
  BY DEF SavesEachStep, ChainInv
<1>2. ~PersistAsync /\ ~PersistExit /\ ~Background
  BY <1>1 DEF PersistAsync, PersistExit, Background
<1>3. CASE Finish
  BY <1>1, <1>3 DEF Finish
<1>4. CASE UNCHANGED <<store, announced>>
  BY <1>4
<1>5. ~Finish => UNCHANGED <<store, announced>>
  BY <1>2 DEF Next, Call, Engine, RecursionLimit, FinishFails, Cancelled, StopBefore, StartTasks,
       NodeNotFound, TasksJoined, CollectParent, CollectUpdate, Merge, MergeFails, PersistFails,
       StopAfter, BeginRouting, RouteGoto, RouteJoin, RouteEdge, RouteUnreachable, NextSuperstep,
       RunTask, TaskDone, TaskInterrupted, TaskFailed, Cancel, Terminated, vars, saver
<1> QED
  BY <1>3, <1>5

\* An empty batch changes nothing.
LEMMA EmptyUpdate ==
    ASSUME NEW kind, NEW content \in Seq(Item)
    PROVE  Update(kind, content, <<>>) = content
<1>1. LastOverwrite(<<>>) = {}
  BY DEF LastOverwrite
<1>2. content \o <<>> = content
  BY ConcatEmptySeq
<1> QED
  BY <1>1, <1>2 DEF Update, Aggregate, Replace

\* The merge raises the version of every channel whose saved value it changes.
LEMMA VersionMerge ==
    ASSUME TypeInv, SavesEachStep, ChainInv, VersionInv, Merge
    PROVE  VersionInv'
<1>1. /\ pc = "collect" /\ pc' # "collect" /\ UNCHANGED <<store, announced>>
      /\ channels' = [c \in Chan |-> Update(Kind[c], channels[c], grouped_updates[c])]
      /\ channel_versions' = [c \in Chan |-> channel_versions[c] + IF c \in Written THEN 1 ELSE 0]
  BY DEF Merge, Merged, Collected, Return, saver
<1>2. /\ channels \in [Chan -> Seq(Item)] /\ channel_versions \in [Chan -> Nat]
  BY DEF TypeInv, TypeOK, StateType
<1>3. Latest' = Latest /\ Latest.vals = Snapshot(channels) /\ Latest.versions = channel_versions
  BY <1>1 DEF Latest, VersionInv
<1>4. ASSUME NEW c \in Chan, Latest.vals[c] # Snapshot(channels')[c]
      PROVE  channel_versions'[c] > Latest.versions[c]
  <2>1. channels'[c] # channels[c]
    BY <1>3, <1>4 DEF Snapshot
  <2>2. grouped_updates[c] # <<>>
    BY <1>1, <1>2, <2>1, EmptyUpdate
  <2>3. channel_versions'[c] = channel_versions[c] + 1
    BY <1>1, <2>2, GraphAssumption DEF Written
  <2> QED
    BY <1>2, <1>3, <2>3
<1>5. Snapshot(channels)' = Snapshot(channels')
  BY DEF Snapshot
<1> QED
  BY <1>1, <1>3, <1>4, <1>5 DEF VersionInv

\* The new checkpoint has what the merge left.
LEMMA VersionPersist ==
    ASSUME TypeInv, SavesEachStep, ChainInv, VersionInv, PersistSync
    PROVE  VersionInv'
<1> DEFINE c == NewCheckpoint(uuids', last_ckpt_id, "Loop", step, channels, Written)
           n == Len(store)
<1>1. store \in Seq(CheckpointType) /\ n \in Nat /\ DOMAIN store = 1 .. n /\ n > 0
  BY DEF TypeInv, TypeOK, SaverType, ChainInv
<1>2. /\ pc = "persist" /\ pc' = "after" /\ store' = Append(store, c)
      /\ last_ckpt_id' = n + 1 /\ announced' \subseteq announced \cup {n + 1}
  BY DEF PersistSync, SaveCheckpoint, SavesEachStep, ChainInv, Announce
<1>3. c.vals = Snapshot(channels) /\ c.versions = channel_versions
  BY DEF NewCheckpoint
<1> HIDE DEF c
<1>4. /\ Len(store') = n + 1 /\ DOMAIN store' = 1 .. n + 1 /\ store'[n + 1] = c
      /\ \A i \in 1 .. n : store'[i] = store[i]
  BY <1>1, <1>2
<1>5. ASSUME NEW i \in 2 .. n + 1, NEW d \in Chan, store'[i].vals[d] # store'[i - 1].vals[d]
      PROVE  store'[i].versions[d] > store'[i - 1].versions[d]
  <2>1. CASE i = n + 1
    <3>1. store'[i] = c /\ store'[i - 1] = Latest
      BY <1>1, <1>4, <2>1 DEF Latest
    <3> QED
      BY <1>2, <1>3, <1>5, <3>1 DEF VersionInv
  <2>2. CASE i # n + 1
    <3>1. i \in 1 .. n /\ i # 1 /\ i - 1 \in 1 .. n
      BY <1>1, <2>2
    <3>2. store'[i] = store[i] /\ store'[i - 1] = store[i - 1] /\ i \in DOMAIN store \ {1}
      BY <1>1, <1>4, <3>1
    <3> QED
      BY <1>5, <3>2 DEF VersionInv
  <2> QED
    BY <2>1, <2>2
<1>6. announced' \subseteq 1 .. n + 1
  BY <1>1, <1>2 DEF VersionInv
<1>7. \A i \in DOMAIN store' \ {1} : i \in 2 .. n + 1
  BY <1>1, <1>4
<1> QED
  BY <1>2, <1>4, <1>5, <1>6, <1>7 DEF VersionInv

\* The other steps move neither the channels nor the store between a merge
\* and the save that follows.
LEMMA VersionKept ==
    ASSUME TypeInv, SavesEachStep, ChainInv, StateInv, VersionInv, [Next]_vars,
           ~PersistSync, ~Merge
    PROVE  VersionInv'
<1>1. store' = store /\ announced' = announced /\ Latest' = Latest
  BY SyncStoreKept DEF Latest
<1>2. CASE ~DataStep
  <2>1. UNCHANGED <<channels, channel_versions>> /\ pc' \in {pc, "ended", "after", "route"}
    BY <1>2, Elsewhere
  <2> QED
    BY <1>1, <2>1 DEF VersionInv, Snapshot
<1>3. CASE TasksJoined \/ CollectParent \/ CollectUpdate
  <2>1. pc \in {"run", "collect"} /\ pc' = "collect" /\ UNCHANGED <<channels, channel_versions>>
    BY <1>3 DEF TasksJoined, CollectParent, CollectUpdate, state
  <2> QED
    BY <1>1, <2>1 DEF VersionInv, StateInv, Snapshot
<1>4. CASE Call \/ StartTasks \/ NextSuperstep \/ \E i \in running : TaskDone(i)
  <2>1. pc' \in {"top", "run"}
    BY <1>4 DEF Call, Execute, StartTasks, NextSuperstep, TaskDone
  <2> QED
    BY <1>1, <2>1 DEF VersionInv
<1> QED
  BY <1>2, <1>3, <1>4 DEF DataStep

LEMMA VersionInductive == Spec => [](TypeInv /\ (SavesEachStep => ChainInv /\ VersionInv))
<1> DEFINE Inv == SavesEachStep => VersionInv
<1>1. Init => Inv
  <2> SUFFICES ASSUME Init, SavesEachStep PROVE VersionInv
    OBVIOUS
  <2>1. pc = "idle" /\ announced = {} /\ \E c : store = <<c>>
    BY DEF Init, Idle, SavesEachStep
  <2> QED
    BY <2>1 DEF VersionInv
<1>2. TypeInv /\ SyncInv /\ Inv /\ [Next]_vars => Inv'
  <2> SUFFICES ASSUME TypeInv, SyncInv, Inv, [Next]_vars, SavesEachStep' PROVE VersionInv'
    OBVIOUS
  <2>1. SavesEachStep
    BY DurabilityKept DEF SavesEachStep
  <2> QED
    BY <2>1, VersionMerge, VersionPersist, VersionKept DEF SyncInv
<1>3. TypeInv /\ SyncInv /\ Inv => (SavesEachStep => ChainInv /\ VersionInv)
  BY DEF SyncInv
<1> QED
  BY <1>1, <1>2, <1>3, SyncInductive, PTL DEF Spec

\* In the checkpoints of a Sync call a value that changed carries a greater
\* version, for every graph and kind of channel (channel_ops.rs, apply_grouped_updates).
THEOREM VersionsTell == Spec => []ChangeRaisesVersion
<1>1. (SavesEachStep => ChainInv /\ VersionInv) => ChangeRaisesVersion
  BY DEF ChangeRaisesVersion, VersionInv
<1> QED
  BY <1>1, VersionInductive, PTL

\* Every checkpoint a Sync call announces can be loaded, whatever fails.
THEOREM AnnouncedStored == Spec => []AnnouncedIsStored
<1>1. TypeInv /\ (SavesEachStep => ChainInv /\ VersionInv) => AnnouncedIsStored
  <2> SUFFICES ASSUME TypeInv, SavesEachStep, ChainInv, VersionInv, NEW id \in announced
               PROVE  id \in Stored
    BY DEF AnnouncedIsStored
  <2>1. DOMAIN store = 1 .. Len(store)
    BY DEF TypeInv, TypeOK, SaverType
  <2>2. id \in DOMAIN store /\ store[id].id = id
    BY <2>1 DEF VersionInv, ChainInv
  <2> QED
    BY <2>2 DEF Stored
<1> QED
  BY <1>1, VersionInductive, PTL

-----------------------------------------------------------------------------
(* What a finished call leaves behind.                                     *)

EndInv ==
    /\ outcome.why = "finished" => pc = "ended"
    /\ durability = "Exit" => inflight = {}
    /\ FinishedIsDurable

\* Nothing but a background save happens after the end of a call.
LEMMA EndedSteps ==
    ASSUME [Next]_vars, pc = "ended"
    PROVE  Background \/ UNCHANGED vars
BY DEF Next, Call, Engine, RecursionLimit, Finish, FinishFails, Cancelled, StopBefore, InLoop,
       ReadyToRun, StartTasks, NodeNotFound, TasksJoined, CollectParent, CollectUpdate, Merge,
       MergeFails, Collected, PersistSync, PersistFails, PersistAsync, PersistExit, StopAfter,
       BeginRouting, RouteGoto, RouteJoin, RouteEdge, RouteUnreachable, NoJoin, Routing,
       NextSuperstep, RunTask, TaskDone, TaskInterrupted, TaskFailed, Cancel, Terminated

\* A call finishes only by Finish.
LEMMA OnlyFinish ==
    ASSUME [Next]_vars, ~Finish, outcome.why # "finished"
    PROVE  outcome'.why # "finished"
<1>1. ASSUME \/ RecursionLimit \/ FinishFails \/ Cancelled \/ StopBefore \/ NodeNotFound
             \/ MergeFails \/ PersistFails \/ StopAfter \/ RouteUnreachable
             \/ \E i \in running : TaskInterrupted(i) \/ TaskFailed(i)
      PROVE  outcome'.why # "finished"
  <2>1. ASSUME NEW kind, NEW why, NEW node, NEW ckpt, why # "finished",
               Return(kind, why, node, ckpt)
        PROVE  outcome'.why # "finished"
    BY <2>1 DEF Return
  <2>2. CASE \/ RecursionLimit \/ FinishFails \/ Cancelled \/ NodeNotFound
             \/ MergeFails \/ PersistFails \/ RouteUnreachable
    BY <2>1, <2>2 DEF RecursionLimit, FinishFails, Cancelled, NodeNotFound,
                      MergeFails, PersistFails, RouteUnreachable
  <2>3. CASE StopBefore
    BY <2>1, <2>3 DEF StopBefore
  <2>4. CASE StopAfter
    BY <2>1, <2>4 DEF StopAfter
  <2>5. ASSUME NEW i \in running, TaskInterrupted(i)
        PROVE  outcome'.why # "finished"
    BY <2>1, <2>5 DEF TaskInterrupted
  <2>6. ASSUME NEW i \in running, TaskFailed(i)
        PROVE  outcome'.why # "finished"
    BY <2>1, <2>6 DEF TaskFailed
  <2> QED
    BY <1>1, <2>2, <2>3, <2>4, <2>5, <2>6
<1>2. CASE Merge \/ Call
  BY <1>2 DEF Merge, Return, Call, Execute, NoOutcome
<1>3. CASE outcome' = outcome
  BY <1>3
<1>4. outcome' = outcome \/ Merge \/ Call
      \/ \/ RecursionLimit \/ FinishFails \/ Cancelled \/ StopBefore \/ NodeNotFound
         \/ MergeFails \/ PersistFails \/ StopAfter \/ RouteUnreachable
         \/ \E i \in running : TaskInterrupted(i) \/ TaskFailed(i)
  BY DEF Next, Engine, StartTasks, TasksJoined, CollectParent, CollectUpdate, PersistSync,
         PersistAsync, PersistExit, BeginRouting, RouteGoto, RouteJoin, RouteEdge, NextSuperstep,
         RunTask, TaskDone, Background, DeliverPut, Cancel, Terminated, vars
<1> QED
  BY <1>1, <1>2, <1>3, <1>4

\* No save is left to a spawned task but by Durability::Async.
LEMMA InflightIsAsync ==
    ASSUME [Next]_vars, durability = "Exit", inflight = {}
    PROVE  inflight' = {}
BY DEF Next, Call, Engine, RecursionLimit, Finish, FinishFails, Cancelled, StopBefore, StartTasks,
       NodeNotFound, TasksJoined, CollectParent, CollectUpdate, Merge, MergeFails, PersistSync,
       PersistFails, PersistAsync, PersistExit, StopAfter, BeginRouting, RouteGoto, RouteJoin,
       RouteEdge, RouteUnreachable, NextSuperstep, RunTask, TaskDone, TaskInterrupted,
       TaskFailed, Background, Cancel, Terminated, vars, saver

\* Finish leaves the final state under the id it returns: saved by the last
\* superstep (Sync) or now (Exit).
LEMMA FinishSaves ==
    ASSUME TypeInv, SyncInv, Finish, HasSaver, durability # "Async"
    PROVE  Latest'.id = outcome'.ckpt /\ Latest'.vals = Snapshot(channels)'
<1>1. /\ pc = "top" /\ outcome'.ckpt = last_ckpt_id' /\ UNCHANGED channels
  BY DEF Finish, InLoop, Return, state
<1>2. Snapshot(channels)' = Snapshot(channels)
  BY <1>1 DEF Snapshot
<1>3. CASE durability = "Exit"
  <2> DEFINE c == NewCheckpoint(uuids', last_ckpt_id, "Loop", step, channels,
                                {d \in Chan : channels[d] # <<>>})
  <2>1. last_ckpt_id' = uuids' /\ store' = Append(store, c)
    BY <1>3 DEF Finish, SaveCheckpoint
  <2>2. c.id = uuids' /\ c.vals = Snapshot(channels)
    BY DEF NewCheckpoint
  <2>3. store \in Seq(CheckpointType)
    BY DEF TypeInv, TypeOK, SaverType
  <2> HIDE DEF c
  <2>4. Latest' = c
    BY <2>1, <2>3 DEF Latest
  <2> QED
    BY <1>1, <1>2, <2>1, <2>2, <2>4
<1>4. CASE durability = "Sync"
  <2>1. SavesEachStep /\ ChainInv /\ StateInv
    BY <1>4 DEF SavesEachStep, SyncInv
  <2>2. store' = store /\ last_ckpt_id' = last_ckpt_id
    BY <1>4 DEF Finish
  <2>3. store \in Seq(CheckpointType) /\ Len(store) > 0
    BY <2>1 DEF ChainInv, TypeInv, TypeOK, SaverType
  <2>4. Latest' = Latest /\ Latest.id = last_ckpt_id /\ Latest.vals = Snapshot(channels)
    BY <1>1, <2>1, <2>2, <2>3 DEF Latest, ChainInv, StateInv
  <2> QED
    BY <1>1, <1>2, <2>2, <2>4
<1> QED
  BY <1>3, <1>4 DEF TypeInv, TypeOK, LoopType, Durability

\* A call that finished has left its final state in the newest checkpoint,
\* under the id it returns, whatever it ran and whatever failed on the way.
THEOREM FinishedDurable == Spec => []FinishedIsDurable
<1>1. Init => EndInv
  BY DEF Init, Idle, NoOutcome, EndInv, FinishedIsDurable
<1>2. TypeInv /\ SyncInv /\ EndInv /\ [Next]_vars => EndInv'
  <2> SUFFICES ASSUME TypeInv, SyncInv, EndInv, [Next]_vars PROVE EndInv'
    OBVIOUS
  <2>1. durability' = durability
    BY DurabilityKept
  <2>2. durability' = "Exit" => inflight' = {}
    BY <2>1, InflightIsAsync DEF EndInv
  <2>3. CASE Finish
    <3>1. pc' = "ended"
      BY <2>3 DEF Finish, Return
    <3> QED
      BY <2>1, <2>2, <2>3, <3>1, FinishSaves DEF EndInv, FinishedIsDurable
  <2>4. CASE ~Finish /\ pc = "ended"
    <3>1. HasSaver /\ durability # "Async" => inflight = {}
      BY DEF EndInv, SyncInv, SavesEachStep, ChainInv, TypeInv, TypeOK, LoopType, Durability
    <3>2. pc' = pc /\ outcome' = outcome /\ channels' = channels
      BY <2>4, EndedSteps DEF Background, DeliverPut, vars, locals, state
    <3>3. HasSaver /\ durability # "Async" => store' = store
      BY <2>4, <3>1, EndedSteps DEF Background, vars, saver
    <3> QED
      BY <2>1, <2>2, <2>4, <3>2, <3>3 DEF EndInv, FinishedIsDurable, Latest, Snapshot
  <2>5. CASE ~Finish /\ pc # "ended"
    <3>1. outcome'.why # "finished"
      BY <2>5, OnlyFinish DEF EndInv
    <3> QED
      BY <2>2, <3>1 DEF EndInv, FinishedIsDurable
  <2> QED
    BY <2>3, <2>4, <2>5
<1>3. EndInv => FinishedIsDurable
  BY DEF EndInv
<1> QED
  BY <1>1, <1>2, <1>3, SyncInductive, PTL DEF Spec


-----------------------------------------------------------------------------
(* Joins at a superstep boundary.                                          *)

\* The graphs of which JoinNeverStuck speaks: no source completes twice before
\* the others have completed once, and no superstep runs a node twice.
OncePerRound ==
    /\ \A j \in Join : \A s \in Joins[j].sources : arrivals[j][s] <= fires[j] + 1
    /\ \A i, k \in DOMAIN task_outputs : task_outputs[i].node = task_outputs[k].node => i = k

Awaited(j) == Joins[j].sources \ seen[j]

\* Every barrier awaits a source; the one that completed a round is awaited
\* again, and cannot come back before the superstep is over.
RoundInv ==
    \A j \in Join :
        /\ Awaited(j) # {}
        /\ \A s \in Awaited(j) : arrivals[j][s] = fires[j]
        /\ pc = "route" /\ j \in satisfied_joins =>
              \E k \in DOMAIN task_outputs : k < at /\ task_outputs[k].node \in Awaited(j)

\* Marking the barriers of one source.
LEMMA RoundJoin ==
    ASSUME TypeInv, JoinInv, RoundInv, OncePerRound, OncePerRound', RouteJoin
    PROVE  RoundInv'
<1>1. PICK n \in Node :
        LET fired == {j \in JoinsOf(n) : Full(j, n)} \ satisfied_joins
        IN  /\ Routing(n)
            /\ seen' = [j \in Join |-> Marked(j, n, fired)]
            /\ satisfied_joins' = satisfied_joins \cup fired
            /\ arrivals' = [j \in Join |-> IF j \in JoinsOf(n)
                                          THEN [arrivals[j] EXCEPT ![n] = @ + 1]
                                          ELSE arrivals[j]]
            /\ fires' = [j \in Join |-> IF j \in fired THEN fires[j] + 1 ELSE fires[j]]
            /\ UNCHANGED <<pc, collected>>
  BY DEF RouteJoin
<1> DEFINE fired == {j \in JoinsOf(n) : Full(j, n)} \ satisfied_joins
<1>2. /\ pc = "route" /\ at \in DOMAIN task_outputs /\ task_outputs[at].node = n
      /\ at \in Nat /\ at' = at + 1 /\ task_outputs' = task_outputs
      /\ DOMAIN task_outputs \subseteq Nat
  BY <1>1 DEF Routing, collected, TypeInv, TypeOK, LoopType, ResultType
<1> SUFFICES ASSUME NEW j \in Join
             PROVE  /\ Awaited(j)' # {}
                    /\ \A s \in Awaited(j)' : arrivals'[j][s] = fires'[j]
                    /\ j \in satisfied_joins' =>
                          \E k \in DOMAIN task_outputs : k < at' /\ task_outputs[k].node \in Awaited(j)'
  BY <1>2 DEF RoundInv
<1>3. /\ fires[j] \in Nat /\ arrivals[j] \in [Node -> Nat]
      /\ Joins[j].sources \subseteq Node /\ Joins[j].sources # {}
      /\ seen[j] \subseteq Joins[j].sources
      /\ Awaited(j)' = Joins[j].sources \ seen'[j]
  BY JoinsTyped DEF TypeInv, TypeOK, RoutingType, JoinInv, Awaited
<1>4. CASE j \notin JoinsOf(n)
  <2>1. /\ seen'[j] = seen[j] /\ arrivals'[j] = arrivals[j] /\ fires'[j] = fires[j]
        /\ j \in satisfied_joins' => j \in satisfied_joins
    BY <1>1, <1>4 DEF Marked
  <2> QED
    BY <1>2, <1>3, <2>1 DEF RoundInv, Awaited
<1>5. CASE j \in fired
  <2>1. /\ n \in Joins[j].sources /\ seen[j] \cup {n} = Joins[j].sources
        /\ seen'[j] = {} /\ fires'[j] = fires[j] + 1
        /\ arrivals'[j] = [arrivals[j] EXCEPT ![n] = @ + 1]
    BY <1>1, <1>5 DEF Marked, Full, JoinsOf
  <2>2. n \notin seen[j] /\ arrivals[j][n] = fires[j]
    BY <2>1 DEF RoundInv, Awaited
  <2>3. ASSUME NEW s \in Joins[j].sources
        PROVE  arrivals'[j][s] = fires[j] + 1
    <3>1. CASE s = n
      BY <1>3, <2>1, <2>2, <3>1
    <3>2. CASE s # n
      <4>1. s \in seen[j] /\ s \in Node /\ arrivals'[j][s] = arrivals[j][s]
        BY <1>3, <2>1, <3>2
      <4>2. fires[j] + 1 <= arrivals[j][s] /\ arrivals[j][s] <= fires[j] + 1
        BY <4>1 DEF JoinInv, OncePerRound
      <4> QED
        BY <1>3, <4>1, <4>2
    <3> QED
      BY <3>1, <3>2
  <2>4. at < at' /\ task_outputs[at].node \in Awaited(j)'
    BY <1>2, <1>3, <2>1
  <2> QED
    BY <1>2, <1>3, <2>1, <2>3, <2>4
<1>6. CASE j \in JoinsOf(n) /\ j \notin fired
  <2>1. /\ n \in Joins[j].sources /\ n \in Node
        /\ seen'[j] = seen[j] \cup {n} /\ fires'[j] = fires[j]
        /\ arrivals'[j] = [arrivals[j] EXCEPT ![n] = @ + 1]
        /\ j \in satisfied_joins' => j \in satisfied_joins
    BY <1>1, <1>6 DEF Marked, JoinsOf
  <2>2. n \notin seen[j]
    <3> SUFFICES ASSUME n \in seen[j] PROVE FALSE
      OBVIOUS
    <3>1. fires[j] + 1 <= arrivals[j][n]
      BY <2>1 DEF JoinInv
    <3>2. arrivals'[j][n] = arrivals[j][n] + 1
      BY <1>3, <2>1
    <3>3. arrivals'[j][n] <= fires'[j] + 1
      BY <2>1 DEF OncePerRound
    <3> QED
      BY <1>3, <2>1, <3>1, <3>2, <3>3
  <2>3. j \in satisfied_joins =>
          \E k \in DOMAIN task_outputs : k < at /\ task_outputs[k].node \in Awaited(j) \ {n}
    <3> SUFFICES ASSUME j \in satisfied_joins
                 PROVE  \E k \in DOMAIN task_outputs :
                            k < at /\ task_outputs[k].node \in Awaited(j) \ {n}
      OBVIOUS
    <3>1. PICK k \in DOMAIN task_outputs : k < at /\ task_outputs[k].node \in Awaited(j)
      BY <1>2 DEF RoundInv
    <3>2. task_outputs[k].node # n
      BY <1>2, <3>1 DEF OncePerRound
    <3> QED
      BY <3>1, <3>2
  <2>4. Awaited(j)' = Awaited(j) \ {n}
    BY <1>3, <2>1 DEF Awaited
  <2>5. Awaited(j) \ {n} # {}
    <3>1. CASE j \in satisfied_joins
      BY <2>3, <3>1
    <3>2. CASE j \notin satisfied_joins
      <4>1. seen[j] \cup {n} # Joins[j].sources
        BY <1>6, <3>2 DEF Full
      <4> QED
        BY <1>3, <2>1, <4>1 DEF Awaited
    <3> QED
      BY <3>1, <3>2
  <2>6. ASSUME NEW s \in Awaited(j) \ {n}
        PROVE  arrivals'[j][s] = fires'[j]
    <3>1. s \in Node /\ arrivals[j][s] = fires[j]
      BY <1>3 DEF RoundInv, Awaited
    <3> QED
      BY <1>3, <2>1, <3>1
  <2>7. j \in satisfied_joins' =>
          \E k \in DOMAIN task_outputs : k < at' /\ task_outputs[k].node \in Awaited(j)'
    BY <1>2, <2>1, <2>3, <2>4
  <2> QED
    BY <2>4, <2>5, <2>6, <2>7
<1> QED
  BY <1>4, <1>5, <1>6

\* The steps that mark no barrier.
LEMMA RoundKept ==
    ASSUME TypeInv, RoundInv, [Next]_vars, ~RouteJoin, ~Call
    PROVE  RoundInv'
<1>1. UNCHANGED barriers
  BY DEF Next, Engine, RunTask, Background, Terminated, RecursionLimit, Finish,
         FinishFails, Cancelled, StopBefore, StartTasks, NodeNotFound, TaskDone,
         TaskInterrupted, TaskFailed, TasksJoined, CollectParent, CollectUpdate, Merge,
         MergeFails, PersistSync, PersistFails, PersistAsync, PersistExit, DeliverPut,
         StopAfter, BeginRouting, RouteGoto, RouteEdge, RouteUnreachable, NextSuperstep,
         Cancel, vars, locals, routed
<1>2. pc' = "route" => \/ BeginRouting
                       \/ /\ pc = "route" /\ task_outputs' = task_outputs
                          /\ satisfied_joins' = satisfied_joins /\ at' \in {at, at + 1}
  BY DEF Next, Engine, RunTask, Background, Terminated, RecursionLimit, Finish,
         FinishFails, Cancelled, StopBefore, StartTasks, NodeNotFound, TaskDone,
         TaskInterrupted, TaskFailed, TasksJoined, CollectParent, CollectUpdate, Merge,
         MergeFails, PersistSync, PersistFails, PersistAsync, PersistExit, DeliverPut,
         StopAfter, RouteGoto, RouteEdge, RouteUnreachable, NextSuperstep, Return,
         Routing, NoJoin, Cancel, vars, locals, routed, collected
<1>3. BeginRouting => satisfied_joins' = {}
  BY DEF BeginRouting
<1>4. at \in Nat /\ DOMAIN task_outputs \subseteq Nat
  BY DEF TypeInv, TypeOK, LoopType, ResultType
<1>5. \A j : Awaited(j)' = Awaited(j)
  BY <1>1 DEF Awaited, barriers
<1> SUFFICES ASSUME NEW j \in Join, pc' = "route", j \in satisfied_joins'
             PROVE  \E k \in DOMAIN task_outputs' :
                        k < at' /\ task_outputs'[k].node \in Awaited(j)
  BY <1>1, <1>5 DEF RoundInv, barriers
<1>6. PICK k \in DOMAIN task_outputs : k < at /\ task_outputs[k].node \in Awaited(j)
  BY <1>2, <1>3 DEF RoundInv
<1> QED
  BY <1>2, <1>3, <1>4, <1>6

\* A call begins with empty barriers.
LEMMA RoundCall ==
    ASSUME Call
    PROVE  RoundInv'
<1>1. /\ pc' = "top" /\ seen' = [j \in Join |-> {}] /\ fires' = [j \in Join |-> 0]
      /\ arrivals' = [j \in Join |-> [n \in Node |-> 0]]
  BY DEF Call, Execute
<1> SUFFICES ASSUME NEW j \in Join
             PROVE  Awaited(j)' # {} /\ \A s \in Awaited(j)' : arrivals'[j][s] = fires'[j]
  BY <1>1 DEF RoundInv
<1> QED
  BY <1>1, JoinsTyped DEF Awaited

\* In a graph that runs each source once a round, no join is left complete at
\* the end of a superstep without its target having been scheduled, for every
\* graph and every order of completions (engine.rs:600, barrier.rs).
THEOREM JoinProgress == Spec /\ []OncePerRound => []JoinNeverStuck
<1>1. Init => RoundInv
  <2> SUFFICES ASSUME Init, NEW j \in Join
               PROVE  Awaited(j) # {} /\ \A s \in Awaited(j) : arrivals[j][s] = fires[j]
    BY DEF RoundInv, Init, Idle
  <2> QED
    BY JoinsTyped DEF Init, Idle, Awaited
<1>2. TypeInv /\ JoinInv /\ RoundInv /\ OncePerRound /\ OncePerRound' /\ [Next]_vars => RoundInv'
  BY RoundJoin, RoundKept, RoundCall
<1>3. RoundInv => JoinNeverStuck
  BY DEF RoundInv, JoinNeverStuck, Awaited
<1> QED
  BY <1>1, <1>2, <1>3, JoinInductive, PTL DEF Spec
=============================================================================
