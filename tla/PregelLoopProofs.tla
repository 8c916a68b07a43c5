-------------------------- MODULE PregelLoopProofs --------------------------
(***************************************************************************)
(* Proofs about PregelLoop for every graph, every output of its nodes and  *)
(* every superstep limit.                                                  *)
(***************************************************************************)
EXTENDS PregelLoop, FiniteSetTheorems, SequenceTheorems, TLAPS

-----------------------------------------------------------------------------
(* Sequences and channels.                                                 *)

\* The suffix that starts with a batch's last overwrite is a sequence of items.
LEMMA OverwrittenType ==
    ASSUME NEW s \in Seq(Item), LastOverwrite(s) # {}
    PROVE  Overwritten(s) \in Seq(Item)
<1> DEFINE i == CHOOSE i \in LastOverwrite(s) : TRUE
<1>1. i \in 1 .. Len(s) /\ s[i] \in Item
  BY DEF LastOverwrite
<1> HIDE DEF i
<1>2. [s[i] EXCEPT !.over = FALSE] \in Item
  BY <1>1 DEF Item
<1>3. SubSeq(s, i + 1, Len(s)) \in Seq(Item)
  <2>1. \A k \in i + 1 .. Len(s) : s[k] \in Item
    BY <1>1
  <2> QED
    BY <1>1, <2>1, SubSeqProperties
<1>4. <<[s[i] EXCEPT !.over = FALSE]>> \o SubSeq(s, i + 1, Len(s)) \in Seq(Item)
  BY <1>2, <1>3, ConcatProperties
<1> QED
  BY <1>4 DEF Overwritten, i

\* An update turns a sequence of items into a sequence of items.
LEMMA UpdateType ==
    ASSUME NEW kind, NEW content \in Seq(Item), NEW batch \in Seq(Item)
    PROVE  Update(kind, content, batch) \in Seq(Item)
<1>1. content \o batch \in Seq(Item)
  BY ConcatProperties
<1>2. Aggregate(content, batch) \in Seq(Item)
  BY <1>1, OverwrittenType DEF Aggregate
<1>3. Replace(content, batch) \in Seq(Item)
  <2>1. CASE batch = <<>>
    BY <2>1 DEF Replace
  <2>2. CASE batch # <<>>
    <3>1. batch[Len(batch)] \in Item
      BY <2>2, EmptySeq
    <3> QED
      BY <2>2, <3>1 DEF Replace
  <2> QED
    BY <2>1, <2>2
<1> QED
  BY <1>1, <1>2, <1>3 DEF Update

-----------------------------------------------------------------------------
(* Type correctness.                                                       *)

\* What an action leaves alone keeps its type.
LEMMA Frame ==
    /\ ResultType /\ UNCHANGED <<results, collected>> => ResultType'
    /\ RoutingType /\ UNCHANGED routed => RoutingType'
    /\ StateType /\ UNCHANGED state => StateType'
    /\ SaverType /\ UNCHANGED <<last_ckpt_id, saver>> => SaverType'
<1>1. ResultType /\ UNCHANGED <<results, collected>> => ResultType'
  BY DEF ResultType, results, collected
<1>2. RoutingType /\ UNCHANGED routed => RoutingType'
  BY DEF RoutingType, routed, barriers
<1>3. StateType /\ UNCHANGED state => StateType'
  BY DEF StateType, state
<1>4. SaverType /\ UNCHANGED <<last_ckpt_id, saver>> => SaverType'
  BY DEF SaverType, saver
<1> QED
  BY <1>1, <1>2, <1>3, <1>4

\* A well-typed result makes a well-typed outcome.
LEMMA ReturnTyped ==
    ASSUME NEW kind \in {"Done", "Interrupted", "Err"}, NEW why \in Reason,
           NEW node \in SUBSET Name, NEW ckpt \in Nat,
           Return(kind, why, node, ckpt)
    PROVE  pc' = "ended" /\ outcome' \in Outcome
BY DEF Return, Outcome, Reason

\* The joins are a finite sequence of well-typed edges.
LEMMA JoinsTyped ==
    /\ IsFiniteSet(Join)
    /\ \A j \in Join : /\ Joins[j].sources \subseteq Node /\ Joins[j].sources # {}
                       /\ Joins[j].target \in Name
<1>1. Joins \in Seq(JoinEdge)
  BY GraphAssumption
<1>2. Join = 1 .. Len(Joins) /\ Len(Joins) \in Nat
  BY <1>1 DEF Join
<1>3. \A j \in Join : Joins[j] \in JoinEdge
  BY <1>1, <1>2, ElementOfSeq
<1>4. IsFiniteSet(1 .. Len(Joins))
  <2>1. 1 \in Int /\ Len(Joins) \in Int
    BY <1>2
  <2> QED
    BY <2>1, FS_Interval
<1> QED
  BY <1>2, <1>3, <1>4 DEF JoinEdge

\* Returning with every local and the saver untouched preserves the types.
LEMMA ReturnKeepsTypes ==
    ASSUME TypeOK, UNCHANGED <<locals, saver>>,
           pc' = "ended", outcome' \in Outcome
    PROVE  TypeOK'
<1>1. UNCHANGED <<loop, at, cancel, last_ckpt_id, results, collected, routed, state, saver>>
  BY DEF locals
<1>2. LoopType'
  BY <1>1 DEF TypeOK, LoopType, loop
<1> QED
  BY <1>1, <1>2, Frame DEF TypeOK

\* The checkpoint a save builds is well typed.
LEMMA NewCheckpointType ==
    ASSUME StateType, NEW id \in Nat, NEW parent \in Nat,
           NEW source \in {"Input", "Loop", "Resume", "Update"}, NEW n \in Nat,
           NEW chans \in [Chan -> Seq(Item)], NEW writes \in SUBSET Key
    PROVE  NewCheckpoint(id, parent, source, n, chans, writes) \in CheckpointType
<1>1. Snapshot(chans) \in [Chan -> Seq(Item)]
  BY DEF Snapshot, Checkpointed
<1> QED
  BY <1>1 DEF NewCheckpoint, CheckpointType, StateType

\* save_checkpoint yields an id and extends the store.
LEMMA SaveTyped ==
    ASSUME TypeOK, NEW source \in {"Input", "Loop", "Resume", "Update"},
           NEW n \in Nat, NEW writes \in SUBSET Key,
           SaveCheckpoint(source, n, writes)
    PROVE  last_ckpt_id' \in Nat /\ uuids' \in Nat /\ store' \in Seq(CheckpointType)
<1>1. last_ckpt_id \in Nat /\ uuids \in Nat /\ store \in Seq(CheckpointType)
      /\ channels \in [Chan -> Seq(Item)]
  BY DEF TypeOK, SaverType, StateType
<1>2. CASE HasSaver
  <2>1. NewCheckpoint(uuids', last_ckpt_id, source, n, channels, writes) \in CheckpointType
    BY <1>1, <1>2, NewCheckpointType DEF SaveCheckpoint, TypeOK
  <2> QED
    BY <1>1, <1>2, <2>1 DEF SaveCheckpoint
<1>3. CASE ~HasSaver
  BY <1>1, <1>3 DEF SaveCheckpoint
<1> QED
  BY <1>2, <1>3

\* put_writes adds an entry or, failing, nothing.
LEMMA PutWritesTyped ==
    ASSUME SaverType, NEW w \in PendingWrite, PutWrites(w)
    PROVE  pending_writes' \subseteq PendingWrite
BY DEF SaverType, PutWrites

\* The inductive invariant: the types and the books of the task runner.
TypeInv == TypeOK /\ ZipIsTotal

\* The top of the loop.
LEMMA TopTyped ==
    ASSUME TypeOK,
           RecursionLimit \/ Finish \/ FinishFails \/ Cancelled \/ StopBefore
           \/ StartTasks \/ NodeNotFound
    PROVE  TypeOK'
<1> USE DEF TypeOK
<1>0. /\ last_ckpt_id \in Nat
      /\ pending_tasks # <<>> => pending_tasks[1].node \in Name
  <2>1. pending_tasks # <<>> => pending_tasks[1] \in Task
    BY DEF LoopType
  <2> QED
    BY <2>1 DEF SaverType, Task
<1>1. CASE RecursionLimit
  BY <1>0, <1>1, ReturnTyped, ReturnKeepsTypes DEF Reason, RecursionLimit
<1>2. CASE Finish
  <2>1. step \in Nat /\ {c \in Chan : channels[c] # <<>>} \in SUBSET Key
    BY GraphAssumption DEF LoopType
  <2>2. last_ckpt_id' \in Nat /\ uuids' \in Nat /\ store' \in Seq(CheckpointType)
    BY <1>2, <2>1, SaveTyped DEF Finish, SaverType
  <2>3. pc' = "ended" /\ outcome' \in Outcome
    BY <1>2, <2>2, ReturnTyped DEF Reason, Finish
  <2>4. LoopType'
    BY <1>2, <2>3 DEF Finish, LoopType, loop
  <2>5. SaverType'
    BY <1>2, <2>2 DEF Finish, SaverType
  <2> QED
    BY <1>2, <2>4, <2>5, Frame DEF Finish
<1>3. CASE FinishFails
  BY <1>0, <1>3, ReturnTyped, ReturnKeepsTypes DEF Reason, FinishFails
<1>4. CASE Cancelled
  BY <1>0, <1>4, ReturnTyped, ReturnKeepsTypes DEF Reason, Cancelled
<1>5. CASE StopBefore
  <2> DEFINE n == pending_tasks[1].node
             w == [ckpt |-> last_ckpt_id, channel |-> "marker", node |-> n,
                   index |-> 0, answers |-> <<>>]
  <2>1. w \in PendingWrite
    BY <1>0, <1>5 DEF StopBefore, PendingWrite
  <2>2. pending_writes' \subseteq PendingWrite
    BY <1>5, <2>1, PutWritesTyped DEF StopBefore
  <2>3. pc' = "ended" /\ outcome' \in Outcome
    BY <1>0, <1>5, ReturnTyped DEF Reason, StopBefore
  <2>4. UNCHANGED <<loop, at, cancel, last_ckpt_id, results, collected, routed, state>>
    BY <1>5 DEF StopBefore, locals
  <2>5. LoopType'
    BY <2>3, <2>4 DEF LoopType, loop
  <2>6. SaverType'
    BY <1>5, <2>2, <2>4 DEF StopBefore, SaverType
  <2> QED
    BY <2>4, <2>5, <2>6, Frame
<1>6. CASE StartTasks
  <2>1. LoopType'
    BY <1>6 DEF StartTasks, LoopType
  <2>2. ResultType'
    <3>1. DOMAIN pending_tasks \subseteq Nat
      BY DEF LoopType
    <3> QED
      BY <1>6, <3>1 DEF StartTasks, ResultType, collected
  <2> QED
    BY <1>6, <2>1, <2>2, Frame DEF StartTasks
<1>7. CASE NodeNotFound
  <2>1. pc' = "ended" /\ outcome' \in Outcome
    BY <1>0, <1>7, ReturnTyped DEF Reason, NodeNotFound
  <2>2. LoopType'
    BY <1>7, <2>1 DEF NodeNotFound, LoopType
  <2> QED
    BY <1>7, <2>2, Frame DEF NodeNotFound
<1> QED
  BY <1>1, <1>2, <1>3, <1>4, <1>5, <1>6, <1>7

\* The parallel runner.
LEMMA RunnerTyped ==
    ASSUME TypeInv, RunTask \/ TasksJoined
    PROVE  TypeOK'
<1> USE DEF TypeOK
<1>1. ASSUME NEW i \in running, pc = "run"
      PROVE  /\ i \in Nat /\ pending_tasks[i].node \in Node
             /\ pending_tasks[i].node \in Name
  BY <1>1, GraphAssumption DEF TypeInv, ZipIsTotal, ResultType
<1>2. ASSUME NEW i \in running, TaskDone(i)
      PROVE  TypeOK'
  <2> DEFINE n == pending_tasks[i].node
  <2>1. pc = "run"
    BY <1>2 DEF TaskDone
  <2>2. i \in Nat /\ Outputs[n] \subseteq Output
    BY <1>1, <2>1, RunAssumption
  <2>3. task_results' \in Seq(TaskResult)
    <3>1. PICK out \in Outputs[n] :
              task_results' = Append(task_results, [by |-> i, out |-> out])
      BY <1>2 DEF TaskDone
    <3>2. [by |-> i, out |-> out] \in TaskResult
      BY <2>2 DEF TaskResult
    <3> QED
      BY <3>1, <3>2 DEF ResultType, TypeInv
  <2>4. ResultType'
    BY <1>2, <2>3 DEF TaskDone, ResultType, TypeInv, collected
  <2>5. LoopType'
    BY <1>2 DEF TaskDone, LoopType, TypeInv, loop
  <2> QED
    BY <1>2, <2>4, <2>5, Frame DEF TaskDone, TypeInv
<1>3. ASSUME NEW i \in running, TaskInterrupted(i)
      PROVE  TypeOK'
  <2> DEFINE n == pending_tasks[i].node
             w == [ckpt |-> last_ckpt_id, channel |-> "__interrupt__", node |-> n,
                   index |-> Len(current_resume_values),
                   answers |-> current_resume_values]
  <2>1. pc = "run"
    BY <1>3 DEF TaskInterrupted
  <2>2. w \in PendingWrite
    BY <1>1, <2>1 DEF PendingWrite, TypeInv, LoopType, SaverType
  <2>3. pending_writes' \subseteq PendingWrite
    BY <1>3, <2>2, PutWritesTyped DEF TaskInterrupted, TypeInv
  <2>4. pc' = "ended" /\ outcome' \in Outcome
    BY <1>1, <1>3, <2>1, ReturnTyped DEF Reason, TaskInterrupted, TypeInv, SaverType
  <2>5. LoopType'
    BY <1>3, <2>4 DEF TaskInterrupted, LoopType, TypeInv, loop
  <2>6. SaverType'
    BY <1>3, <2>3 DEF TaskInterrupted, SaverType, TypeInv
  <2>7. ResultType'
    BY <1>3 DEF TaskInterrupted, ResultType, TypeInv, collected
  <2> QED
    BY <1>3, <2>5, <2>6, <2>7, Frame DEF TaskInterrupted, TypeInv
<1>4. ASSUME NEW i \in running, TaskFailed(i)
      PROVE  TypeOK'
  <2>1. pc' = "ended" /\ outcome' \in Outcome
    BY <1>4, ReturnTyped DEF Reason, TaskFailed, TypeInv, SaverType
  <2>2. LoopType'
    BY <1>4, <2>1 DEF TaskFailed, LoopType, TypeInv, loop
  <2>3. ResultType'
    BY <1>4 DEF TaskFailed, ResultType, TypeInv, collected
  <2> QED
    BY <1>4, <2>2, <2>3, Frame DEF TaskFailed, TypeInv
<1>5. CASE TasksJoined
  <2>1. LoopType'
    BY <1>5 DEF TasksJoined, LoopType, TypeInv
  <2>2. grouped_updates' \in [Key -> Seq(Item)]
    BY <1>5 DEF TasksJoined
  <2>3. ResultType'
    <3>1. UNCHANGED <<running, task_results>> /\ task_outputs' = <<>> /\ parent_command' \in BOOLEAN
      BY <1>5 DEF TasksJoined, results
    <3> QED
      BY <2>2, <3>1 DEF ResultType, TypeInv
  <2> QED
    BY <1>5, <2>1, <2>3, Frame DEF TasksJoined, TypeInv
<1> QED
  BY <1>2, <1>3, <1>4, <1>5 DEF RunTask

\* The collect loop and the merge.
LEMMA CollectTyped ==
    ASSUME TypeInv, CollectParent \/ CollectUpdate \/ Merge \/ MergeFails
    PROVE  TypeOK'
<1> USE DEF TypeInv, TypeOK
<1>1. CASE CollectParent
  <2>1. LoopType'
    BY <1>1 DEF CollectParent, LoopType, loop
  <2>2. ResultType'
    BY <1>1 DEF CollectParent, ResultType, results
  <2> QED
    BY <1>1, <2>1, <2>2, Frame DEF CollectParent
<1>2. CASE CollectUpdate
  <2> DEFINE r == task_results[at]
             n == pending_tasks[at].node
             entry(c) == [step |-> step, by |-> r.by, over |-> c \in r.out.over]
  <2>0. at \in 1 .. Len(task_results)
    BY <1>2 DEF CollectUpdate, LoopType, ResultType
  <2>1. r \in TaskResult
    BY <2>0, ElementOfSeq DEF ResultType
  <2>2. n \in Name
    <3>1. running = {} /\ Cardinality({}) = 0
      BY <1>2, FS_EmptySet DEF CollectUpdate, ZipIsTotal
    <3>2. Len(task_results) = Len(pending_tasks)
      BY <1>2, <3>1 DEF CollectUpdate, ZipIsTotal, LoopType, ResultType
    <3>3. pending_tasks[at] \in Task
      BY <2>0, <3>2, ElementOfSeq DEF LoopType
    <3> QED
      BY <3>3 DEF Task
  <2>3. \A c : entry(c) \in Item
    BY <2>0, <2>1 DEF TaskResult, Item, LoopType
  <2>4. grouped_updates' \in [Key -> Seq(Item)]
    <3> HIDE DEF entry
    <3>1. \A c \in Key : Append(grouped_updates[c], entry(c)) \in Seq(Item)
      BY <2>3 DEF ResultType
    <3>2. grouped_updates' = [c \in Key |-> IF c \in r.out.writes
                                            THEN Append(grouped_updates[c], entry(c))
                                            ELSE grouped_updates[c]]
      BY <1>2 DEF CollectUpdate, entry
    <3> QED
      BY <3>1, <3>2 DEF ResultType
  <2>5. task_outputs' \in Seq(TaskOutput)
    <3>1. [node |-> n, by |-> r.by, out |-> r.out] \in TaskOutput
      BY <2>1, <2>2 DEF TaskResult, TaskOutput
    <3> QED
      BY <1>2, <3>1 DEF CollectUpdate, ResultType
  <2>6. ResultType'
    BY <1>2, <2>4, <2>5 DEF CollectUpdate, ResultType, results
  <2>7. LoopType'
    BY <1>2 DEF CollectUpdate, LoopType, loop
  <2>8. StateType'
    BY <1>2 DEF CollectUpdate, StateType
  <2> QED
    BY <1>2, <2>6, <2>7, <2>8, Frame DEF CollectUpdate
<1>3. CASE Merge
  <2>1. \A c \in Chan : Update(Kind[c], channels[c], grouped_updates[c]) \in Seq(Item)
    BY UpdateType, GraphAssumption DEF StateType, ResultType
  <2>2. StateType'
    BY <1>3, <2>1 DEF Merge, Merged, StateType
  <2>3. pc' \in {"ended", "persist"} /\ outcome' \in Outcome
    BY <1>3 DEF Merge, Return, Outcome, Reason, LoopType, SaverType
  <2>4. LoopType'
    BY <1>3, <2>3 DEF Merge, LoopType, loop
  <2> QED
    BY <1>3, <2>2, <2>4, Frame DEF Merge
<1>4. CASE MergeFails
  BY <1>4, ReturnTyped, ReturnKeepsTypes DEF Reason, MergeFails, SaverType
<1> QED
  BY <1>1, <1>2, <1>3, <1>4

\* Saving the superstep's checkpoint, at once or in the background.
LEMMA PersistTyped ==
    ASSUME TypeOK,
           PersistSync \/ PersistFails \/ PersistAsync \/ PersistExit \/ Background
    PROVE  TypeOK'
<1> USE DEF TypeOK
<1>0. step \in Nat /\ Written \in SUBSET Key
  BY DEF LoopType, Written
<1>1. CASE PersistSync
  <2>1. last_ckpt_id' \in Nat /\ uuids' \in Nat /\ store' \in Seq(CheckpointType)
    BY <1>0, <1>1, SaveTyped DEF PersistSync
  <2>2. SaverType'
    BY <1>1, <2>1 DEF PersistSync, Announce, SaverType
  <2>3. LoopType'
    BY <1>1 DEF PersistSync, LoopType, loop
  <2> QED
    BY <1>1, <2>2, <2>3, Frame DEF PersistSync
<1>2. CASE PersistFails
  BY <1>2, ReturnTyped, ReturnKeepsTypes DEF Reason, PersistFails, SaverType
<1>3. CASE PersistAsync
  <2>1. uuids' \in Nat /\ last_ckpt_id' \in Nat
    BY <1>3 DEF PersistAsync, SaverType
  <2>2. NewCheckpoint(uuids', last_ckpt_id', "Loop", step, channels, Written) \in CheckpointType
    BY <1>0, <2>1, NewCheckpointType DEF StateType
  <2>3. SaverType'
    BY <1>3, <2>1, <2>2 DEF PersistAsync, Announce, SaverType
  <2>4. LoopType'
    BY <1>3 DEF PersistAsync, LoopType, loop
  <2> QED
    BY <1>3, <2>3, <2>4, Frame DEF PersistAsync
<1>4. CASE PersistExit
  <2>1. SaverType'
    BY <1>4 DEF PersistExit, Announce, SaverType
  <2>2. LoopType'
    BY <1>4 DEF PersistExit, LoopType, loop
  <2> QED
    BY <1>4, <2>1, <2>2, Frame DEF PersistExit
<1>5. ASSUME NEW c \in inflight, DeliverPut(c)
      PROVE  TypeOK'
  <2>1. UNCHANGED <<pc, loop, at, cancel, outcome, last_ckpt_id, results, collected,
                    routed, state>>
    BY <1>5 DEF DeliverPut, locals
  <2>2. SaverType'
    BY <1>5, <2>1 DEF DeliverPut, SaverType
  <2>3. LoopType'
    BY <2>1 DEF LoopType, loop
  <2> QED
    BY <2>1, <2>2, <2>3, Frame
<1> QED
  BY <1>1, <1>2, <1>3, <1>4, <1>5 DEF Background

\* interrupt_after and the routing of the next superstep's tasks.
LEMMA RouteTyped ==
    ASSUME TypeOK,
           StopAfter \/ BeginRouting \/ RouteGoto \/ RouteJoin \/ RouteEdge
           \/ RouteUnreachable \/ NextSuperstep
    PROVE  TypeOK'
<1> USE DEF TypeOK
<1>0. ASSUME NEW n, Routing(n)
      PROVE  /\ at' \in Nat \ {0}
             /\ task_outputs[at] \in TaskOutput
  <2>1. at \in 1 .. Len(task_outputs)
    BY <1>0 DEF Routing, LoopType, ResultType
  <2> QED
    BY <1>0, <2>1, ElementOfSeq DEF Routing, LoopType, ResultType
<1>1. CASE StopAfter
  <2>1. \A k \in DOMAIN task_outputs : {task_outputs[k].node} \in SUBSET Name
    <3>1. \A k \in DOMAIN task_outputs :
              task_outputs[k] \in TaskOutput
      BY ElementOfSeq DEF ResultType
    <3> QED
      BY <3>1 DEF TaskOutput
  <2> QED
    BY <1>1, <2>1, ReturnTyped, ReturnKeepsTypes DEF Reason, StopAfter, SaverType
<1>2. CASE BeginRouting
  <2>1. RoutingType'
    BY <1>2 DEF BeginRouting, RoutingType, barriers
  <2>2. LoopType'
    BY <1>2 DEF BeginRouting, LoopType, loop
  <2> QED
    BY <1>2, <2>1, <2>2, Frame DEF BeginRouting
<1>3. CASE RouteGoto
  <2>1. PICK n \in Node : Routing(n)
    BY <1>3 DEF RouteGoto
  <2>2. PICK tasks \in task_outputs[at].out.goto : next_tasks' = next_tasks \o tasks
    BY <1>3 DEF RouteGoto
  <2>3. tasks \in Seq(Task)
    BY <1>0, <2>1, <2>2 DEF TaskOutput, Output
  <2>4. RoutingType'
    BY <1>3, <2>2, <2>3, ConcatProperties DEF RouteGoto, RoutingType, barriers
  <2>5. LoopType'
    BY <1>0, <1>3, <2>1 DEF RouteGoto, LoopType, loop
  <2> QED
    BY <1>3, <2>4, <2>5, Frame DEF RouteGoto
<1>4. CASE RouteJoin
  <2>1. PICK n \in Node :
            LET full == {j \in JoinsOf(n) : seen[j] \cup {n} = Joins[j].sources}
                fired == full \ satisfied_joins
            IN  /\ Routing(n)
                /\ seen' = [j \in Join |-> IF j \in fired THEN {}
                                          ELSE IF j \in JoinsOf(n) THEN seen[j] \cup {n}
                                          ELSE seen[j]]
                /\ satisfied_joins' = satisfied_joins \cup fired
                /\ \E q \in InOrder(fired) :
                    next_tasks' = next_tasks \o [k \in DOMAIN q |-> Pull(Joins[q[k]].target)]
                /\ arrivals' = [j \in Join |-> IF j \in JoinsOf(n)
                                              THEN [arrivals[j] EXCEPT ![n] = @ + 1]
                                              ELSE arrivals[j]]
                /\ fires' = [j \in Join |-> IF j \in fired THEN fires[j] + 1 ELSE fires[j]]
    BY <1>4 DEF RouteJoin, Marked, Full
  <2> DEFINE fired == {j \in JoinsOf(n) : seen[j] \cup {n} = Joins[j].sources} \ satisfied_joins
  <2>2. fired \subseteq Join
    BY DEF JoinsOf
  <2>3. next_tasks' \in Seq(Task)
    <3>1. PICK q \in InOrder(fired) :
              next_tasks' = next_tasks \o [k \in DOMAIN q |-> Pull(Joins[q[k]].target)]
      BY <2>1
    <3>2. Cardinality(fired) \in Nat
      <4> HIDE DEF fired
      <4>1. IsFiniteSet(Join)
        BY JoinsTyped
      <4>2. IsFiniteSet(fired)
        BY <2>2, <4>1, FS_Subset
      <4> QED
        BY <4>2, FS_CardinalityType
    <3>3. q \in [1 .. Cardinality(fired) -> fired]
      BY DEF InOrder
    <3>4. \A j \in Join : Pull(Joins[j].target) \in Task
      BY JoinsTyped DEF Pull, Task
    <3> HIDE DEF fired
    <3>5. [k \in DOMAIN q |-> Pull(Joins[q[k]].target)] \in Seq(Task)
      BY <2>2, <3>2, <3>3, <3>4
    <3> QED
      BY <3>1, <3>5, ConcatProperties DEF RoutingType
  <2>4. satisfied_joins' \subseteq Join
    BY <2>1, <2>2 DEF RoutingType
  <2>5. seen' \in [Join -> SUBSET Node]
    BY <2>1 DEF RoutingType
  <2>6. arrivals' \in [Join -> [Node -> Nat]]
    BY <2>1 DEF RoutingType
  <2>7. fires' \in [Join -> Nat]
    BY <2>1 DEF RoutingType
  <2>8. RoutingType'
    BY <2>3, <2>4, <2>5, <2>6, <2>7 DEF RoutingType
  <2>9. LoopType'
    BY <1>0, <1>4, <2>1 DEF RouteJoin, Marked, Full, LoopType, loop
  <2> QED
    BY <1>4, <2>8, <2>9, Frame DEF RouteJoin, Marked, Full
<1>5. CASE RouteEdge
  <2>1. PICK n \in DOMAIN Edges : NoJoin(n) /\ \E tasks \in Edges[n] : next_tasks' = next_tasks \o tasks
    BY <1>5 DEF RouteEdge
  <2>2. PICK tasks \in Edges[n] : next_tasks' = next_tasks \o tasks
    BY <2>1
  <2>3. tasks \in Seq(Task)
    BY <2>2, GraphAssumption
  <2>4. RoutingType'
    BY <1>5, <2>2, <2>3, ConcatProperties DEF RouteEdge, RoutingType, barriers
  <2>5. LoopType'
    BY <1>0, <1>5, <2>1 DEF RouteEdge, NoJoin, LoopType, loop
  <2> QED
    BY <1>5, <2>4, <2>5, Frame DEF RouteEdge
<1>6. CASE RouteUnreachable
  <2>1. pc' = "ended" /\ outcome' \in Outcome
    BY <1>6, ReturnTyped DEF Reason, RouteUnreachable, SaverType
  <2>2. LoopType'
    BY <1>0, <1>6, <2>1 DEF RouteUnreachable, NoJoin, LoopType, loop
  <2> QED
    BY <1>6, <2>2, Frame DEF RouteUnreachable
<1>7. CASE NextSuperstep
  <2>1. LoopType'
    BY <1>7 DEF NextSuperstep, LoopType, RoutingType
  <2> QED
    BY <1>7, <2>1, Frame DEF NextSuperstep
<1> QED
  BY <1>1, <1>2, <1>3, <1>4, <1>5, <1>6, <1>7

-----------------------------------------------------------------------------
(* The task runner's books, and the invariant.                             *)

\* Before a call every local is well typed and no task is running.
LEMMA IdleTyped ==
    ASSUME Idle
    PROVE  /\ LoopType /\ ResultType /\ RoutingType /\ StateType /\ ZipIsTotal
           /\ inflight = {} /\ pending_writes = {} /\ announced = {}
<1>1. LoopType
  <2>1. outcome \in Outcome
    BY DEF Idle, NoOutcome, Outcome, Reason
  <2>2. first_iteration \in BOOLEAN /\ cancel \in BOOLEAN
    BY DEF Idle
  <2>3. pending_tasks = <<>> /\ current_resume_values = <<>> /\ at = 1
        /\ pc = "idle" /\ superstep = 0 /\ step = 0
    BY DEF Idle
  <2>4. durability \in Durability
    BY RunAssumption DEF Idle
  <2> QED
    BY <2>1, <2>2, <2>3, <2>4 DEF LoopType
<1>2. ResultType
  <2>1. running = {} /\ task_results = <<>> /\ task_outputs = <<>>
        /\ grouped_updates \in [Key -> Seq(Item)]
    BY DEF Idle
  <2>2. parent_command \in BOOLEAN
    BY DEF Idle
  <2> QED
    BY <2>1, <2>2 DEF ResultType
<1>3. RoutingType
  <2>1. next_tasks = <<>> /\ satisfied_joins = {}
    BY DEF Idle
  <2>2. seen \in [Join -> SUBSET Node] /\ fires \in [Join -> Nat]
        /\ arrivals \in [Join -> [Node -> Nat]]
    BY DEF Idle
  <2> QED
    BY <2>1, <2>2 DEF RoutingType
<1>4. StateType
  BY DEF Idle, StateType
<1>5. ZipIsTotal /\ inflight = {} /\ pending_writes = {} /\ announced = {}
  BY DEF Idle, ZipIsTotal
<1> QED
  BY <1>1, <1>2, <1>3, <1>4, <1>5

\* A call starts well typed.
LEMMA InitTyped == Init => TypeInv
<1> SUFFICES ASSUME Init PROVE TypeInv
  OBVIOUS
<1>1. /\ LoopType /\ ResultType /\ RoutingType /\ StateType /\ ZipIsTotal
      /\ inflight = {} /\ pending_writes = {} /\ announced = {}
  BY IdleTyped DEF Init
<1>2. SaverType
  <2>1. last_ckpt_id \in Nat /\ uuids \in Nat
    BY DEF Init
  <2>2. NewCheckpoint(1, 0, "Input", 0, channels, {}) \in CheckpointType
    BY <1>1, NewCheckpointType DEF StateType
  <2>3. store \in Seq(CheckpointType)
    BY <2>2 DEF Init
  <2> QED
    BY <1>1, <2>1, <2>3 DEF SaverType
<1> QED
  BY <1>1, <1>2 DEF TypeInv, TypeOK

\* execute sets every local to a well-typed value.
LEMMA ExecuteTyped ==
    ASSUME NEW n \in Name, NEW from \in Nat, NEW ckpt, NEW resuming \in BOOLEAN,
           NEW answers \in Seq(Name), LoopType,
           Execute(n, from, ckpt, resuming, answers), cancel' = cancel
    PROVE  LoopType' /\ ResultType' /\ RoutingType' /\ ZipIsTotal'
<1>1. LoopType'
  <2>1. pending_tasks' \in Seq(Task)
    <3>1. Pull(n) \in Task
      BY DEF Pull, Task
    <3> QED
      BY <3>1 DEF Execute
  <2>2. outcome' \in Outcome
    BY DEF Execute, NoOutcome, Outcome, Reason
  <2> QED
    BY <2>1, <2>2 DEF Execute, LoopType
<1>2. ResultType'
  <2>1. running' = {} /\ task_results' = <<>> /\ task_outputs' = <<>>
        /\ grouped_updates' \in [Key -> Seq(Item)]
    BY DEF Execute
  <2>2. parent_command' \in BOOLEAN
    BY DEF Execute
  <2> QED
    BY <2>1, <2>2 DEF ResultType
<1>3. RoutingType'
  <2>1. next_tasks' = <<>> /\ satisfied_joins' = {}
    BY DEF Execute
  <2>2. seen' \in [Join -> SUBSET Node] /\ fires' \in [Join -> Nat]
        /\ arrivals' \in [Join -> [Node -> Nat]]
    BY DEF Execute
  <2> QED
    BY <2>1, <2>2 DEF RoutingType
<1>4. ZipIsTotal'
  BY DEF Execute, ZipIsTotal
<1> QED
  BY <1>1, <1>2, <1>3, <1>4

\* Calling the engine keeps the types.
LEMMA CallTyped ==
    ASSUME TypeOK, Call
    PROVE  TypeOK'
<1>1. PICK n \in Entry, resuming \in BOOLEAN :
          \E answers \in IF resuming THEN AnswersTo(n) ELSE {<<>>} :
              Execute(n, 1, last_ckpt_id, resuming, answers)
  BY DEF Call
<1>2. PICK answers \in IF resuming THEN AnswersTo(n) ELSE {<<>>} :
          Execute(n, 1, last_ckpt_id, resuming, answers)
  BY <1>1
<1>3. n \in Name
  BY GraphAssumption
<1>4. answers \in Seq(Name)
  <2>1. CASE resuming
    <3>1. PICK k \in Nat : answers = [i \in 1 .. k |-> n]
      BY <1>2, <2>1, RunAssumption DEF AnswersTo
    <3> QED
      BY <1>3, <3>1
  <2>2. CASE ~resuming
    BY <1>2, <2>2
  <2> QED
    BY <2>1, <2>2
<1>5. LoopType' /\ ResultType' /\ RoutingType'
  <2>1. 1 \in Nat /\ cancel' = cancel /\ LoopType
    BY DEF Call, TypeOK
  <2> QED
    BY <1>2, <1>3, <1>4, <2>1, ExecuteTyped
<1>6. StateType' /\ SaverType'
  <2>1. UNCHANGED <<state, saver, last_ckpt_id>>
    BY <1>2 DEF Call, Execute
  <2> QED
    BY <2>1, Frame DEF TypeOK
<1> QED
  BY <1>5, <1>6 DEF TypeOK

\* Every step keeps the types.
LEMMA NextTyped ==
    ASSUME TypeInv, [Next]_vars
    PROVE  TypeOK'
<1>1. CASE Call
  BY <1>1, CallTyped DEF TypeInv
<1>2. CASE Engine
  BY <1>2, TopTyped, RunnerTyped, CollectTyped, PersistTyped, RouteTyped DEF Engine, TypeInv
<1>3. CASE RunTask
  BY <1>3, RunnerTyped
<1>4. CASE Background
  BY <1>4, PersistTyped DEF TypeInv
<1>5. CASE Cancel
  <2>1. LoopType'
    BY <1>5 DEF Cancel, TypeInv, TypeOK, LoopType, loop
  <2> QED
    BY <1>5, <2>1, Frame DEF Cancel, TypeInv, TypeOK
<1>6. CASE UNCHANGED vars
  <2>1. UNCHANGED <<pc, outcome, loop, at, cancel, last_ckpt_id, results, collected,
                    routed, state, saver>>
    BY <1>6 DEF vars, locals
  <2>2. LoopType'
    BY <2>1 DEF TypeInv, TypeOK, LoopType, loop
  <2> QED
    BY <2>1, <2>2, Frame DEF TypeInv, TypeOK
<1> QED
  BY <1>1, <1>2, <1>3, <1>4, <1>5, <1>6 DEF Next, Terminated

\* The runner's books stay balanced.  Only starting, finishing and aborting
\* tasks touches them; the other actions either leave the books alone or are
\* outside the superstep's execution.
LEMMA NextZip ==
    ASSUME TypeInv, [Next]_vars
    PROVE  ZipIsTotal'
<1> USE DEF TypeInv
<1>0. pending_tasks \in Seq(Task) /\ task_results \in Seq(TaskResult)
  BY DEF TypeOK, LoopType, ResultType
<1>1. CASE StartTasks
  <2>1. IsFiniteSet(DOMAIN pending_tasks) /\ Cardinality(DOMAIN pending_tasks) = Len(pending_tasks)
    <3>1. DOMAIN pending_tasks = 1 .. Len(pending_tasks) /\ Len(pending_tasks) \in Nat
      BY <1>0
    <3> DEFINE m == Len(pending_tasks)
    <3>2. m \in Nat /\ 1 \in Int /\ m \in Int
      BY <3>1
    <3> HIDE DEF m
    <3>3. IsFiniteSet(1 .. m) /\ Cardinality(1 .. m) = IF 1 > m THEN 0 ELSE m - 1 + 1
      BY <3>2, FS_Interval
    <3>4. Cardinality(1 .. m) = m
      BY <3>2, <3>3
    <3> QED
      BY <3>1, <3>3, <3>4 DEF m
  <2>2. /\ pc' = "run" /\ running' = DOMAIN pending_tasks /\ task_results' = <<>>
        /\ pending_tasks' = pending_tasks
        /\ \A i \in DOMAIN pending_tasks : pending_tasks[i].node \in Node
    BY <1>1 DEF StartTasks
  <2> QED
    BY <1>0, <2>1, <2>2 DEF ZipIsTotal
<1>2. ASSUME NEW i \in running, TaskDone(i)
      PROVE  ZipIsTotal'
  <2>1. /\ pc = "run" /\ pc' = "run" /\ pending_tasks' = pending_tasks
        /\ running' = running \ {i}
        /\ Len(task_results') = Len(task_results) + 1
    BY <1>0, <1>2 DEF TaskDone, loop
  <2>2. IsFiniteSet(running) /\ Cardinality(running) \in Nat
    <3>1. DOMAIN pending_tasks = 1 .. Len(pending_tasks) /\ Len(pending_tasks) \in Int
      BY <1>0
    <3>2. IsFiniteSet(1 .. Len(pending_tasks))
      BY <3>1, FS_Interval
    <3>3. running \in SUBSET (1 .. Len(pending_tasks))
      BY <2>1, <3>1 DEF ZipIsTotal
    <3> QED
      BY <3>2, <3>3, FS_Subset, FS_CardinalityType
  <2>3. Cardinality(running \ {i}) = Cardinality(running) - 1
    BY <2>2, FS_RemoveElement
  <2> QED
    BY <1>0, <2>1, <2>2, <2>3 DEF ZipIsTotal
<1>3. ASSUME NEW i \in running, TaskInterrupted(i) \/ TaskFailed(i)
      PROVE  ZipIsTotal'
  BY <1>3 DEF TaskInterrupted, TaskFailed, Return, ZipIsTotal
<1>4. CASE TasksJoined
  BY <1>4 DEF TasksJoined, results, ZipIsTotal
<1>5. CASE CollectParent \/ CollectUpdate \/ Background \/ Cancel \/ UNCHANGED vars
  <2>1. UNCHANGED <<pc, pending_tasks, running, task_results>>
    BY <1>5 DEF CollectParent, CollectUpdate, Background, DeliverPut, Cancel,
                vars, locals, loop, results
  <2> QED
    BY <2>1 DEF ZipIsTotal
<1>6. CASE RecursionLimit \/ Finish \/ FinishFails \/ Cancelled \/ StopBefore \/ NodeNotFound
  <2>1. pc = "top" /\ pc' = "ended" /\ running' = running
    BY <1>6 DEF RecursionLimit, Finish, FinishFails, Cancelled, StopBefore, NodeNotFound,
                ReadyToRun, InLoop, Return, locals, results
  <2> QED
    BY <2>1 DEF ZipIsTotal
<1>7. CASE Merge \/ MergeFails \/ PersistSync \/ PersistFails \/ PersistAsync \/ PersistExit
  <2>1. pc # "run" /\ pc' \in {"ended", "persist", "after"} /\ running' = running
    BY <1>7 DEF Merge, MergeFails, Collected, PersistSync, PersistFails, PersistAsync,
                PersistExit, Return, locals, results
  <2> QED
    BY <2>1 DEF ZipIsTotal
<1>8. CASE StopAfter \/ BeginRouting \/ RouteGoto \/ RouteJoin \/ RouteEdge
           \/ RouteUnreachable \/ NextSuperstep
  <2>1. pc # "run" /\ pc' \in {"ended", "route", "top"} /\ running' = running
    <3>1. \A n : Routing(n) => pc = "route"
      BY DEF Routing
    <3>2. CASE StopAfter \/ BeginRouting \/ NextSuperstep
      BY <3>2 DEF StopAfter, BeginRouting, NextSuperstep, Return, locals, results
    <3>3. CASE RouteGoto \/ RouteJoin \/ RouteEdge \/ RouteUnreachable
      BY <3>1, <3>3 DEF RouteGoto, RouteJoin, RouteEdge, RouteUnreachable, NoJoin,
                        Return, results
    <3> QED
      BY <1>8, <3>2, <3>3
  <2> QED
    BY <2>1 DEF ZipIsTotal
<1>9. CASE Call
  BY <1>9 DEF Call, Execute, ZipIsTotal
<1> QED
  BY <1>1, <1>2, <1>3, <1>4, <1>5, <1>6, <1>7, <1>8, <1>9
     DEF Next, Engine, RunTask, Terminated

\* Every reachable state is well typed, and zip() pairs each result with a task.
THEOREM TypeCorrect == Spec => [](TypeOK /\ ZipIsTotal)
<1>1. Init => TypeInv
  BY InitTyped
<1>2. TypeInv /\ [Next]_vars => TypeInv'
  BY NextTyped, NextZip DEF TypeInv
<1>3. TypeInv => TypeOK /\ ZipIsTotal
  BY DEF TypeInv
<1> QED
  BY <1>1, <1>2, <1>3, PTL DEF Spec

-----------------------------------------------------------------------------
(* Joins.                                                                  *)

\* A source in a barrier's seen set has completed once more than its target
\* was scheduled.
JoinInv ==
    \A j \in Join :
        /\ seen[j] \subseteq Joins[j].sources
        /\ \A s \in Joins[j].sources : s \in seen[j] => fires[j] + 1 <= arrivals[j][s]
        /\ \A s \in Joins[j].sources : fires[j] <= arrivals[j][s]

LEMMA JoinInductive == Spec => [](TypeInv /\ JoinInv)
<1>1. Init => JoinInv
  <2> SUFFICES ASSUME Init, NEW j \in Join
               PROVE  /\ seen[j] = {}
                      /\ \A s \in Joins[j].sources : fires[j] <= arrivals[j][s]
    BY DEF JoinInv
  <2>1. seen[j] = {} /\ fires[j] = 0 /\ arrivals[j] = [n \in Node |-> 0]
    BY DEF Init, Idle
  <2> QED
    BY <2>1, JoinsTyped
<1>2. TypeInv /\ JoinInv /\ [Next]_vars => JoinInv'
  <2> SUFFICES ASSUME TypeInv, JoinInv, [Next]_vars PROVE JoinInv'
    OBVIOUS
  <2>1. CASE RouteJoin
    <3>1. PICK n \in Node :
            LET full == {j \in JoinsOf(n) : seen[j] \cup {n} = Joins[j].sources}
                fired == full \ satisfied_joins
            IN  /\ seen' = [j \in Join |-> IF j \in fired THEN {}
                                          ELSE IF j \in JoinsOf(n) THEN seen[j] \cup {n}
                                          ELSE seen[j]]
                /\ arrivals' = [j \in Join |-> IF j \in JoinsOf(n)
                                              THEN [arrivals[j] EXCEPT ![n] = @ + 1]
                                              ELSE arrivals[j]]
                /\ fires' = [j \in Join |-> IF j \in fired THEN fires[j] + 1 ELSE fires[j]]
      BY <2>1 DEF RouteJoin, Marked, Full
    <3> DEFINE fired == {j \in JoinsOf(n) : seen[j] \cup {n} = Joins[j].sources}
                        \ satisfied_joins
    <3> SUFFICES ASSUME NEW j \in Join
                 PROVE  /\ seen'[j] \subseteq Joins[j].sources
                        /\ \A s \in Joins[j].sources :
                              s \in seen'[j] => fires'[j] + 1 <= arrivals'[j][s]
                        /\ \A s \in Joins[j].sources : fires'[j] <= arrivals'[j][s]
      BY DEF JoinInv
    <3>2. /\ fires[j] \in Nat /\ arrivals[j] \in [Node -> Nat]
          /\ Joins[j].sources \subseteq Node
      BY JoinsTyped DEF TypeInv, TypeOK, RoutingType
    <3>3. CASE j \in fired
      <4>1. /\ n \in Joins[j].sources /\ seen[j] \cup {n} = Joins[j].sources
            /\ seen'[j] = {} /\ fires'[j] = fires[j] + 1
            /\ arrivals'[j] = [arrivals[j] EXCEPT ![n] = @ + 1]
        BY <3>1, <3>3 DEF JoinsOf
      <4>2. ASSUME NEW s \in Joins[j].sources
            PROVE  fires[j] + 1 <= arrivals'[j][s]
        <5>1. CASE s = n
          BY <3>2, <4>1, <4>2, <5>1 DEF JoinInv
        <5>2. CASE s # n
          <6>1. s \in seen[j]
            BY <4>1, <4>2, <5>2
          <6> QED
            BY <3>2, <4>1, <4>2, <5>2, <6>1 DEF JoinInv
        <5> QED
          BY <5>1, <5>2
      <4> QED
        BY <4>1, <4>2
    <3>4. CASE j \notin fired /\ j \in JoinsOf(n)
      <4>1. /\ n \in Joins[j].sources
            /\ seen'[j] = seen[j] \cup {n} /\ fires'[j] = fires[j]
            /\ arrivals'[j] = [arrivals[j] EXCEPT ![n] = @ + 1]
        BY <3>1, <3>4 DEF JoinsOf
      <4>2. ASSUME NEW s \in Joins[j].sources
            PROVE  /\ s \in seen'[j] => fires[j] + 1 <= arrivals'[j][s]
                   /\ fires[j] <= arrivals'[j][s]
        <5>1. CASE s = n
          BY <3>2, <4>1, <4>2, <5>1 DEF JoinInv
        <5>2. CASE s # n
          BY <3>2, <4>1, <4>2, <5>2 DEF JoinInv
        <5> QED
          BY <5>1, <5>2
      <4> QED
        BY <4>1, <4>2 DEF JoinInv
    <3>5. CASE j \notin JoinsOf(n)
      <4>1. seen'[j] = seen[j] /\ fires'[j] = fires[j] /\ arrivals'[j] = arrivals[j]
        BY <3>1, <3>5
      <4> QED
        BY <4>1 DEF JoinInv
    <3> QED
      BY <3>3, <3>4, <3>5
  <2>2. CASE Call
    <3> SUFFICES ASSUME NEW j \in Join
                 PROVE  /\ seen'[j] = {}
                        /\ \A s \in Joins[j].sources : fires'[j] <= arrivals'[j][s]
      BY DEF JoinInv
    <3>1. seen'[j] = {} /\ fires'[j] = 0 /\ arrivals'[j] = [n \in Node |-> 0]
      BY <2>2 DEF Call, Execute
    <3> QED
      BY <3>1, JoinsTyped
  <2>3. CASE ~RouteJoin /\ ~Call
    <3>1. UNCHANGED barriers
      BY <2>3 DEF Next, Engine, RunTask, Background, Terminated, RecursionLimit, Finish,
           FinishFails, Cancelled, StopBefore, StartTasks, NodeNotFound, TaskDone,
           TaskInterrupted, TaskFailed, TasksJoined, CollectParent, CollectUpdate, Merge,
           MergeFails, PersistSync, PersistFails, PersistAsync, PersistExit, DeliverPut,
           StopAfter, BeginRouting, RouteGoto, RouteEdge, RouteUnreachable, NextSuperstep,
           Cancel, vars, locals, routed
    <3> QED
      BY <3>1 DEF JoinInv, barriers
  <2> QED
    BY <2>1, <2>2, <2>3
<1>3. Spec => []TypeInv
  BY TypeCorrect, PTL DEF TypeInv
<1> QED
  BY <1>1, <1>2, <1>3, PTL DEF Spec

\* A join's target never runs ahead of one of its sources, in any graph and
\* whatever the order in which tasks complete.
THEOREM JoinSafety == Spec => []JoinNeverEarly
<1>1. JoinInv => JoinNeverEarly
  BY DEF JoinInv, JoinNeverEarly
<1> QED
  BY <1>1, JoinInductive, PTL

-----------------------------------------------------------------------------
(* Checkpoints under Durability::Sync.                                     *)

\* Ids are handed out in the order of the puts, so the n-th checkpoint has
\* id n; the newest one belongs to the last superstep that was merged.
ChainInv ==
    /\ inflight = {}
    /\ Len(store) > 0 /\ uuids = Len(store) /\ last_ckpt_id = Len(store)
    /\ \A i \in DOMAIN store : store[i].id = i
    /\ \A i \in DOMAIN store \ {1} : /\ store[i].parent = i - 1
                                    /\ store[i].step = store[i - 1].step + 1
    /\ pc = "idle" => step = 0
    /\ pc \in {"idle", "after", "route"} => Latest.step = step
    /\ pc \in {"top", "run", "collect", "persist"} => Latest.step + 1 = step

\* What the newest checkpoint holds, and where in the loop it is current.
StateInv ==
    pc \in {"idle", "top", "run", "after", "route"} =>
        /\ Latest.vals = Snapshot(channels)
        /\ Latest.versions = channel_versions
        /\ Latest.seen_versions = versions_seen

LEMMA ChainInit ==
    ASSUME SavesEachStep, Init
    PROVE  ChainInv /\ StateInv
<1> DEFINE c == NewCheckpoint(1, 0, "Input", 0, channels, {})
<1>1. /\ store = <<c>> /\ inflight = {} /\ last_ckpt_id = 1 /\ uuids = 1
      /\ pc = "idle" /\ step = 0
  BY DEF Init, Idle, SavesEachStep
<1>2. /\ c.id = 1 /\ c.step = 0 /\ c.vals = Snapshot(channels)
      /\ c.versions = channel_versions /\ c.seen_versions = versions_seen
  BY DEF NewCheckpoint
<1> HIDE DEF c
<1>3. Len(store) = 1 /\ Latest = c /\ DOMAIN store = {1} /\ store[1] = c
  BY <1>1 DEF Latest
<1> QED
  BY <1>1, <1>2, <1>3 DEF ChainInv, StateInv

\* The one action that extends the store.
LEMMA ChainPersist ==
    ASSUME SavesEachStep, TypeOK, ChainInv, PersistSync
    PROVE  ChainInv' /\ StateInv'
<1> DEFINE c == NewCheckpoint(uuids', last_ckpt_id, "Loop", step, channels, Written)
           n == Len(store)
<1>0. store \in Seq(CheckpointType) /\ n \in Nat /\ DOMAIN store = 1 .. n
      /\ step \in Nat
  BY DEF TypeOK, SaverType, LoopType
<1>1. /\ pc = "persist" /\ pc' = "after" /\ step' = step /\ inflight' = inflight
      /\ uuids' = n + 1 /\ last_ckpt_id' = n + 1 /\ store' = Append(store, c)
      /\ channels' = channels /\ channel_versions' = channel_versions
      /\ versions_seen' = versions_seen
  BY DEF PersistSync, SaveCheckpoint, SavesEachStep, ChainInv, loop, state
<1>2. /\ c.id = n + 1 /\ c.parent = n /\ c.step = step /\ c.vals = Snapshot(channels)
      /\ c.versions = channel_versions /\ c.seen_versions = versions_seen
  BY <1>1 DEF NewCheckpoint, ChainInv
<1> HIDE DEF c
<1>3. /\ Len(store') = n + 1 /\ DOMAIN store' = 1 .. n + 1 /\ store'[n + 1] = c
      /\ \A i \in 1 .. n : store'[i] = store[i]
  BY <1>0, <1>1
<1>4. Latest' = c
  BY <1>0, <1>1, <1>3 DEF Latest
<1>5. n > 0 /\ store[n].step + 1 = step
  BY <1>1 DEF ChainInv, Latest
<1>6. \A i \in DOMAIN store' : store'[i].id = i
  BY <1>0, <1>2, <1>3 DEF ChainInv
<1>7. \A i \in DOMAIN store' \ {1} : /\ store'[i].parent = i - 1
                                     /\ store'[i].step = store'[i - 1].step + 1
  <2> SUFFICES ASSUME NEW i \in 2 .. n + 1
               PROVE  /\ store'[i].parent = i - 1
                      /\ store'[i].step = store'[i - 1].step + 1
    BY <1>0, <1>3
  <2>1. CASE i = n + 1
    BY <1>0, <1>2, <1>3, <1>5, <2>1
  <2>2. CASE i # n + 1
    <3>1. i \in DOMAIN store \ {1} /\ i - 1 \in 1 .. n /\ i \in 1 .. n
      BY <1>0, <2>2
    <3> QED
      BY <1>3, <3>1 DEF ChainInv
  <2> QED
    BY <2>1, <2>2
<1>8. StateInv'
  BY <1>1, <1>2, <1>4 DEF StateInv, Snapshot
<1> QED
  BY <1>0, <1>1, <1>2, <1>3, <1>4, <1>6, <1>7, <1>8 DEF ChainInv

\* Every other action keeps the store and moves pc, step and the channels
\* together.
LEMMA ChainKept ==
    ASSUME SavesEachStep, TypeOK, ChainInv, StateInv, [Next]_vars, ~PersistSync
    PROVE  ChainInv' /\ StateInv'
<1>0. HasSaver /\ durability = "Sync" /\ inflight = {} /\ step \in Nat
  BY DEF SavesEachStep, ChainInv, TypeOK, LoopType
<1>1. CASE Call
  <2>1. /\ pc = "idle" /\ pc' = "top" /\ step' = 1 /\ last_ckpt_id' = last_ckpt_id
        /\ UNCHANGED <<store, inflight, uuids, channels, channel_versions, versions_seen>>
    BY <1>1 DEF Call, Execute, state, saver
  <2> QED
    BY <2>1 DEF ChainInv, StateInv, Latest, Snapshot
<1>2. CASE NextSuperstep
  <2>1. /\ pc = "route" /\ pc' = "top" /\ step' = step + 1 /\ last_ckpt_id' = last_ckpt_id
        /\ UNCHANGED <<store, inflight, uuids, channels, channel_versions, versions_seen>>
    BY <1>2 DEF NextSuperstep, state, saver
  <2> QED
    BY <1>0, <2>1 DEF ChainInv, StateInv, Latest, Snapshot
<1>3. CASE \/ RecursionLimit \/ Finish \/ Cancelled \/ StopBefore \/ NodeNotFound
           \/ MergeFails \/ PersistFails \/ StopAfter \/ RouteUnreachable
           \/ \E i \in running : TaskInterrupted(i) \/ TaskFailed(i)
  <2>1. /\ pc' = "ended" /\ last_ckpt_id' = last_ckpt_id
        /\ UNCHANGED <<store, inflight, uuids>>
    BY <1>0, <1>3
       DEF RecursionLimit, Finish, Cancelled, StopBefore, NodeNotFound, MergeFails,
           PersistFails, StopAfter, RouteUnreachable, TaskInterrupted, TaskFailed,
           Return, locals, saver
  <2> QED
    BY <2>1 DEF ChainInv, StateInv
<1>4. CASE \/ StartTasks \/ BeginRouting \/ RouteGoto \/ RouteJoin \/ RouteEdge
           \/ Cancel \/ UNCHANGED vars \/ \E i \in running : TaskDone(i)
  <2>1. /\ last_ckpt_id' = last_ckpt_id /\ step' = step
        /\ UNCHANGED <<store, inflight, uuids, channels, channel_versions, versions_seen>>
    BY <1>4
       DEF StartTasks, BeginRouting, RouteGoto, RouteJoin, RouteEdge, Cancel, TaskDone,
           vars, locals, loop, state, saver
  <2>2. \/ pc' = pc
        \/ pc = "top" /\ pc' = "run"
        \/ pc = "after" /\ pc' = "route"
    BY <1>4
       DEF StartTasks, ReadyToRun, InLoop, BeginRouting, RouteGoto, RouteJoin, RouteEdge,
           Cancel, TaskDone, vars
  <2> QED
    BY <2>1, <2>2 DEF ChainInv, StateInv, Latest, Snapshot
<1>5. CASE TasksJoined \/ CollectParent \/ CollectUpdate \/ Merge
  <2>1. /\ last_ckpt_id' = last_ckpt_id /\ step' = step
        /\ UNCHANGED <<store, inflight, uuids>>
    BY <1>5 DEF TasksJoined, CollectParent, CollectUpdate, Merge, loop, saver
  <2>2. /\ pc \in {"run", "collect"}
        /\ pc' \in {"collect", "persist", "ended"}
    BY <1>5 DEF TasksJoined, CollectParent, CollectUpdate, Merge, Collected, Return
  <2> QED
    BY <2>1, <2>2 DEF ChainInv, StateInv, Latest
<1>6. ~FinishFails /\ ~PersistAsync /\ ~PersistExit /\ ~Background
  BY <1>0 DEF FinishFails, PersistAsync, PersistExit, Background
<1> QED
  BY <1>1, <1>2, <1>3, <1>4, <1>5, <1>6 DEF Next, Engine, RunTask, Terminated

\* A call keeps the durability it was made with.
LEMMA DurabilityKept == ASSUME [Next]_vars PROVE durability' = durability
BY DEF Next, Call, Execute, Engine, RecursionLimit, Finish, FinishFails, Cancelled, StopBefore,
       StartTasks, NodeNotFound, TasksJoined, CollectParent, CollectUpdate, Merge, MergeFails,
       PersistSync, PersistFails, PersistAsync, PersistExit, StopAfter, BeginRouting, RouteGoto,
       RouteJoin, RouteEdge, RouteUnreachable, NextSuperstep, RunTask, TaskDone,
       TaskInterrupted, TaskFailed, Background, DeliverPut, Cancel, Terminated, vars, locals, loop

\* What holds of the checkpoints of a Sync call, with the types.
SyncInv == SavesEachStep => ChainInv /\ StateInv

LEMMA SyncInductive == Spec => [](TypeInv /\ SyncInv)
<1>1. Init => SyncInv
  BY ChainInit DEF SyncInv
<1>2. TypeInv /\ SyncInv /\ [Next]_vars => SyncInv'
  <2> SUFFICES ASSUME TypeInv, SyncInv, [Next]_vars, SavesEachStep'
               PROVE  ChainInv' /\ StateInv'
    BY DEF SyncInv
  <2>1. SavesEachStep
    BY DurabilityKept DEF SavesEachStep
  <2>2. TypeOK /\ ChainInv /\ StateInv
    BY <2>1 DEF TypeInv, SyncInv
  <2> QED
    BY <2>1, <2>2, ChainPersist, ChainKept
<1>3. Spec => []TypeInv
  BY TypeCorrect, PTL DEF TypeInv
<1> QED
  BY <1>1, <1>2, <1>3, PTL DEF Spec

\* Under Durability::Sync the newest checkpoint is the engine's state at every
\* point between two merges: a crash costs at most the superstep that was
\* running (engine.rs:521).
THEOREM SyncCheckpoints == Spec => []CheckpointIsState
<1>1. TypeInv /\ SyncInv => CheckpointIsState
  <2> SUFFICES ASSUME TypeInv, SyncInv, SavesEachStep PROVE CheckpointIsState
    BY DEF CheckpointIsState
  <2>1. store \in Seq(CheckpointType) /\ Len(store) \in Nat /\ Len(store) > 0
    BY DEF TypeInv, TypeOK, SaverType, SyncInv, ChainInv
  <2>2. Latest.id = last_ckpt_id
    BY <2>1 DEF SyncInv, ChainInv, Latest
  <2> QED
    BY <2>2 DEF CheckpointIsState, SyncInv, StateInv
<1> QED
  BY <1>1, SyncInductive, PTL

\* The checkpoints of a Sync call are a chain of consecutive steps, each the
\* parent of the next, under ids of their own.
THEOREM ChainSafety == Spec => []ParentChain
<1>1. TypeInv /\ SyncInv => ParentChain
  <2> SUFFICES ASSUME TypeInv, SyncInv, SavesEachStep PROVE ParentChain
    BY DEF ParentChain
  <2>1. store \in Seq(CheckpointType) /\ Len(store) \in Nat /\ ChainInv
    BY DEF TypeInv, TypeOK, SaverType, SyncInv
  <2>2. ASSUME NEW i \in DOMAIN store \ {1}
        PROVE  /\ store[i].parent = store[i - 1].id
               /\ store[i].step = store[i - 1].step + 1
    BY <2>1, <2>2 DEF ChainInv
  <2>3. ASSUME NEW i \in DOMAIN store, NEW k \in DOMAIN store, store[i].id = store[k].id
        PROVE  i = k
    BY <2>1, <2>3 DEF ChainInv
  <2> QED
    BY <2>2, <2>3 DEF ParentChain
<1> QED
  BY <1>1, SyncInductive, PTL

-----------------------------------------------------------------------------
(* The runner as the engine sees it.                                       *)

\* While the tasks run, each step begins no task, books one, or fails.
LEMMA RunningSteps ==
    ASSUME TypeInv, NEW i \in running, TaskDone(i) \/ TaskInterrupted(i) \/ TaskFailed(i)
    PROVE  Runner!Next
<1>1. CASE TaskDone(i)
  <2>1. PICK out : task_results' = Append(task_results, [by |-> i, out |-> out])
    BY <1>1 DEF TaskDone
  <2>2. task_results \in Seq(TaskResult)
    BY DEF TypeInv, TypeOK, ResultType
  <2>3. {task_results'[k].by : k \in DOMAIN task_results'}
          = {task_results[k].by : k \in DOMAIN task_results} \cup {i}
    <3>1. DOMAIN task_results' = DOMAIN task_results \cup {Len(task_results) + 1}
      BY <2>1, <2>2
    <3>2. \A k \in DOMAIN task_results : task_results'[k] = task_results[k]
      BY <2>1, <2>2
    <3>3. task_results'[Len(task_results) + 1].by = i
      BY <2>1, <2>2
    <3> QED
      BY <3>1, <3>2, <3>3
  <2>4. pc = "run" /\ pc' = "run" /\ running' = running \ {i}
    BY <1>1 DEF TaskDone
  <2> QED
    BY <2>3, <2>4 DEF Runner!Next, Runner!Book, RunnerVerdict
<1>2. CASE TaskInterrupted(i) \/ TaskFailed(i)
  <2>1. /\ pc = "run" /\ pc' = "ended" /\ running' = {}
        /\ outcome'.why \in {"node", "NodeInterrupt"}
    BY <1>2 DEF TaskInterrupted, TaskFailed, Return
  <2> QED
    BY <2>1 DEF Runner!Next, Runner!Fail, RunnerVerdict
<1> QED
  BY <1>1, <1>2

\* Every other step begins a superstep's tasks, takes their results, or does
\* not concern them.
LEMMA OtherSteps ==
    ASSUME TypeInv, Call \/ Engine \/ Background \/ Cancel \/ Terminated
    PROVE  [Runner!Next]_Runner!vars
<1>0. pc # "run" => running = {}
  BY DEF TypeInv, ZipIsTotal
<1>1. CASE StartTasks
  <2>1. /\ pc = "top" /\ pc' = "run" /\ pending_tasks # <<>>
        /\ running' = DOMAIN pending_tasks /\ task_results' = <<>>
    BY <1>1 DEF StartTasks, ReadyToRun, InLoop
  <2>2. DOMAIN pending_tasks # {} /\ DOMAIN pending_tasks \subseteq Nat
    <3>1. pending_tasks \in Seq(Task)
      BY DEF TypeInv, TypeOK, LoopType
    <3>2. Len(pending_tasks) \in Nat /\ Len(pending_tasks) # 0
          /\ DOMAIN pending_tasks = 1 .. Len(pending_tasks)
      BY <2>1, <3>1
    <3> QED
      BY <3>2
  <2> QED
    BY <2>1, <2>2 DEF Runner!Next, Runner!Begin, RunnerVerdict
<1>2. CASE TasksJoined
  <2>1. /\ pc = "run" /\ running = {} /\ pc' = "collect"
        /\ UNCHANGED <<running, task_results>>
    BY <1>2 DEF TasksJoined, results
  <2> QED
    BY <2>1 DEF Runner!Next, Runner!Succeed, RunnerVerdict
<1>3. CASE Merge \/ MergeFails
  <2>1. /\ pc = "collect" /\ running' = running
        /\ \/ pc' = "persist"
           \/ pc' = "ended" /\ outcome'.why \in {"parent", "reducer"}
    <3>1. CASE Merge
      BY <3>1 DEF Merge, Collected, Return, results
    <3>2. CASE MergeFails
      BY <3>2 DEF MergeFails, Collected, Return, results, locals
    <3> QED
      BY <1>3, <3>1, <3>2
  <2> QED
    BY <2>1 DEF Runner!Next, Runner!Collect, RunnerVerdict
<1>4. CASE NodeNotFound
  <2>1. /\ pc = "top" /\ pc' = "ended" /\ outcome'.why = "NodeNotFound" /\ running' = running
    BY <1>4 DEF NodeNotFound, ReadyToRun, InLoop, Return, results
  <2> QED
    BY <2>1 DEF Runner!Next, Runner!Refuse, RunnerVerdict
<1>5. CASE CollectParent \/ CollectUpdate
  <2>1. pc = "collect" /\ UNCHANGED <<pc, running, task_results>>
    BY <1>5 DEF CollectParent, CollectUpdate, results
  <2> QED
    BY <2>1 DEF Runner!vars, RunnerVerdict
<1>6. CASE Background \/ Cancel \/ Terminated
  BY <1>6 DEF Background, DeliverPut, Cancel, Terminated, vars, locals, results,
              Runner!vars, RunnerVerdict
<1>7. CASE \/ Call \/ RecursionLimit \/ Finish \/ FinishFails \/ Cancelled \/ StopBefore
           \/ PersistSync \/ PersistFails \/ PersistAsync \/ PersistExit \/ StopAfter
           \/ BeginRouting \/ RouteGoto \/ RouteJoin \/ RouteEdge \/ RouteUnreachable
           \/ NextSuperstep
  <2>1. /\ pc \in {"idle", "top", "persist", "after", "route"}
        /\ \/ pc' \in {"top", "after", "route"}
           \/ pc' = "ended" /\ outcome'.why \notin {"node", "NodeInterrupt", "NodeNotFound"}
    BY <1>7 DEF Call, Execute, RecursionLimit, Finish, FinishFails, Cancelled, StopBefore, InLoop,
                PersistSync, PersistFails, PersistAsync, PersistExit, StopAfter, BeginRouting,
                RouteGoto, RouteJoin, RouteEdge, RouteUnreachable, Routing, NoJoin,
                NextSuperstep, Return
  <2>2. running' = running
    BY <1>0, <1>7, <2>1
       DEF Call, Execute, RecursionLimit, Finish, FinishFails, Cancelled, StopBefore,
           PersistSync, PersistFails, PersistAsync, PersistExit, StopAfter, BeginRouting,
           RouteGoto, RouteJoin, RouteEdge, RouteUnreachable, NextSuperstep, locals, results
  <2> QED
    BY <2>1, <2>2 DEF Runner!vars, RunnerVerdict
<1> QED
  BY <1>1, <1>2, <1>3, <1>4, <1>5, <1>6, <1>7 DEF Engine

\* For every graph the engine takes the superstep's results only after every
\* task has delivered its one result, and takes none of a superstep that failed
\* (engine.rs:209): it asks of its runner what TaskRunner promises.
THEOREM RunnerUse == Spec => RunnerAsPromised
<1>1. Init => Runner!Init
  BY DEF Init, Idle, Runner!Init, RunnerVerdict
<1>2. TypeInv /\ [Next]_vars => [Runner!Next]_Runner!vars
  <2> SUFFICES ASSUME TypeInv, [Next]_vars PROVE [Runner!Next]_Runner!vars
    OBVIOUS
  <2>1. CASE RunTask
    BY <2>1, RunningSteps DEF RunTask
  <2>2. CASE UNCHANGED vars
    BY <2>2 DEF vars, locals, results, Runner!vars, RunnerVerdict
  <2> QED
    BY <2>1, <2>2, OtherSteps DEF Next
<1>3. Spec => []TypeInv
  BY TypeCorrect, PTL DEF TypeInv
<1> QED
  BY <1>1, <1>2, <1>3, PTL DEF Spec, RunnerAsPromised, Runner!Spec
=============================================================================
