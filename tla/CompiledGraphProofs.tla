------------------------ MODULE CompiledGraphProofs ------------------------
(***************************************************************************)
(* What a thread's calls do to its checkpoints and interrupts, for every   *)
(* graph, every sequence of calls and any number of crashes between them.  *)
(***************************************************************************)
EXTENDS CompiledGraph, PregelStateProofs

-----------------------------------------------------------------------------
(* Type correctness.                                                       *)

\* No call is running.
Resting == pc \in {"idle", "ended"}

\* A call waits between its halves only while none is running, and what it was
\* told of a former one is forgotten when it runs.  Without a saver nothing is
\* ever stored.
RestInv ==
    /\ durability \in Durabilities
    /\ ~Resting => request = NoRequest /\ outcome = NoOutcome
    /\ ~HasSaver => store = <<>> /\ pending_writes = {} /\ inflight = {}

GraphInv == TypeInv /\ GraphTypeOK /\ RestInv

\* What a call may load: a checkpoint, or the defaults of a new thread.
Loadable(t) ==
    /\ t.id \in Nat /\ t.step \in Int /\ t.step + 1 \in Nat
    /\ t.vals \in [Chan -> Seq(Item)] /\ t.versions \in [Chan -> Nat]
    /\ t.seen_versions \in [Name -> [Chan -> Nat]]

LEMMA TuplesLoadable ==
    ASSUME TypeOK
    PROVE  /\ Loadable(Newest)
           /\ store # <<>> => Loadable(Latest) /\ Latest = store[Len(store)]
                              /\ Len(store) \in DOMAIN store
           /\ \A how \in CheckpointIds : \A t \in Chosen(how) : Loadable(t)
<1>1. store \in Seq(CheckpointType)
  BY DEF TypeOK, SaverType
<1>2. \A i \in DOMAIN store : Loadable(store[i])
  <2> SUFFICES ASSUME NEW i \in DOMAIN store PROVE Loadable(store[i])
    OBVIOUS
  <2>1. store[i] \in CheckpointType
    BY <1>1
  <2> QED
    BY <2>1 DEF CheckpointType, Loadable
<1>3. Loadable(NoTuple)
  BY DEF NoTuple, Loadable
<1>4. store # <<>> => Len(store) \in DOMAIN store
  BY <1>1
<1>5. Loadable(Newest) /\ (store # <<>> => Loadable(Latest))
  BY <1>2, <1>3, <1>4 DEF Newest, Latest
<1>6. ASSUME NEW how \in CheckpointIds, NEW t \in Chosen(how) PROVE Loadable(t)
  BY <1>2, <1>3, <1>5, ThreadAssumption DEF Chosen
<1> QED
  BY <1>4, <1>5, <1>6 DEF Latest

\* Loading a tuple and applying the user's values.
LEMMA LoadTyped ==
    ASSUME TypeInv, GraphTypeOK, NEW t, Loadable(t), NEW writes \in SUBSET Key, Load(t, writes)
    PROVE  /\ LoopType' /\ ResultType' /\ RoutingType' /\ SaverType' /\ ZipIsTotal'
           /\ calls' \in Nat /\ durability' \in Durabilities
           /\ channels' \in [Chan -> Seq(Item)] /\ channel_versions' \in [Chan -> Nat]
<1>1. /\ calls' = calls + 1 /\ durability' \in Durabilities /\ step' = t.step + 1
      /\ last_ckpt_id' = t.id /\ cancel' = FALSE
      /\ UNCHANGED <<pc, superstep, pending_tasks, first_iteration, current_resume_values,
                     results, at, collected, routed, outcome, saver>>
  BY DEF Load
<1>2. LoopType'
  BY <1>1, RunAssumption DEF TypeInv, TypeOK, LoopType, Loadable
<1>3. ResultType' /\ RoutingType'
  BY <1>1, Frame DEF TypeInv, TypeOK
<1>4. SaverType'
  BY <1>1 DEF TypeInv, TypeOK, SaverType, Loadable, saver
<1>5. ZipIsTotal'
  BY <1>1 DEF TypeInv, ZipIsTotal, results
<1>6. \A c \in Chan : Update(Kind[c], FromCheckpoint(Kind[c], t.vals[c]),
                  IF c \in writes THEN <<[step |-> step', by |-> 0, over |-> FALSE]>> ELSE <<>>)
                        \in Seq(Item)
  <2> SUFFICES ASSUME NEW c \in Chan
               PROVE  Update(Kind[c], FromCheckpoint(Kind[c], t.vals[c]),
                  IF c \in writes THEN <<[step |-> step', by |-> 0, over |-> FALSE]>> ELSE <<>>)
                        \in Seq(Item)
    OBVIOUS
  <2> DEFINE batch == IF c \in writes THEN <<[step |-> step', by |-> 0, over |-> FALSE]>>
                      ELSE <<>>
  <2>1. [step |-> step', by |-> 0, over |-> FALSE] \in Item
    BY <1>1 DEF Item, Loadable
  <2>2. batch \in Seq(Item)
    BY <2>1
  <2>3. FromCheckpoint(Kind[c], t.vals[c]) \in Seq(Item)
    BY DEF FromCheckpoint, Loadable
  <2> HIDE DEF batch
  <2>4. Update(Kind[c], FromCheckpoint(Kind[c], t.vals[c]), batch) \in Seq(Item)
    BY <2>2, <2>3, UpdateType
  <2> QED
    BY <2>4 DEF batch
<1>7. channels' \in [Chan -> Seq(Item)]
  BY <1>6 DEF Load
<1>8. channel_versions' \in [Chan -> Nat]
  BY DEF Load, Loadable
<1>9. calls' \in Nat
  BY <1>1 DEF GraphTypeOK
<1> QED
  BY <1>1, <1>2, <1>3, <1>4, <1>5, <1>7, <1>8, <1>9

\* A node to resume at, and the answers it is given, are well typed.
LEMMA ResumeTyped ==
    ASSUME TypeOK, NEW t
    PROVE  /\ ResumeNodes(t) \subseteq Name
           /\ SavedAnswers(t) \in Seq(Name)
           /\ \A reply \in Replies : reply \in Seq(Name)
<1>1. \A channel : WritesOf(t, channel) \subseteq PendingWrite
  BY DEF TypeOK, SaverType, WritesOf
<1>2. \A w \in PendingWrite : w.node \in Name /\ w.answers \in Seq(Name)
  BY DEF PendingWrite
<1>3. NextOfKeys(t) \subseteq Name
  <2> SUFFICES ASSUME NEW k \in Keys(t), NEW n \in Single(Edges[k]) PROVE n \in Name
    BY DEF NextOfKeys
  <2>1. Edges[k] \subseteq Seq(Task)
    BY GraphAssumption DEF Keys
  <2>2. PICK tasks \in Edges[k] : Len(tasks) = 1 /\ tasks[1].type = "Pull" /\ n = tasks[1].node
    BY DEF Single
  <2>3. tasks[1] \in Task
    <3>1. tasks \in Seq(Task) /\ 1 \in 1 .. Len(tasks)
      BY <2>1, <2>2
    <3> QED
      BY <3>1, ElementOfSeq
  <2> QED
    BY <2>2, <2>3 DEF Task
<1>4. ResumeNodes(t) \subseteq Name
  <2>1. {w.node : w \in WritesOf(t, "__interrupt__")} \subseteq Name
        /\ {w.node : w \in WritesOf(t, "marker")} \cap InterruptBefore \subseteq Name
    BY <1>1, <1>2
  <2>2. EntryField \in Name
    BY ThreadAssumption
  <2> QED
    BY <1>3, <2>1, <2>2 DEF ResumeNodes
<1>5. SavedAnswers(t) \in Seq(Name)
  <2> DEFINE asked == WritesOf(t, "__interrupt__")
  <2>1. CASE asked = {}
    BY <2>1 DEF SavedAnswers
  <2>2. CASE asked # {}
    <3>1. (CHOOSE w \in asked : TRUE) \in asked
      BY <2>2
    <3>2. (CHOOSE w \in asked : TRUE).answers \in Seq(Name)
      BY <1>1, <1>2, <3>1
    <3> QED
      BY <2>2, <3>2 DEF SavedAnswers
  <2> QED
    BY <2>1, <2>2
<1>6. ASSUME NEW reply \in Replies PROVE reply \in Seq(Name)
  <2>1. Node \subseteq Name
    BY GraphAssumption
  <2>2. CASE reply = <<>>
    BY <2>2
  <2>3. CASE reply # <<>>
    <3>1. PICK n \in Node : reply = <<n>>
      BY <2>3 DEF Replies
    <3> QED
      BY <2>1, <3>1
  <2> QED
    BY <2>2, <2>3
<1> QED
  BY <1>4, <1>5, <1>6

\* What the user was told is well typed.
LEMMA AskedTyped ==
    ASSUME GraphTypeOK
    PROVE  /\ Asked \in [ckpt : Nat, node : SUBSET Name]
           /\ LoadInvoke \/ LoadResume \/ LoadUpdate => UserType'
<1>1. outcome.ckpt \in Nat /\ outcome.node \subseteq Name
  BY DEF GraphTypeOK, TypeOK, LoopType, Outcome
<1>2. Asked \in [ckpt : Nat, node : SUBSET Name]
  BY <1>1 DEF Asked, GraphTypeOK, UserType
<1>3. LoadInvoke \/ LoadResume \/ LoadUpdate => question' = Asked /\ heeded' \in BOOLEAN
  BY DEF LoadInvoke, LoadResume, LoadUpdate, Told, GraphTypeOK, UserType
<1> QED
  BY <1>2, <1>3 DEF UserType

\* The first half of a call keeps the types.
LEMMA LoadsTyped ==
    ASSUME TypeInv, GraphTypeOK, LoadInvoke \/ LoadResume \/ LoadUpdate
    PROVE  TypeInv' /\ GraphTypeOK'
<1>0. EntryField \in Name /\ Inputs \subseteq SUBSET Key
  BY ThreadAssumption
<1>u. UserType'
  BY AskedTyped
<1>1. CASE LoadInvoke
  <2>1. PICK how \in CheckpointIds, input \in Inputs : \E t \in Chosen(how) :
            /\ Load(t, input)
            /\ versions_seen' = t.seen_versions
            /\ request' = [NoRequest EXCEPT !.op = "invoke", !.writes = input]
    BY <1>1 DEF LoadInvoke
  <2>2. PICK t \in Chosen(how) :
            /\ Load(t, input)
            /\ versions_seen' = t.seen_versions
            /\ request' = [NoRequest EXCEPT !.op = "invoke", !.writes = input]
    BY <2>1
  <2>3. Loadable(t) /\ input \in SUBSET Key
    BY <1>0, TuplesLoadable DEF TypeInv
  <2>4. request' \in Request
    <3>1. request' = [op |-> "invoke", writes |-> input, node |-> EntryField, answers |-> <<>>]
      BY <2>2 DEF NoRequest
    <3> QED
      BY <1>0, <2>3, <3>1 DEF Request
  <2>5. versions_seen' \in [Name -> [Chan -> Nat]]
    BY <2>2, <2>3 DEF Loadable
  <2> QED
    BY <1>u, <2>2, <2>3, <2>4, <2>5, LoadTyped DEF TypeInv, TypeOK, GraphTypeOK, StateType
<1>2. CASE LoadResume
  <2>1. PICK update \in {{}} \cup Inputs, reply \in Replies, n \in ResumeNodes(Latest) :
            /\ Load(Latest, update)
            /\ request' = [op |-> "resume", writes |-> update, node |-> n,
                           answers |-> SavedAnswers(Latest) \o reply]
    BY <1>2 DEF LoadResume
  <2>2. Loadable(Latest) /\ update \in SUBSET Key /\ versions_seen' = Latest.seen_versions
    BY <1>0, <1>2, TuplesLoadable DEF TypeInv, LoadResume
  <2>3. n \in Name /\ SavedAnswers(Latest) \in Seq(Name) /\ reply \in Seq(Name)
    BY ResumeTyped DEF TypeInv
  <2>4. SavedAnswers(Latest) \o reply \in Seq(Name)
    BY <2>3, ConcatProperties
  <2>5. request' \in Request
    BY <2>1, <2>2, <2>3, <2>4 DEF Request
  <2>6. versions_seen' \in [Name -> [Chan -> Nat]]
    BY <2>2 DEF Loadable
  <2> QED
    BY <1>u, <2>1, <2>2, <2>5, <2>6, LoadTyped DEF TypeInv, TypeOK, GraphTypeOK, StateType
<1>3. CASE LoadUpdate
  <2>1. PICK input \in Inputs, as_node \in SUBSET Node :
            /\ Load(Newest, input)
            /\ versions_seen' = [n \in Name |-> IF n \in as_node THEN channel_versions'
                                                ELSE Newest.seen_versions[n]]
            /\ request' = [NoRequest EXCEPT !.op = "update", !.writes = input]
    BY <1>3 DEF LoadUpdate
  <2>2. Loadable(Newest) /\ input \in SUBSET Key
    BY <1>0, TuplesLoadable DEF TypeInv
  <2>3. request' \in Request
    <3>1. request' = [op |-> "update", writes |-> input, node |-> EntryField, answers |-> <<>>]
      BY <2>1 DEF NoRequest
    <3> QED
      BY <1>0, <2>2, <3>1 DEF Request
  <2>4. channel_versions' \in [Chan -> Nat]
    BY <2>1, <2>2, LoadTyped
  <2>5. versions_seen' \in [Name -> [Chan -> Nat]]
    BY <2>1, <2>2, <2>4 DEF Loadable
  <2> QED
    BY <1>u, <2>1, <2>2, <2>3, <2>5, LoadTyped DEF TypeInv, TypeOK, GraphTypeOK, StateType
<1> QED
  BY <1>1, <1>2, <1>3

LEMMA StartsTyped == Single(StartEdge) \cup {EntryField} \subseteq Name
<1>1. EntryField \in Name /\ StartEdge \subseteq Seq(Task)
  BY ThreadAssumption
<1>2. ASSUME NEW n \in Single(StartEdge) PROVE n \in Name
  <2>1. PICK tasks \in StartEdge : Len(tasks) = 1 /\ tasks[1].type = "Pull" /\ n = tasks[1].node
    BY DEF Single
  <2>2. tasks \in Seq(Task) /\ 1 \in 1 .. Len(tasks)
    BY <1>1, <2>1
  <2>3. tasks[1] \in Task
    BY <2>2, ElementOfSeq
  <2> QED
    BY <2>1, <2>3 DEF Task
<1> QED
  BY <1>1, <1>2

\* A saved call keeps the types of the saver.
LEMMA SaveKeepsTypes ==
    ASSUME TypeOK, NEW source \in {"Input", "Loop", "Resume", "Update"},
           NEW writes \in SUBSET Key, SaveCheckpoint(source, step, writes),
           UNCHANGED <<inflight, pending_writes, announced>>
    PROVE  SaverType' /\ last_ckpt_id' \in Nat
<1>1. step \in Nat
  BY DEF TypeOK, LoopType
<1>2. last_ckpt_id' \in Nat /\ uuids' \in Nat /\ store' \in Seq(CheckpointType)
  BY <1>1, SaveTyped
<1> QED
  BY <1>2 DEF TypeOK, SaverType

\* The second half of a call keeps the types.
LEMMA BeginsTyped ==
    ASSUME GraphInv,
           BeginInvoke \/ BeginWithoutEntry \/ BeginResume \/ SaveUpdate \/ CallFails
    PROVE  TypeInv' /\ GraphTypeOK'
<1>0. /\ request.writes \in SUBSET Key /\ request.node \in Name
      /\ request.answers \in Seq(Name) /\ NoRequest \in Request
      /\ step \in Nat /\ step + 1 \in Nat /\ LoopType /\ last_ckpt_id \in Nat /\ TypeInv
  BY ThreadAssumption DEF GraphInv, GraphTypeOK, Request, NoRequest, TypeOK, LoopType, SaverType
<1>1. CASE BeginInvoke
  <2>1. PICK n \in Name : Execute(n, step + 1, last_ckpt_id', FALSE, <<>>)
    BY <1>1, StartsTyped DEF BeginInvoke
  <2>2. LoopType' /\ ResultType' /\ RoutingType' /\ ZipIsTotal'
    <3>1. <<>> \in Seq(Name) /\ FALSE \in BOOLEAN /\ cancel' = cancel
      BY <1>1 DEF BeginInvoke
    <3> QED
      BY <1>0, <2>1, <3>1, ExecuteTyped
  <2>3. SaverType'
    BY <1>0, <1>1, SaveKeepsTypes DEF BeginInvoke, TypeInv
  <2>4. StateType'
    BY <1>0, <1>1, Frame DEF BeginInvoke, TypeInv, TypeOK
  <2>5. request' = NoRequest /\ calls' = calls /\ user' = user
    BY <1>1 DEF BeginInvoke, Begun
  <2> QED
    BY <1>0, <2>2, <2>3, <2>4, <2>5 DEF TypeInv, TypeOK, GraphInv, GraphTypeOK, UserType, user
<1>2. CASE BeginResume
  <2>1. Execute(request.node, step + 1, last_ckpt_id', TRUE, request.answers)
    BY <1>2 DEF BeginResume
  <2>2. LoopType' /\ ResultType' /\ RoutingType' /\ ZipIsTotal'
    <3>1. TRUE \in BOOLEAN /\ cancel' = cancel
      BY <1>2 DEF BeginResume
    <3> QED
      BY <1>0, <2>1, <3>1, ExecuteTyped
  <2>3. SaverType'
    BY <1>0, <1>2, SaveKeepsTypes DEF BeginResume, TypeInv
  <2>4. StateType'
    BY <1>0, <1>2, Frame DEF BeginResume, TypeInv, TypeOK
  <2>5. request' = NoRequest /\ calls' = calls /\ user' = user
    BY <1>2 DEF BeginResume, Begun
  <2> QED
    BY <1>0, <2>2, <2>3, <2>4, <2>5 DEF TypeInv, TypeOK, GraphInv, GraphTypeOK, UserType, user
<1>3. CASE BeginWithoutEntry \/ SaveUpdate \/ CallFails
  <2>1. SaverType'
    <3>1. CASE BeginWithoutEntry \/ SaveUpdate
      BY <1>0, <3>1, SaveKeepsTypes DEF BeginWithoutEntry, SaveUpdate, TypeInv
    <3>2. CASE CallFails
      BY <1>0, <3>2, Frame DEF CallFails, locals, TypeInv, TypeOK
    <3> QED
      BY <1>3, <3>1, <3>2
  <2>2. /\ UNCHANGED <<loop, cancel, results, at, collected, routed, state>>
        /\ request' = NoRequest /\ calls' = calls /\ user' = user
    BY <1>3 DEF BeginWithoutEntry, SaveUpdate, CallFails, Begun, locals
  <2>3. ResultType' /\ RoutingType' /\ StateType'
    BY <1>0, <2>2, Frame DEF TypeInv, TypeOK
  <2>4. outcome' \in Outcome /\ pc' \in {"ended", pc}
    <3>1. last_ckpt_id' \in Nat
      BY <2>1 DEF SaverType
    <3>2. CASE BeginWithoutEntry \/ CallFails
      BY <1>0, <3>1, <3>2, ReturnTyped DEF BeginWithoutEntry, CallFails, Reason
    <3>3. CASE SaveUpdate
      BY <1>0, <3>3 DEF SaveUpdate, LoopType
    <3> QED
      BY <1>3, <3>2, <3>3
  <2>5. LoopType'
    BY <1>0, <2>2, <2>4 DEF LoopType, loop
  <2>6. ZipIsTotal'
    <3>1. Resting
      BY <1>3 DEF GraphInv, RestInv, BeginWithoutEntry, SaveUpdate, CallFails, Begun, NoRequest
    <3> QED
      BY <1>0, <2>2, <2>4, <3>1 DEF TypeInv, ZipIsTotal, results, Resting
  <2> QED
    BY <1>0, <2>1, <2>2, <2>3, <2>5, <2>6 DEF TypeInv, TypeOK, GraphInv, GraphTypeOK, UserType, user
<1> QED
  BY <1>1, <1>2, <1>3

\* A crash keeps the types.
LEMMA CrashTyped ==
    ASSUME GraphInv, Crash
    PROVE  TypeInv' /\ GraphTypeOK'
<1>0. TypeInv /\ GraphTypeOK /\ NoRequest \in Request /\ NoOutcome \in Outcome
  BY ThreadAssumption DEF GraphInv, Request, NoRequest, NoOutcome, Outcome, Reason
<1>1. /\ pc' = "idle" /\ request' = NoRequest /\ outcome' = NoOutcome /\ running' = {}
      /\ inflight' \subseteq inflight /\ calls' = calls
      /\ UNCHANGED <<loop, last_ckpt_id, task_results, at, collected, routed, state,
                     cancel, store, pending_writes, uuids, announced>>
  BY DEF Crash
<1>2. LoopType'
  BY <1>0, <1>1 DEF TypeInv, TypeOK, LoopType, loop
<1>3. ResultType'
  BY <1>0, <1>1 DEF TypeInv, TypeOK, ResultType, collected
<1>4. RoutingType' /\ StateType'
  BY <1>0, <1>1, Frame DEF TypeInv, TypeOK
<1>5. SaverType'
  BY <1>0, <1>1 DEF TypeInv, TypeOK, SaverType
<1>6. ZipIsTotal'
  BY <1>1 DEF ZipIsTotal
<1>7. UserType'
  <2>1. question' \in {question, Asked} /\ heeded' = heeded
    BY DEF Crash
  <2> QED
    BY <1>0, <2>1, AskedTyped DEF GraphTypeOK, UserType
<1> QED
  BY <1>0, <1>1, <1>2, <1>3, <1>4, <1>5, <1>6, <1>7 DEF TypeInv, TypeOK, GraphTypeOK

-----------------------------------------------------------------------------
(* Steps of the loop inside a thread.                                      *)

\* A step of the running call is a step of the loop's own specification.
LEMMA RunningIsNext ==
    ASSUME Running PROVE [Next]_vars /\ UNCHANGED <<request, calls, user>>
BY DEF Running, Next, user

\* While no call runs, only the spawned saves and the user move.
LEMMA RestingSteps ==
    ASSUME Running, Resting
    PROVE  Background \/ Cancel
BY DEF Running, Resting, Engine, RecursionLimit, Finish, FinishFails, Cancelled, StopBefore, InLoop,
       ReadyToRun, StartTasks, NodeNotFound, TasksJoined, CollectParent, CollectUpdate, Merge,
       MergeFails, Collected, PersistSync, PersistFails, PersistAsync, PersistExit, StopAfter,
       BeginRouting, RouteGoto, RouteJoin, RouteEdge, RouteUnreachable, NoJoin, Routing,
       NextSuperstep, RunTask, TaskDone, TaskInterrupted, TaskFailed

\* A running call goes on without an outcome, or ends with one.
LEMMA ActiveSteps ==
    ASSUME Running, ~Resting
    PROVE  pc' = "ended" \/ (~Resting' /\ outcome' = outcome)
<1>1. CASE \/ RecursionLimit \/ Finish \/ FinishFails \/ Cancelled \/ StopBefore \/ NodeNotFound
           \/ MergeFails \/ PersistFails \/ StopAfter \/ RouteUnreachable
           \/ \E i \in running : TaskInterrupted(i) \/ TaskFailed(i)
  BY <1>1 DEF RecursionLimit, Finish, FinishFails, Cancelled, StopBefore, NodeNotFound, MergeFails,
              PersistFails, StopAfter, RouteUnreachable, TaskInterrupted, TaskFailed, Return
<1>2. CASE Merge
  BY <1>2 DEF Merge, Return, Resting
<1>3. CASE \/ StartTasks \/ TasksJoined \/ CollectParent \/ CollectUpdate \/ PersistSync
           \/ PersistAsync \/ PersistExit \/ BeginRouting \/ RouteGoto \/ RouteJoin \/ RouteEdge
           \/ NextSuperstep \/ Background \/ Cancel \/ \E i \in running : TaskDone(i)
  BY <1>3 DEF StartTasks, TasksJoined, CollectParent, CollectUpdate, PersistSync,
         PersistAsync, PersistExit, BeginRouting, RouteGoto, RouteJoin, RouteEdge, NextSuperstep,
         TaskDone, Background, DeliverPut, Cancel, Resting
<1> QED
  BY <1>1, <1>2, <1>3 DEF Running, Engine, RunTask

\* A graph compiled without a saver stores nothing.
LEMMA UnsavedSteps ==
    ASSUME Running, ~HasSaver, store = <<>>, pending_writes = {}, inflight = {}
    PROVE  store' = <<>> /\ pending_writes' = {} /\ inflight' = {}
<1>1. CASE StopBefore \/ \E i \in running : TaskInterrupted(i)
  BY <1>1 DEF StopBefore, TaskInterrupted, PutWrites
<1>2. CASE Finish \/ PersistSync \/ PersistAsync \/ PersistExit
  BY <1>2 DEF Finish, PersistSync, PersistAsync, PersistExit, SaveCheckpoint
<1>3. CASE \/ RecursionLimit \/ FinishFails \/ Cancelled \/ NodeNotFound
           \/ MergeFails \/ PersistFails \/ StopAfter \/ RouteUnreachable
           \/ StartTasks \/ TasksJoined \/ CollectParent \/ CollectUpdate \/ Merge
           \/ BeginRouting \/ RouteGoto \/ RouteJoin \/ RouteEdge
           \/ NextSuperstep \/ Cancel \/ \E i \in running : TaskDone(i) \/ TaskFailed(i)
  BY <1>3 DEF RecursionLimit, FinishFails, Cancelled, NodeNotFound, MergeFails, PersistFails,
         StopAfter, RouteUnreachable, StartTasks, TasksJoined, CollectParent, CollectUpdate, Merge,
         BeginRouting, RouteGoto, RouteJoin, RouteEdge, NextSuperstep, TaskDone, TaskFailed,
         Cancel, saver
<1>4. ~Background
  BY DEF Background
<1> QED
  BY <1>1, <1>2, <1>3, <1>4 DEF Running, Engine, RunTask

LEMMA RestKept ==
    ASSUME GraphInv, [GraphNext]_graphVars
    PROVE  RestInv'
<1>0. RestInv
  BY DEF GraphInv
<1>1. CASE LoadInvoke \/ LoadResume \/ LoadUpdate
  <2>1. /\ Resting /\ durability' \in Durabilities
        /\ UNCHANGED <<pc, store, pending_writes, inflight>>
    BY <1>1 DEF LoadInvoke, LoadResume, LoadUpdate, Load, Resting, saver
  <2> QED
    BY <1>0, <2>1 DEF RestInv, Resting
<1>2. CASE BeginInvoke \/ BeginResume
  <2>1. /\ request' = NoRequest /\ outcome' = NoOutcome /\ durability' = durability
        /\ UNCHANGED <<pending_writes, inflight>>
    BY <1>2 DEF BeginInvoke, BeginResume, Begun, Execute
  <2>2. ~HasSaver => store' = store
    BY <1>2 DEF BeginInvoke, BeginResume, SaveCheckpoint
  <2> QED
    BY <1>0, <2>1, <2>2 DEF RestInv
<1>3. CASE BeginWithoutEntry \/ SaveUpdate \/ CallFails
  <2>1. Resting /\ (pc' = "ended" \/ pc' = pc)
    BY <1>0, <1>3 DEF RestInv, BeginWithoutEntry, SaveUpdate, CallFails, Begun, NoRequest, Return
  <2>2. durability' = durability /\ UNCHANGED <<pending_writes, inflight>>
    BY <1>3 DEF BeginWithoutEntry, SaveUpdate, CallFails, loop, locals, saver
  <2>3. ~HasSaver => store' = store
    BY <1>3 DEF BeginWithoutEntry, SaveUpdate, CallFails, SaveCheckpoint, saver
  <2> QED
    BY <1>0, <2>1, <2>2, <2>3 DEF RestInv, Resting
<1>4. CASE Crash
  <2>1. pc' = "idle" /\ durability' = durability /\ inflight' \in {inflight, {}}
        /\ UNCHANGED <<store, pending_writes>>
    BY <1>4 DEF Crash, loop
  <2> QED
    BY <1>0, <2>1 DEF RestInv, Resting
<1>5. CASE Running
  <2>1. durability' = durability /\ request' = request
    BY <1>5, RunningIsNext, DurabilityKept
  <2>2. ~HasSaver => store' = <<>> /\ pending_writes' = {} /\ inflight' = {}
    BY <1>0, <1>5, UnsavedSteps DEF RestInv
  <2>3. CASE Resting
    <3>1. pc' = pc
      BY <1>5, <2>3, RestingSteps DEF Background, DeliverPut, Cancel
    <3> QED
      BY <1>0, <2>1, <2>2, <2>3, <3>1 DEF RestInv, Resting
  <2>4. CASE ~Resting
    BY <1>0, <1>5, <2>1, <2>2, <2>4, ActiveSteps DEF RestInv, Resting
  <2> QED
    BY <2>3, <2>4
<1>6. CASE UNCHANGED graphVars
  BY <1>0, <1>6 DEF RestInv, Resting, graphVars, vars, locals, loop, saver
<1> QED
  BY <1>1, <1>2, <1>3, <1>4, <1>5, <1>6 DEF GraphNext, GraphTerminated

\* Whatever calls are made, every variable keeps its type, the zip of results
\* and tasks stays total in each of them, and a call waits only for rest.
LEMMA GraphInductive == GraphSpec => []GraphInv
<1>1. GraphInit => GraphInv
  <2> SUFFICES ASSUME GraphInit PROVE GraphInv
    OBVIOUS
  <2>1. /\ LoopType /\ ResultType /\ RoutingType /\ StateType /\ ZipIsTotal
        /\ inflight = {} /\ pending_writes = {} /\ announced = {}
    BY IdleTyped DEF GraphInit
  <2>2. SaverType
    BY <2>1 DEF GraphInit, SaverType
  <2>3. request \in Request /\ calls \in Nat /\ UserType
    BY ThreadAssumption DEF GraphInit, NoRequest, Request, UserType, NoQuestion
  <2>4. RestInv
    BY <2>1 DEF GraphInit, Idle, RestInv, Resting
  <2> QED
    BY <2>1, <2>2, <2>3, <2>4 DEF GraphInv, TypeInv, TypeOK, GraphTypeOK
<1>2. GraphInv /\ [GraphNext]_graphVars => GraphInv'
  <2> SUFFICES ASSUME GraphInv, [GraphNext]_graphVars PROVE GraphInv'
    OBVIOUS
  <2>1. TypeInv /\ GraphTypeOK
    BY DEF GraphInv
  <2>2. TypeInv' /\ GraphTypeOK'
    <3>1. CASE Running
      <4>1. TypeInv'
        BY <2>1, <3>1, RunningIsNext, NextTyped, NextZip DEF TypeInv
      <4> QED
        BY <2>1, <3>1, <4>1, RunningIsNext DEF GraphTypeOK, UserType, user, TypeInv
    <3>2. CASE UNCHANGED graphVars
      <4>1. UNCHANGED vars /\ UNCHANGED <<request, calls, user>>
        BY <3>2 DEF graphVars
      <4>2. TypeInv'
        BY <2>1, <4>1, NextTyped, NextZip DEF TypeInv
      <4> QED
        BY <2>1, <4>1, <4>2 DEF GraphTypeOK, UserType, user, TypeInv
    <3> QED
      BY <2>1, <3>1, <3>2, LoadsTyped, BeginsTyped, CrashTyped DEF GraphNext, GraphTerminated
  <2> QED
    BY <2>2, RestKept DEF GraphInv
<1> QED
  BY <1>1, <1>2, PTL DEF GraphSpec

\* Every variable of a thread holds a value of its type, across all its calls
\* and crashes (compiled.rs).
THEOREM ThreadTypes == GraphSpec => []GraphTypeOK
<1>1. GraphInv => GraphTypeOK
  BY DEF GraphInv
<1> QED
  BY <1>1, GraphInductive, PTL

-----------------------------------------------------------------------------
(* Checkpoint ids and the entries of interrupts.                           *)

\* A call loads the defaults of a new thread or a stored checkpoint.
LEMMA LoadsStored ==
    ASSUME TypeOK, LoadInvoke \/ LoadResume \/ LoadUpdate
    PROVE  \E t : \E writes \in SUBSET Key :
               /\ t = NoTuple \/ \E i \in DOMAIN store : t = store[i]
               /\ Load(t, writes) /\ Loadable(t)
<1>0. Inputs \subseteq SUBSET Key
  BY ThreadAssumption
<1>1. CASE LoadInvoke
  <2>0. PICK how \in CheckpointIds, input \in Inputs : \E t \in Chosen(how) : Load(t, input)
    BY <1>1 DEF LoadInvoke
  <2>1. PICK t \in Chosen(how) : Load(t, input)
    BY <2>0
  <2>2. Loadable(t)
    BY TuplesLoadable
  <2>3. t = NoTuple \/ \E i \in DOMAIN store : t = store[i]
    <3>1. Newest = NoTuple \/ \E i \in DOMAIN store : Newest = store[i]
      BY TuplesLoadable DEF Newest
    <3> QED
      BY <3>1, ThreadAssumption DEF Chosen
  <2> QED
    BY <1>0, <2>1, <2>2, <2>3
<1>2. CASE LoadResume
  <2>1. PICK update \in {{}} \cup Inputs : Load(Latest, update)
    BY <1>2 DEF LoadResume
  <2>2. Loadable(Latest) /\ \E i \in DOMAIN store : Latest = store[i]
    BY <1>2, TuplesLoadable DEF LoadResume
  <2> QED
    BY <1>0, <2>1, <2>2
<1>3. CASE LoadUpdate
  <2>1. PICK input \in Inputs : Load(Newest, input)
    BY <1>3 DEF LoadUpdate
  <2>2. Loadable(Newest) /\ (Newest = NoTuple \/ \E i \in DOMAIN store : Newest = store[i])
    BY TuplesLoadable DEF Newest
  <2> QED
    BY <1>0, <2>1, <2>2
<1> QED
  BY <1>1, <1>2, <1>3

\* The steps of a running call that touch neither the saver nor the id.
LEMMA QuietSteps ==
    ASSUME Running, ~Finish, ~PersistSync, ~PersistAsync, ~PersistExit, ~StopBefore, ~Background,
           ~ \E i \in running : TaskInterrupted(i)
    PROVE  UNCHANGED <<last_ckpt_id, saver>>
BY DEF Running, Engine, RunTask, RecursionLimit, FinishFails, Cancelled, NodeNotFound, MergeFails,
       PersistFails, StopAfter, RouteUnreachable, StartTasks, TasksJoined, CollectParent,
       CollectUpdate, Merge, BeginRouting, RouteGoto, RouteJoin, RouteEdge, NextSuperstep,
       TaskDone, TaskFailed, Cancel, locals

\* No id at hand is younger than the last one drawn, and the running call's
\* checkpoint has no entry yet.
IdsInv ==
    /\ last_ckpt_id <= uuids
    /\ \A i \in DOMAIN store : store[i].id <= uuids
    /\ \A c \in inflight : c.id <= uuids
    /\ \A w \in pending_writes : w.ckpt <= uuids
    /\ ~Resting => \A w \in pending_writes : w.ckpt # last_ckpt_id
    /\ InterruptOnce

\* A saved checkpoint takes a new id.
LEMMA SaveIds ==
    ASSUME TypeOK, IdsInv, ~HasSaver => pending_writes = {},
           NEW source, NEW n, NEW writes, SaveCheckpoint(source, n, writes),
           UNCHANGED <<inflight, pending_writes>>
    PROVE  IdsInv'
<1>0. /\ uuids \in Nat /\ store \in Seq(CheckpointType) /\ inflight \subseteq CheckpointType
      /\ pending_writes \subseteq PendingWrite
  BY DEF TypeOK, SaverType
<1>1. CASE ~HasSaver
  BY <1>0, <1>1 DEF SaveCheckpoint, IdsInv, InterruptOnce
<1>2. CASE HasSaver
  <2> DEFINE c == NewCheckpoint(uuids', last_ckpt_id, source, n, channels, writes)
  <2>1. uuids' = uuids + 1 /\ last_ckpt_id' = uuids' /\ store' = Append(store, c)
    BY <1>2 DEF SaveCheckpoint
  <2>2. c.id = uuids'
    BY DEF NewCheckpoint
  <2> HIDE DEF c
  <2>3. \A i \in DOMAIN store' : store'[i].id <= uuids'
    <3> SUFFICES ASSUME NEW i \in DOMAIN store' PROVE store'[i].id <= uuids'
      OBVIOUS
    <3>1. CASE i = Len(store) + 1
      BY <1>0, <2>1, <2>2, <3>1
    <3>2. CASE i # Len(store) + 1
      <4>1. i \in DOMAIN store /\ store'[i] = store[i] /\ store[i] \in CheckpointType
        BY <1>0, <2>1, <3>2
      <4> QED
        BY <1>0, <2>1, <4>1 DEF IdsInv, CheckpointType
    <3> QED
      BY <3>1, <3>2
  <2>4. \A x \in inflight : x.id <= uuids'
    BY <1>0, <2>1 DEF IdsInv, CheckpointType
  <2>5. \A w \in pending_writes : w.ckpt <= uuids' /\ w.ckpt # last_ckpt_id'
    BY <1>0, <2>1 DEF IdsInv, PendingWrite
  <2> QED
    BY <1>0, <2>1, <2>3, <2>4, <2>5 DEF IdsInv, InterruptOnce
<1> QED
  BY <1>1, <1>2

\* Only the end of a call enters an interrupt, and a call ends once.
LEMMA PutIds ==
    ASSUME TypeOK, IdsInv, ~Resting, pc' = "ended", NEW w, w.ckpt = last_ckpt_id, PutWrites(w),
           UNCHANGED <<last_ckpt_id, store, inflight, uuids>>
    PROVE  IdsInv'
<1>1. pending_writes' \in {pending_writes, pending_writes \cup {w}}
  BY DEF PutWrites
<1>2. InterruptOnce'
  BY <1>1 DEF IdsInv, InterruptOnce
<1>3. \A v \in pending_writes' : v.ckpt <= uuids
  BY <1>1 DEF IdsInv
<1> QED
  BY <1>2, <1>3 DEF IdsInv, Resting

LEMMA IdsRunning ==
    ASSUME GraphInv, IdsInv, Running
    PROVE  IdsInv'
<1>0. /\ TypeOK
      /\ ~HasSaver => pending_writes = {}
      /\ uuids \in Nat /\ store \in Seq(CheckpointType) /\ inflight \subseteq CheckpointType
      /\ pending_writes \subseteq PendingWrite
  BY DEF GraphInv, TypeInv, TypeOK, SaverType, RestInv
<1>1. CASE PersistSync \/ (Finish /\ durability = "Exit")
  BY <1>0, <1>1, SaveIds DEF PersistSync, Finish
<1>2. CASE PersistAsync \/ PersistExit
  <2> DEFINE c == NewCheckpoint(uuids', last_ckpt_id', "Loop", step, channels, Written)
  <2>1. /\ uuids' = uuids + 1 /\ last_ckpt_id' = uuids' /\ UNCHANGED <<store, pending_writes>>
        /\ inflight' \subseteq inflight \cup {c}
    BY <1>2 DEF PersistAsync, PersistExit
  <2>2. c.id = uuids'
    BY DEF NewCheckpoint
  <2> HIDE DEF c
  <2>3. \A i \in DOMAIN store : store[i].id <= uuids'
    <3> SUFFICES ASSUME NEW i \in DOMAIN store PROVE store[i].id <= uuids'
      OBVIOUS
    <3>1. store[i] \in CheckpointType
      BY <1>0
    <3>2. store[i].id \in Nat
      BY <3>1 DEF CheckpointType
    <3> QED
      BY <1>0, <2>1, <3>2 DEF IdsInv
  <2>4. \A x \in inflight' : x.id <= uuids'
    BY <1>0, <2>1, <2>2 DEF IdsInv, CheckpointType
  <2>5. \A w \in pending_writes : w.ckpt <= uuids' /\ w.ckpt # last_ckpt_id'
    BY <1>0, <2>1 DEF IdsInv, PendingWrite
  <2> QED
    BY <1>0, <2>1, <2>3, <2>4, <2>5 DEF IdsInv, InterruptOnce
<1>3. CASE StopBefore
  <2>1. pc = "top" /\ pc' = "ended" /\ UNCHANGED <<last_ckpt_id, store, inflight, uuids>>
    BY <1>3 DEF StopBefore, InLoop, Return, locals
  <2>2. PICK w : w.ckpt = last_ckpt_id /\ PutWrites(w)
    BY <1>3 DEF StopBefore
  <2> QED
    BY <1>0, <2>1, <2>2, PutIds DEF Resting
<1>4. ASSUME NEW i \in running, TaskInterrupted(i)
      PROVE  IdsInv'
  <2>1. pc = "run" /\ pc' = "ended" /\ UNCHANGED <<last_ckpt_id, store, inflight, uuids>>
    BY <1>4 DEF TaskInterrupted, Return
  <2>2. PICK w : w.ckpt = last_ckpt_id /\ PutWrites(w)
    BY <1>4 DEF TaskInterrupted
  <2> QED
    BY <1>0, <2>1, <2>2, PutIds DEF Resting
<1>5. CASE Background
  <2>1. PICK c \in inflight : /\ inflight' = inflight \ {c}
                              /\ store' = Append(store, c) \/ store' = store
                              /\ UNCHANGED <<pc, last_ckpt_id, pending_writes, uuids>>
    BY <1>5 DEF Background, DeliverPut, locals
  <2>2. \A i \in DOMAIN store' : store'[i].id <= uuids
    BY <1>0, <2>1 DEF IdsInv
  <2> QED
    BY <2>1, <2>2 DEF IdsInv, Resting, InterruptOnce
<1>6. CASE UNCHANGED <<last_ckpt_id, saver>>
  <2>1. Resting => Resting'
    BY RestingSteps DEF Background, DeliverPut, Cancel, Resting
  <2> QED
    BY <1>6, <2>1 DEF IdsInv, InterruptOnce, saver
<1>7. Finish /\ durability # "Exit" => UNCHANGED <<last_ckpt_id, saver>>
  BY DEF Finish, saver
<1> QED
  BY <1>1, <1>2, <1>3, <1>4, <1>5, <1>6, <1>7, QuietSteps

LEMMA IdsKept ==
    ASSUME GraphInv, IdsInv, [GraphNext]_graphVars
    PROVE  IdsInv'
<1>0. /\ TypeOK
      /\ ~HasSaver => pending_writes = {}
      /\ uuids \in Nat /\ store \in Seq(CheckpointType) /\ inflight \subseteq CheckpointType
  BY DEF GraphInv, TypeInv, TypeOK, SaverType, RestInv
<1>1. CASE LoadInvoke \/ LoadResume \/ LoadUpdate
  <2>0. PICK t : \E writes \in SUBSET Key :
            /\ t = NoTuple \/ \E i \in DOMAIN store : t = store[i]
            /\ Load(t, writes) /\ Loadable(t)
    BY <1>0, <1>1, LoadsStored
  <2>1. PICK writes \in SUBSET Key :
            /\ t = NoTuple \/ \E i \in DOMAIN store : t = store[i]
            /\ Load(t, writes)
    BY <2>0
  <2>2. last_ckpt_id' = t.id /\ pc' = pc /\ Resting /\ UNCHANGED saver
    BY <2>1 DEF Load, Resting
  <2>3. t.id <= uuids
    BY <1>0, <2>1 DEF NoTuple, IdsInv
  <2> QED
    BY <2>2, <2>3 DEF IdsInv, Resting, InterruptOnce, saver
<1>2. CASE BeginInvoke \/ BeginWithoutEntry \/ BeginResume \/ SaveUpdate
  BY <1>0, <1>2, SaveIds DEF BeginInvoke, BeginWithoutEntry, BeginResume, SaveUpdate
<1>3. CASE CallFails
  <2>1. UNCHANGED <<locals, saver>> /\ pc' = "ended"
    BY <1>3 DEF CallFails, Return
  <2> QED
    BY <2>1 DEF IdsInv, Resting, InterruptOnce, locals, saver
<1>4. CASE Crash
  <2>1. /\ pc' = "idle" /\ inflight' \subseteq inflight
        /\ UNCHANGED <<last_ckpt_id, store, pending_writes, uuids>>
    BY <1>4 DEF Crash
  <2> QED
    BY <2>1 DEF IdsInv, Resting, InterruptOnce
<1>5. CASE UNCHANGED graphVars
  BY <1>5 DEF IdsInv, Resting, InterruptOnce, graphVars, vars, locals, saver
<1> QED
  BY <1>1, <1>2, <1>3, <1>4, <1>5, IdsRunning DEF GraphNext, GraphTerminated

LEMMA IdsInductive == GraphSpec => [](GraphInv /\ IdsInv)
<1>1. GraphInit => IdsInv
  <2> SUFFICES ASSUME GraphInit PROVE IdsInv
    OBVIOUS
  <2>1. /\ pc = "idle" /\ last_ckpt_id = 0 /\ uuids = 0 /\ store = <<>>
        /\ inflight = {} /\ pending_writes = {}
    BY DEF GraphInit, Idle
  <2> QED
    BY <2>1 DEF IdsInv, Resting, InterruptOnce
<1>2. GraphInv /\ IdsInv /\ [GraphNext]_graphVars => IdsInv'
  BY IdsKept
<1> QED
  BY <1>1, <1>2, GraphInductive, PTL DEF GraphSpec

\* A checkpoint carries the entries of one interrupt at most, whatever the
\* durability, the calls and the crashes: determine_resume_node never has to
\* choose between two (engine.rs:449).
THEOREM OneInterrupt == GraphSpec => []InterruptOnce
<1>1. IdsInv => InterruptOnce
  BY DEF IdsInv
<1> QED
  BY <1>1, IdsInductive, PTL

-----------------------------------------------------------------------------
(* Interrupts and the resumes that follow.                                 *)

Interrupts == {"InterruptBefore", "NodeInterrupt"}

\* The entry of the interrupt the user was told of.
EntryOf(w) ==
    /\ w.ckpt = outcome.ckpt /\ outcome.node = {w.node} /\ w.index = Len(w.answers)
    /\ outcome.why = "InterruptBefore" => w.channel = "marker" /\ w.node \in InterruptBefore
    /\ outcome.why = "NodeInterrupt" => /\ w.channel = "__interrupt__"
                                        /\ w.answers = current_resume_values

\* The node and the answers it is to be given, if w is where it stopped.
Continues(node, answers) ==
    /\ outcome.node = {node}
    /\ outcome.why = "NodeInterrupt" =>
          \E reply \in Replies :
              answers = current_resume_values \o reply

\* While the user holds an interrupt its entry is there, and a resume that
\* has loaded the interrupted checkpoint is about to continue it.
InterruptInv ==
    outcome.why \in Interrupts =>
        /\ HasSaver => \E w \in pending_writes : EntryOf(w)
        /\ request.op = "resume" /\ outcome.ckpt = last_ckpt_id =>
              Continues(request.node, request.answers)

\* The outcomes of the other ends of a call.
LEMMA OtherEnds ==
    ASSUME Running, ~Resting, outcome = NoOutcome,
           ~StopBefore, ~ \E i \in running : TaskInterrupted(i)
    PROVE  outcome'.why \notin Interrupts
<1>1. ASSUME NEW kind, NEW why, NEW node, NEW ckpt, why \notin Interrupts,
             Return(kind, why, node, ckpt)
      PROVE  outcome'.why \notin Interrupts
  BY <1>1 DEF Return
<1>2. CASE \/ RecursionLimit \/ Finish \/ FinishFails \/ Cancelled \/ NodeNotFound
           \/ MergeFails \/ PersistFails \/ RouteUnreachable
  BY <1>1, <1>2 DEF Interrupts, RecursionLimit, Finish, FinishFails, Cancelled, NodeNotFound,
                    MergeFails, PersistFails, RouteUnreachable
<1>3. CASE StopAfter
  BY <1>1, <1>3 DEF Interrupts, StopAfter
<1>4. ASSUME NEW i \in running, TaskFailed(i)
      PROVE  outcome'.why \notin Interrupts
  BY <1>1, <1>4 DEF Interrupts, TaskFailed
<1>5. CASE outcome' = outcome
  BY <1>5 DEF Interrupts, NoOutcome
<1>6. CASE Merge
  BY <1>1, <1>5, <1>6 DEF Interrupts, Merge
<1>7. CASE \/ StartTasks \/ TasksJoined \/ CollectParent \/ CollectUpdate \/ PersistSync
           \/ PersistAsync \/ PersistExit \/ BeginRouting \/ RouteGoto \/ RouteJoin \/ RouteEdge
           \/ NextSuperstep \/ Background \/ Cancel \/ \E i \in running : TaskDone(i)
  BY <1>5, <1>7 DEF StartTasks, TasksJoined, CollectParent, CollectUpdate, PersistSync,
         PersistAsync, PersistExit, BeginRouting, RouteGoto, RouteJoin, RouteEdge, NextSuperstep,
         TaskDone, Background, DeliverPut, Cancel
<1> QED
  BY <1>2, <1>3, <1>4, <1>6, <1>7 DEF Running, Engine, RunTask

\* An interrupt enters its node under the checkpoint it returns.
LEMMA InterruptPut ==
    ASSUME "saver" \notin Faults, HasSaver,
           StopBefore \/ \E i \in running : TaskInterrupted(i)
    PROVE  \E w \in pending_writes' : EntryOf(w)'
<1>1. CASE StopBefore
  <2> DEFINE n == pending_tasks[1].node
  <2>1. n \in InterruptBefore
    BY <1>1 DEF StopBefore, Guarded
  <2>2. PICK w \in pending_writes' :
            w = [ckpt |-> last_ckpt_id, channel |-> "marker", node |-> n,
                 index |-> 0, answers |-> <<>>]
    BY <1>1 DEF StopBefore, PutWrites
  <2>3. outcome' = [kind |-> "Interrupted", why |-> "InterruptBefore", node |-> {n},
                    ckpt |-> last_ckpt_id]
    BY <1>1 DEF StopBefore, Return
  <2>4. w.index = Len(w.answers)
    BY <2>2
  <2> QED
    BY <2>1, <2>2, <2>3, <2>4 DEF EntryOf
<1>2. ASSUME NEW i \in running, TaskInterrupted(i)
      PROVE  \E w \in pending_writes' : EntryOf(w)'
  <2> DEFINE n == pending_tasks[i].node
  <2>1. PICK w \in pending_writes' :
            w = [ckpt |-> last_ckpt_id, channel |-> "__interrupt__", node |-> n,
                 index |-> Len(current_resume_values), answers |-> current_resume_values]
    BY <1>2 DEF TaskInterrupted, PutWrites
  <2>2. outcome' = [kind |-> "Interrupted", why |-> "NodeInterrupt", node |-> {n},
                    ckpt |-> last_ckpt_id]
        /\ current_resume_values' = current_resume_values
    BY <1>2 DEF TaskInterrupted, Return, loop
  <2> QED
    BY <2>1, <2>2 DEF EntryOf
<1> QED
  BY <1>1, <1>2

\* A resume that loads the interrupted checkpoint finds the entry.
LEMMA ResumeFinds ==
    ASSUME GraphInv, IdsInv, InterruptInv, outcome.why \in Interrupts,
           LoadResume, outcome.ckpt = Latest.id
    PROVE  Continues(request'.node, request'.answers)
<1>1. PICK update \in {{}} \cup Inputs, reply \in Replies, n \in ResumeNodes(Latest) :
          request' = [op |-> "resume", writes |-> update, node |-> n,
                      answers |-> SavedAnswers(Latest) \o reply]
  BY DEF LoadResume
<1>2. request'.node = n /\ request'.answers = SavedAnswers(Latest) \o reply
  BY <1>1
<1>3. PICK w \in pending_writes : EntryOf(w)
  BY DEF LoadResume, GraphInv, RestInv, InterruptInv
<1>4. \A v \in pending_writes : v.ckpt = Latest.id => v = w
  BY <1>3 DEF EntryOf, IdsInv, InterruptOnce
<1>5. CASE outcome.why = "NodeInterrupt"
  <2>1. WritesOf(Latest, "__interrupt__") = {w}
    BY <1>3, <1>4, <1>5 DEF EntryOf, WritesOf
  <2>2. n = w.node /\ SavedAnswers(Latest) = w.answers
    BY <2>1 DEF ResumeNodes, SavedAnswers
  <2> QED
    BY <1>2, <1>3, <1>5, <2>2 DEF EntryOf, Continues
<1>6. CASE outcome.why = "InterruptBefore"
  <2>1. WritesOf(Latest, "__interrupt__") = {} /\ WritesOf(Latest, "marker") = {w}
    BY <1>3, <1>4, <1>6 DEF EntryOf, WritesOf
  <2>2. w.node \in InterruptBefore
    BY <1>3, <1>6 DEF EntryOf
  <2>3. n = w.node
    BY <2>1, <2>2 DEF ResumeNodes
  <2> QED
    BY <1>2, <1>3, <1>6, <2>3 DEF EntryOf, Continues
<1> QED
  BY <1>5, <1>6 DEF Interrupts

LEMMA InterruptKept ==
    ASSUME "saver" \notin Faults, GraphInv, IdsInv, InterruptInv, [GraphNext]_graphVars
    PROVE  InterruptInv'
<1>1. CASE LoadInvoke \/ LoadUpdate
  <2>1. /\ UNCHANGED <<outcome, pending_writes, current_resume_values>>
        /\ request'.op # "resume"
    BY <1>1 DEF LoadInvoke, LoadUpdate, Load, NoRequest, saver
  <2> QED
    BY <2>1 DEF InterruptInv, EntryOf
<1>2. CASE LoadResume
  <2>1. /\ UNCHANGED <<outcome, pending_writes, current_resume_values>>
        /\ last_ckpt_id' = Latest.id
    BY <1>2 DEF LoadResume, Load, saver
  <2> QED
    BY <1>2, <2>1, ResumeFinds DEF InterruptInv, EntryOf, Continues
<1>3. CASE BeginInvoke \/ BeginResume \/ Crash
  <2>1. outcome' = NoOutcome
    BY <1>3 DEF BeginInvoke, BeginResume, Crash, Execute
  <2> QED
    BY <2>1 DEF InterruptInv, Interrupts, NoOutcome
<1>4. CASE BeginWithoutEntry \/ CallFails
  <2>1. outcome'.why \in {"NoEntry", "saver", "reducer"}
    BY <1>4 DEF BeginWithoutEntry, CallFails, Return
  <2> QED
    BY <2>1 DEF InterruptInv, Interrupts
<1>5. CASE SaveUpdate
  <2>1. UNCHANGED <<outcome, pending_writes, current_resume_values>> /\ request' = NoRequest
    BY <1>5 DEF SaveUpdate, Begun, loop
  <2> QED
    BY <2>1 DEF InterruptInv, EntryOf, NoRequest
<1>6. CASE Running /\ Resting
  <2>1. UNCHANGED <<outcome, pending_writes, current_resume_values, last_ckpt_id, request>>
    BY <1>6, RestingSteps, RunningIsNext DEF Background, DeliverPut, Cancel, locals, loop, saver
  <2> QED
    BY <2>1 DEF InterruptInv, EntryOf, Continues
<1>7. CASE Running /\ ~Resting
  <2>1. request' = NoRequest /\ outcome = NoOutcome
    BY <1>7, RunningIsNext DEF GraphInv, RestInv
  <2> QED
    BY <1>7, <2>1, OtherEnds, InterruptPut DEF InterruptInv, NoRequest
<1>8. CASE UNCHANGED graphVars
  BY <1>8 DEF InterruptInv, EntryOf, Continues, graphVars, vars, locals, loop, saver
<1> QED
  BY <1>1, <1>2, <1>3, <1>4, <1>5, <1>6, <1>7, <1>8 DEF GraphNext, GraphTerminated

LEMMA InterruptInductive ==
    GraphSpec => [](GraphInv /\ IdsInv /\ ("saver" \notin Faults => InterruptInv))
<1> DEFINE Inv == "saver" \notin Faults => InterruptInv
<1>1. GraphInit => Inv
  BY DEF GraphInit, Idle, NoOutcome, InterruptInv, Interrupts
<1>2. GraphInv /\ IdsInv /\ Inv /\ [GraphNext]_graphVars => Inv'
  BY InterruptKept
<1> QED
  BY <1>1, <1>2, IdsInductive, PTL DEF GraphSpec

\* Where put_writes does not fail, the resume of an interrupt the user was told
\* of goes on at the node it named, with the answers it had and the new one:
\* through the saver, background saves and any number of crashed resumes
\* (engine.rs:449, 488).
THEOREM ResumeSafety == "saver" \notin Faults => (GraphSpec => ResumeContinues)
<1> SUFFICES ASSUME "saver" \notin Faults PROVE GraphSpec => ResumeContinues
  OBVIOUS
<1>1. InterruptInv /\ [GraphNext]_graphVars
      => [ResumesFrom({"InterruptBefore", "NodeInterrupt"}) =>
            /\ outcome.node = {pending_tasks'[1].node}
            /\ outcome.why = "NodeInterrupt" =>
                  \E reply \in Replies :
                      current_resume_values' = current_resume_values \o reply]_graphVars
  <2> SUFFICES ASSUME InterruptInv, [GraphNext]_graphVars,
                      ResumesFrom({"InterruptBefore", "NodeInterrupt"})
               PROVE  /\ outcome.node = {pending_tasks'[1].node}
                      /\ outcome.why = "NodeInterrupt" =>
                            \E reply \in Replies :
                                current_resume_values' = current_resume_values \o reply
    OBVIOUS
  <2>1. /\ request.op = "resume" /\ request # NoRequest /\ request' = NoRequest /\ pc' = "top"
        /\ outcome.why \in Interrupts /\ outcome.ckpt = last_ckpt_id
    BY DEF ResumesFrom, Interrupts, NoRequest
  <2>2. BeginResume
    BY <2>1, RunningIsNext
       DEF GraphNext, LoadInvoke, LoadResume, LoadUpdate, Load, BeginInvoke, BeginWithoutEntry,
           SaveUpdate, CallFails, Crash, Begun, Return, GraphTerminated, graphVars
  <2>3. pending_tasks' = <<Pull(request.node)>> /\ current_resume_values' = request.answers
    BY <2>2 DEF BeginResume, Execute
  <2>4. pending_tasks'[1].node = request.node
    BY <2>3 DEF Pull
  <2> QED
    BY <2>1, <2>3, <2>4 DEF InterruptInv, Continues
<1> QED
  BY <1>1, InterruptInductive, PTL DEF GraphSpec, ResumeContinues

-----------------------------------------------------------------------------
(* The checkpoints of a thread whose calls are all made with               *)
(* Durability::Sync.                                                       *)

\* The checkpoints bear their position as id, and each is a root of step 0 or
\* a step after an earlier one.
TreeInv ==
    /\ inflight = {} /\ uuids = Len(store)
    /\ \A i \in DOMAIN store :
        /\ store[i].id = i
        /\ \/ store[i].parent = 0 /\ store[i].step = 0
           \/ store[i].parent \in 1 .. i - 1 /\ store[i].step = store[store[i].parent].step + 1

\* The checkpoint a save would make now belongs in the tree.
Based ==
    \/ last_ckpt_id = 0 /\ step = 0
    \/ last_ckpt_id \in DOMAIN store /\ step = store[last_ckpt_id].step + 1

\* Where a call stands in the tree, and where its state is the newest
\* checkpoint's.
ThreadInv ==
    /\ request # NoRequest => Based
    /\ ~Resting => Len(store) > 0 /\ last_ckpt_id = Len(store)
    /\ pc \in {"top", "run", "collect", "persist"} => step = Latest.step + 1
    /\ pc \in {"after", "route"} => step = Latest.step
    /\ pc \in {"top", "run", "collect", "after", "route"} =>
        /\ Latest.vals = Snapshot(channels) /\ Latest.versions = channel_versions
    /\ pc \in {"top", "run", "after", "route"} => Latest.seen_versions = versions_seen

HistoryInv == TreeInv /\ ThreadInv

\* A save adds a checkpoint of the present state below the one it is based on.
LEMMA SaveHistory ==
    ASSUME TypeOK, HasSaver, TreeInv, Based, NEW source, NEW writes,
           SaveCheckpoint(source, step, writes), inflight' = inflight
    PROVE  /\ TreeInv' /\ Len(store') = Len(store) + 1 /\ last_ckpt_id' = Len(store')
           /\ store' = Append(store, Latest') /\ Latest'.parent = last_ckpt_id
           /\ Latest'.step = step /\ Latest'.vals = Snapshot(channels)
           /\ Latest'.versions = channel_versions /\ Latest'.seen_versions = versions_seen
<1> DEFINE c == NewCheckpoint(uuids', last_ckpt_id, source, step, channels, writes)
           n == Len(store)
<1>1. store \in Seq(CheckpointType) /\ n \in Nat /\ DOMAIN store = 1 .. n
  BY DEF TypeOK, SaverType
<1>2. uuids' = n + 1 /\ last_ckpt_id' = n + 1 /\ store' = Append(store, c)
  BY DEF SaveCheckpoint, TreeInv
<1>3. /\ c.id = n + 1 /\ c.parent = last_ckpt_id /\ c.step = step /\ c.vals = Snapshot(channels)
      /\ c.versions = channel_versions /\ c.seen_versions = versions_seen
  BY <1>2 DEF NewCheckpoint
<1> HIDE DEF c
<1>4. /\ Len(store') = n + 1 /\ DOMAIN store' = 1 .. n + 1 /\ store'[n + 1] = c
      /\ \A i \in 1 .. n : store'[i] = store[i]
  BY <1>1, <1>2
<1>5. Latest' = c
  BY <1>4 DEF Latest
<1>6. \/ last_ckpt_id = 0 /\ step = 0
      \/ last_ckpt_id \in 1 .. n /\ step = store'[last_ckpt_id].step + 1
  BY <1>1, <1>4 DEF Based
<1>7. ASSUME NEW i \in 1 .. n + 1
      PROVE  /\ store'[i].id = i
             /\ \/ store'[i].parent = 0 /\ store'[i].step = 0
                \/ /\ store'[i].parent \in 1 .. i - 1
                   /\ store'[i].step = store'[store'[i].parent].step + 1
  <2>1. CASE i = n + 1
    <3>1. store'[i] = c /\ i - 1 = n
      BY <1>1, <1>4, <2>1
    <3> QED
      BY <1>3, <1>6, <2>1, <3>1
  <2>2. CASE i # n + 1
    <3>1. i \in 1 .. n /\ store'[i] = store[i]
      BY <1>1, <1>4, <2>2
    <3>2. \A k \in 1 .. i - 1 : store'[k] = store[k]
      BY <1>1, <1>4, <3>1
    <3> QED
      BY <1>1, <3>1, <3>2 DEF TreeInv
  <2> QED
    BY <2>1, <2>2
<1>8. TreeInv'
  BY <1>2, <1>4, <1>7 DEF TreeInv
<1> QED
  BY <1>2, <1>3, <1>4, <1>5, <1>8

\* Of a Sync call, only PersistSync moves the store and the id.
LEMMA SyncQuiet ==
    ASSUME Running, durability = "Sync", inflight = {}, ~PersistSync
    PROVE  UNCHANGED <<store, inflight, uuids, last_ckpt_id>>
<1>1. ~PersistAsync /\ ~PersistExit /\ ~Background
  BY DEF PersistAsync, PersistExit, Background
<1>2. CASE Finish \/ StopBefore \/ \E i \in running : TaskInterrupted(i)
  BY <1>2 DEF Finish, StopBefore, TaskInterrupted, locals
<1> QED
  BY <1>1, <1>2, QuietSteps DEF saver

\* How the place in the loop, the step and the channels move together.
LEMMA LoopMoves ==
    ASSUME Running, ~Resting, ~PersistSync, durability = "Sync", inflight = {}
    PROVE  \/ pc' = "ended"
           \/ NextSuperstep
           \/ Merge /\ pc = "collect" /\ pc' = "persist" /\ step' = step
           \/ /\ step' = step /\ UNCHANGED <<channels, channel_versions>>
              /\ \/ pc' = pc /\ (pc # "collect" => versions_seen' = versions_seen)
                 \/ /\ <<pc, pc'>> \in {<<"top", "run">>, <<"run", "collect">>, <<"after", "route">>}
                    /\ versions_seen' = versions_seen
<1>1. CASE \/ RecursionLimit \/ Finish \/ FinishFails \/ Cancelled \/ StopBefore \/ NodeNotFound
           \/ MergeFails \/ PersistFails \/ StopAfter \/ RouteUnreachable
           \/ \E i \in running : TaskInterrupted(i) \/ TaskFailed(i)
  BY <1>1 DEF RecursionLimit, Finish, FinishFails, Cancelled, StopBefore, NodeNotFound, MergeFails,
              PersistFails, StopAfter, RouteUnreachable, TaskInterrupted, TaskFailed, Return
<1>2. CASE Merge
  BY <1>2 DEF Merge, Collected, Return, loop
<1>3. CASE CollectParent \/ CollectUpdate
  BY <1>3 DEF CollectParent, CollectUpdate, loop, state
<1>4. CASE StartTasks \/ TasksJoined \/ BeginRouting
  BY <1>4 DEF StartTasks, ReadyToRun, InLoop, TasksJoined, BeginRouting, loop, state
<1>5. CASE RouteGoto \/ RouteJoin \/ RouteEdge \/ Cancel \/ \E i \in running : TaskDone(i)
  BY <1>5 DEF RouteGoto, RouteJoin, RouteEdge, Cancel, TaskDone, loop, state
<1>6. ~PersistAsync /\ ~PersistExit /\ ~Background
  BY DEF PersistAsync, PersistExit, Background
<1> QED
  BY <1>1, <1>2, <1>3, <1>4, <1>5, <1>6 DEF Running, Engine, RunTask

LEMMA HistoryRunning ==
    ASSUME AllSync, GraphInv, HistoryInv, Running
    PROVE  HistoryInv'
<1>0. /\ TypeOK /\ TreeInv /\ ThreadInv /\ HasSaver /\ durability = "Sync" /\ inflight = {}
      /\ ~Resting => request = NoRequest
      /\ request' = request
  BY RunningIsNext DEF HistoryInv, TreeInv, GraphInv, TypeInv, RestInv, AllSync
<1>1. store \in Seq(CheckpointType) /\ step \in Nat
  BY <1>0 DEF TypeOK, SaverType, LoopType
<1>2. CASE PersistSync
  <2>1. /\ pc = "persist" /\ pc' = "after" /\ step' = step /\ inflight' = inflight
        /\ SaveCheckpoint("Loop", step, Written)
        /\ UNCHANGED <<channels, channel_versions, versions_seen>>
    BY <1>2 DEF PersistSync, loop, state
  <2>2. Based
    BY <1>0, <1>1, <2>1 DEF Based, ThreadInv, Resting, Latest
  <2>3. /\ TreeInv' /\ Len(store') = Len(store) + 1 /\ last_ckpt_id' = Len(store')
        /\ Latest'.step = step /\ Latest'.vals = Snapshot(channels)
        /\ Latest'.versions = channel_versions /\ Latest'.seen_versions = versions_seen
    BY <1>0, <2>1, <2>2, SaveHistory
  <2>4. Snapshot(channels)' = Snapshot(channels) /\ request' = NoRequest /\ Len(store') > 0
    BY <1>0, <1>1, <2>1, <2>3 DEF Snapshot, Resting
  <2> QED
    BY <2>1, <2>3, <2>4 DEF HistoryInv, ThreadInv
<1>3. CASE ~PersistSync
  <2>1. UNCHANGED <<store, inflight, uuids, last_ckpt_id>> /\ Latest' = Latest
    BY <1>0, <1>3, SyncQuiet DEF Latest
  <2>2. TreeInv'
    BY <1>0, <2>1 DEF TreeInv
  <2>3. ThreadInv'
    <3>1. CASE Resting
      <4>1. UNCHANGED <<pc, step>>
        BY <1>0, <3>1, RestingSteps DEF Background, Cancel, loop
      <4> QED
        BY <1>0, <2>1, <3>1, <4>1 DEF ThreadInv, Based, Resting
    <3>2. CASE ~Resting /\ pc' = "ended"
      BY <1>0, <2>1, <3>2 DEF ThreadInv, Resting
    <3>3. CASE NextSuperstep
      <4>1. /\ pc = "route" /\ pc' = "top" /\ step' = step + 1
            /\ UNCHANGED <<channels, channel_versions, versions_seen>>
        BY <3>3 DEF NextSuperstep, state
      <4> QED
        BY <1>0, <1>1, <2>1, <4>1 DEF ThreadInv, Resting, Snapshot
    <3>4. CASE ~Resting /\ pc' # "ended" /\ ~NextSuperstep
      <4>1. CASE pc = "collect" /\ pc' = "persist" /\ step' = step
        BY <1>0, <2>1, <3>4, <4>1 DEF ThreadInv, Resting
      <4>2. CASE /\ step' = step /\ UNCHANGED <<channels, channel_versions>>
                 /\ \/ pc' = pc /\ (pc # "collect" => versions_seen' = versions_seen)
                    \/ /\ <<pc, pc'>> \in {<<"top", "run">>, <<"run", "collect">>,
                                           <<"after", "route">>}
                       /\ versions_seen' = versions_seen
        BY <1>0, <2>1, <3>4, <4>2 DEF ThreadInv, Resting, Snapshot
      <4> QED
        BY <1>0, <1>3, <3>4, <4>1, <4>2, LoopMoves
    <3> QED
      BY <3>1, <3>2, <3>3, <3>4
  <2> QED
    BY <2>2, <2>3 DEF HistoryInv
<1> QED
  BY <1>2, <1>3

LEMMA HistoryKept ==
    ASSUME AllSync, GraphInv, HistoryInv, [GraphNext]_graphVars
    PROVE  HistoryInv'
<1>0. /\ TypeOK /\ TreeInv /\ ThreadInv /\ HasSaver
      /\ ~Resting => request = NoRequest
  BY DEF HistoryInv, GraphInv, TypeInv, RestInv, AllSync
<1>1. store \in Seq(CheckpointType) /\ step \in Nat
  BY <1>0 DEF TypeOK, SaverType, LoopType
<1>2. CASE LoadInvoke \/ LoadResume \/ LoadUpdate
  <2>1. PICK t : \E writes \in SUBSET Key :
            /\ t = NoTuple \/ \E i \in DOMAIN store : t = store[i]
            /\ Load(t, writes) /\ Loadable(t)
    BY <1>0, <1>2, LoadsStored
  <2>2. /\ Resting /\ pc' = pc /\ step' = t.step + 1 /\ last_ckpt_id' = t.id
        /\ UNCHANGED <<store, inflight, uuids>>
    BY <2>1 DEF Load, Resting, saver
  <2>3. Based'
    <3>1. CASE t = NoTuple
      BY <2>2, <3>1 DEF Based, NoTuple
    <3>2. CASE \E i \in DOMAIN store : t = store[i]
      BY <1>0, <2>2, <3>2 DEF Based, TreeInv
    <3> QED
      BY <2>1, <3>1, <3>2
  <2> QED
    BY <1>0, <2>2, <2>3 DEF HistoryInv, ThreadInv, TreeInv, Resting
<1>3. CASE BeginInvoke \/ BeginResume \/ BeginWithoutEntry \/ SaveUpdate
  <2>1. PICK source, writes : /\ SaveCheckpoint(source, step, writes)
                              /\ inflight' = inflight /\ request' = NoRequest
                              /\ UNCHANGED <<channels, channel_versions, versions_seen>>
    BY <1>3 DEF BeginInvoke, BeginResume, BeginWithoutEntry, SaveUpdate, Begun, state
  <2>2. request # NoRequest /\ Resting
    <3>1. request.op \in {"invoke", "resume", "update"}
      BY <1>3 DEF BeginInvoke, BeginResume, BeginWithoutEntry, SaveUpdate, Begun
    <3>2. NoRequest.op = "none"
      BY DEF NoRequest
    <3> QED
      BY <1>0, <3>1, <3>2
  <2>3. Based
    BY <1>0, <2>2 DEF ThreadInv
  <2>4. /\ TreeInv' /\ Len(store') = Len(store) + 1 /\ last_ckpt_id' = Len(store')
        /\ Latest'.step = step /\ Latest'.vals = Snapshot(channels)
        /\ Latest'.versions = channel_versions /\ Latest'.seen_versions = versions_seen
    BY <1>0, <2>1, <2>3, SaveHistory
  <2>5. \/ pc' = "top" /\ step' = step + 1
        \/ pc' = "ended" \/ pc' = pc
    BY <1>3 DEF BeginInvoke, BeginResume, BeginWithoutEntry, SaveUpdate, Execute, Return
  <2>6. Snapshot(channels)' = Snapshot(channels) /\ Len(store') > 0
    BY <1>1, <2>1, <2>4 DEF Snapshot
  <2> QED
    BY <2>1, <2>2, <2>4, <2>5, <2>6 DEF HistoryInv, ThreadInv, Resting
<1>4. CASE CallFails \/ Crash
  <2>1. /\ Resting' /\ request' = NoRequest /\ inflight' \in {inflight, {}}
        /\ UNCHANGED <<store, uuids>>
    BY <1>4 DEF CallFails, Crash, Begun, Return, Resting, saver
  <2> QED
    BY <1>0, <2>1 DEF HistoryInv, ThreadInv, TreeInv, Resting
<1>5. CASE UNCHANGED graphVars
  BY <1>5 DEF HistoryInv, ThreadInv, TreeInv, Based, Resting, Latest, Snapshot,
              graphVars, vars, locals, loop, state, saver
<1> QED
  BY <1>2, <1>3, <1>4, <1>5, HistoryRunning DEF GraphNext, GraphTerminated

LEMMA HistoryInductive == GraphSpec => [](GraphInv /\ (AllSync => HistoryInv))
<1> DEFINE Inv == AllSync => HistoryInv
<1>1. GraphInit => Inv
  <2> SUFFICES ASSUME GraphInit PROVE HistoryInv
    OBVIOUS
  <2>1. /\ pc = "idle" /\ uuids = 0 /\ store = <<>> /\ inflight = {} /\ request = NoRequest
    BY DEF GraphInit, Idle
  <2> QED
    BY <2>1 DEF HistoryInv, ThreadInv, TreeInv, Resting
<1>2. GraphInv /\ Inv /\ [GraphNext]_graphVars => Inv'
  BY HistoryKept DEF AllSync
<1> QED
  BY <1>1, <1>2, GraphInductive, PTL DEF GraphSpec

\* The checkpoints of a Sync thread form a forest, each one step after its
\* parent, for every graph and every history of invokes, branches, resumes,
\* updates, failed saves and crashes (engine.rs:521).
THEOREM TreeSafety == GraphSpec => []HistoryIsTree
<1>1. GraphInv /\ (AllSync => HistoryInv) => HistoryIsTree
  <2> SUFFICES ASSUME GraphInv, AllSync, HistoryInv, NEW i \in DOMAIN store,
                      ~(store[i].parent = 0 /\ store[i].step = 0)
               PROVE  \E k \in ParentOf(i) : k < i /\ store[i].step = store[k].step + 1
    BY DEF HistoryIsTree
  <2> DEFINE k == store[i].parent
  <2>1. store \in Seq(CheckpointType)
    BY DEF GraphInv, TypeInv, TypeOK, SaverType
  <2>2. k \in 1 .. i - 1 /\ store[i].step = store[k].step + 1
    BY DEF HistoryInv, TreeInv
  <2>3. k \in DOMAIN store /\ k < i
    BY <2>1, <2>2
  <2>4. store[k].id = k
    BY <2>3 DEF HistoryInv, TreeInv
  <2> QED
    BY <2>2, <2>3, <2>4 DEF ParentOf
<1> QED
  BY <1>1, HistoryInductive, PTL

\* Every call of a Sync thread runs from the newest checkpoint: whatever was
\* loaded, at each point between two merges a crash costs no finished
\* superstep.
THEOREM ThreadCheckpoints == GraphSpec => [](AllSync => CheckpointIsState)
<1>1. GraphInv /\ (AllSync => HistoryInv) => (AllSync => CheckpointIsState)
  <2> SUFFICES ASSUME GraphInv, AllSync, HistoryInv, pc \in {"top", "run", "after", "route"}
               PROVE  /\ Latest.id = last_ckpt_id
                      /\ Latest.vals = Snapshot(channels)
                      /\ Latest.versions = channel_versions
                      /\ Latest.seen_versions = versions_seen
    BY DEF CheckpointIsState
  <2>1. store \in Seq(CheckpointType)
    BY DEF GraphInv, TypeInv, TypeOK, SaverType
  <2>2. Len(store) > 0 /\ last_ckpt_id = Len(store)
    BY DEF HistoryInv, ThreadInv, Resting
  <2>3. Latest.id = Len(store)
    BY <2>1, <2>2 DEF HistoryInv, TreeInv, Latest
  <2> QED
    BY <2>2, <2>3 DEF HistoryInv, ThreadInv
<1> QED
  BY <1>1, HistoryInductive, PTL

-----------------------------------------------------------------------------
(* What the checkpoints of a Sync thread hold of the aggregating channels. *)

\* No node writes an {OVERWRITE_KEY: v} object.
NoOverwrites == \A n \in Node : \A out \in Outputs[n] : out.over = {}

\* The second content is the first and writes of step n behind it.
Extends(old, new, n) ==
    \E more \in Seq(Item) : new = old \o more /\ \A e \in DOMAIN more : more[e].step = n

\* No result overwrites, and what is being grouped is of this step.
PlainInv ==
    /\ \A k \in DOMAIN task_results : task_results[k].out.over = {}
    /\ pc = "collect" => \A c \in Aggregates : \A e \in DOMAIN grouped_updates[c] :
          grouped_updates[c][e].step = step /\ ~grouped_updates[c][e].over

\* Every checkpoint holds its parent's content and writes of its own step;
\* the one about to be saved will too.
GrowInv == \A c \in Aggregates :
    /\ \A i \in DOMAIN store : store[i].parent # 0 =>
          Extends(store[store[i].parent].vals[c], store[i].vals[c], store[i].step)
    /\ request # NoRequest /\ last_ckpt_id # 0 =>
          Extends(store[last_ckpt_id].vals[c], channels[c], step)
    /\ pc = "persist" => Extends(Latest.vals[c], channels[c], step)

\* A batch of this step's writes, none of which overwrites, is appended.
LEMMA BatchAppended ==
    ASSUME NEW content \in Seq(Item), NEW batch \in Seq(Item), NEW n,
           \A e \in DOMAIN batch : batch[e].step = n /\ ~batch[e].over
    PROVE  Extends(content, Update("BinaryOperatorAggregate", content, batch), n)
<1>1. LastOverwrite(batch) = {}
  BY DEF LastOverwrite
<1>2. Update("BinaryOperatorAggregate", content, batch) = content \o batch
  BY <1>1 DEF Update, Aggregate
<1> QED
  BY <1>2 DEF Extends

\* An aggregating channel is saved as it is.
LEMMA AggregateSaved ==
    ASSUME NEW c \in Aggregates
    PROVE  c \in Chan /\ Snapshot(channels)[c] = channels[c]
<1>1. c \in Chan /\ Kind[c] = "BinaryOperatorAggregate"
  BY DEF Aggregates
<1> QED
  BY <1>1 DEF Snapshot, Checkpointed, Persistent

LEMMA PlainRunning ==
    ASSUME NoOverwrites, TypeInv, PlainInv, Running
    PROVE  PlainInv'
<1>0. task_results \in Seq(TaskResult) /\ grouped_updates \in [Key -> Seq(Item)]
      /\ at \in Nat \ {0} /\ [Next]_vars /\ Aggregates \subseteq Key
  BY RunningIsNext, GraphAssumption DEF TypeInv, TypeOK, LoopType, ResultType, Aggregates
<1>1. CASE ~DataStep
  <2>1. UNCHANGED <<step, task_results, grouped_updates>> /\ (pc' = "collect" => pc = "collect")
    BY <1>0, <1>1, Elsewhere
  <2> QED
    BY <2>1 DEF PlainInv, Aggregates
<1>2. CASE StartTasks \/ Merge \/ NextSuperstep
  <2>1. task_results' \in {task_results, <<>>} /\ pc' # "collect"
    BY <1>2 DEF StartTasks, Merge, NextSuperstep, Return, results
  <2> QED
    BY <2>1 DEF PlainInv
<1>3. ASSUME NEW i \in running, TaskDone(i)
      PROVE  PlainInv'
  <2> DEFINE n == pending_tasks[i].node
  <2>1. pc = "run" /\ pc' = "run"
        /\ \E out \in Outputs[n] : task_results' = Append(task_results, [by |-> i, out |-> out])
    BY <1>3 DEF TaskDone
  <2>2. PICK out \in Outputs[n] : task_results' = Append(task_results, [by |-> i, out |-> out])
    BY <2>1
  <2>3. n \in Node
    BY <2>1 DEF TypeInv, ZipIsTotal
  <2>4. out.over = {}
    BY <2>2, <2>3 DEF NoOverwrites
  <2>5. \A k \in DOMAIN task_results' : task_results'[k].out.over = {}
    BY <1>0, <2>2, <2>4 DEF PlainInv
  <2> QED
    BY <2>1, <2>5 DEF PlainInv
<1>4. CASE TasksJoined
  <2>1. grouped_updates' = [c \in Key |-> <<>>] /\ task_results' = task_results
    BY <1>4 DEF TasksJoined, results
  <2>2. Aggregates' = Aggregates
    BY DEF Aggregates
  <2> QED
    BY <1>0, <2>1, <2>2 DEF PlainInv
<1>5. CASE CollectParent
  <2>1. UNCHANGED <<pc, step, task_results, grouped_updates>>
    BY <1>5 DEF CollectParent, loop, results
  <2> QED
    BY <2>1 DEF PlainInv, Aggregates
<1>6. CASE CollectUpdate
  <2> DEFINE r == task_results[at]
             entry(c) == [step |-> step, by |-> r.by, over |-> c \in r.out.over]
  <2>1. /\ pc = "collect" /\ UNCHANGED <<pc, step, task_results>> /\ at \in DOMAIN task_results
        /\ grouped_updates' = [c \in Key |-> IF c \in r.out.writes
                                             THEN Append(grouped_updates[c], entry(c))
                                             ELSE grouped_updates[c]]
    BY <1>0, <1>6 DEF CollectUpdate, loop, results
  <2>2. r.out.over = {}
    BY <2>1 DEF PlainInv
  <2>3. \A c : entry(c).step = step /\ ~entry(c).over
    BY <2>2
  <2> HIDE DEF entry, r
  <2>4. ASSUME NEW c \in Aggregates, NEW e \in DOMAIN grouped_updates'[c]
        PROVE  grouped_updates'[c][e].step = step /\ ~grouped_updates'[c][e].over
    <3>1. c \in Key /\ grouped_updates[c] \in Seq(Item)
      BY <1>0
    <3>2. CASE c \in r.out.writes /\ e = Len(grouped_updates[c]) + 1
      <4>1. grouped_updates'[c][e] = entry(c)
        BY <2>1, <3>1, <3>2
      <4> QED
        BY <2>3, <4>1
    <3>3. CASE ~(c \in r.out.writes /\ e = Len(grouped_updates[c]) + 1)
      <4>1. e \in DOMAIN grouped_updates[c] /\ grouped_updates'[c][e] = grouped_updates[c][e]
        BY <2>1, <3>1, <3>3
      <4> QED
        BY <2>1, <4>1 DEF PlainInv
    <3> QED
      BY <3>2, <3>3
  <2> QED
    BY <2>1, <2>4 DEF PlainInv, Aggregates
<1>7. ~Call
  BY RestingSteps DEF Call, Execute, Resting, Background, DeliverPut, Cancel
<1> QED
  BY <1>1, <1>2, <1>3, <1>4, <1>5, <1>6, <1>7 DEF DataStep

\* A save keeps the growth, if what it saves has grown.
LEMMA SaveGrows ==
    ASSUME TypeOK, HasSaver, TreeInv, Based, GrowInv, NEW source, NEW writes,
           SaveCheckpoint(source, step, writes), inflight' = inflight,
           \A c \in Aggregates : last_ckpt_id # 0 =>
               Extends(store[last_ckpt_id].vals[c], channels[c], step)
    PROVE  \A c \in Aggregates : \A i \in DOMAIN store' : store'[i].parent # 0 =>
               Extends(store'[store'[i].parent].vals[c], store'[i].vals[c], store'[i].step)
<1> SUFFICES ASSUME NEW c \in Aggregates, NEW i \in DOMAIN store', store'[i].parent # 0
             PROVE  Extends(store'[store'[i].parent].vals[c], store'[i].vals[c], store'[i].step)
  OBVIOUS
<1> DEFINE n == Len(store)
           k == store'[i].parent
<1>1. store \in Seq(CheckpointType) /\ n \in Nat /\ DOMAIN store = 1 .. n
  BY DEF TypeOK, SaverType
<1>2. /\ store' = Append(store, Latest') /\ Len(store') = n + 1 /\ Latest'.parent = last_ckpt_id
      /\ Latest'.step = step /\ Latest'.vals = Snapshot(channels)
  BY SaveHistory
<1>3. /\ DOMAIN store' = 1 .. n + 1 /\ store'[n + 1] = Latest'
      /\ \A m \in 1 .. n : store'[m] = store[m]
  BY <1>1, <1>2
<1>4. CASE i = n + 1
  <2>1. k = last_ckpt_id /\ last_ckpt_id \in 1 .. n
    BY <1>1, <1>2, <1>3, <1>4 DEF Based
  <2>2. store'[k] = store[last_ckpt_id] /\ store'[i] = Latest'
    BY <1>3, <1>4, <2>1
  <2>3. Snapshot(channels)[c] = channels[c]
    BY AggregateSaved
  <2> QED
    BY <1>2, <1>4, <2>1, <2>2, <2>3
<1>5. CASE i # n + 1
  <2>1. i \in 1 .. n /\ store'[i] = store[i]
    BY <1>1, <1>3, <1>5
  <2>2. k \in 1 .. n /\ store'[k] = store[k]
    BY <1>1, <1>3, <2>1 DEF TreeInv
  <2> QED
    BY <1>1, <2>1, <2>2 DEF GrowInv
<1> QED
  BY <1>4, <1>5

LEMMA GrowRunning ==
    ASSUME AllSync, GraphInv, HistoryInv, PlainInv, GrowInv, Running
    PROVE  GrowInv'
<1>0. /\ TypeOK /\ TypeInv /\ TreeInv /\ ThreadInv /\ HasSaver /\ durability = "Sync"
      /\ inflight = {} /\ request' = request /\ [Next]_vars
      /\ ~Resting => request = NoRequest
  BY RunningIsNext DEF HistoryInv, TreeInv, GraphInv, TypeInv, RestInv, AllSync
<1>1. CASE PersistSync
  <2>1. /\ pc = "persist" /\ pc' = "after" /\ inflight' = inflight
        /\ SaveCheckpoint("Loop", step, Written)
    BY <1>1 DEF PersistSync
  <2>2. last_ckpt_id = Len(store) /\ Len(store) > 0 /\ step = Latest.step + 1 /\ ~Resting
    BY <1>0, <2>1 DEF ThreadInv, Resting
  <2>3. Based
    BY <1>0, <2>2 DEF Based, Latest, TypeOK, SaverType
  <2>4. \A c \in Aggregates : last_ckpt_id # 0 =>
            Extends(store[last_ckpt_id].vals[c], channels[c], step)
    BY <2>1, <2>2 DEF GrowInv, Latest
  <2> QED
    BY <1>0, <2>1, <2>2, <2>3, <2>4, SaveGrows DEF GrowInv, Aggregates
<1>2. CASE Merge
  <2>1. /\ pc = "collect" /\ UNCHANGED <<step, store, last_ckpt_id>> /\ Latest' = Latest
        /\ channels' = [c \in Chan |-> Update(Kind[c], channels[c], grouped_updates[c])]
    BY <1>2 DEF Merge, Merged, Collected, loop, saver, Latest
  <2>2. request = NoRequest /\ Latest.vals = Snapshot(channels)
    BY <1>0, <2>1 DEF Resting, ThreadInv
  <2>3. \A c \in Aggregates : Extends(Latest.vals[c], channels'[c], step)
    <3> SUFFICES ASSUME NEW c \in Aggregates PROVE Extends(Latest.vals[c], channels'[c], step)
      OBVIOUS
    <3>1. /\ c \in Chan /\ Kind[c] = "BinaryOperatorAggregate" /\ Latest.vals[c] = channels[c]
          /\ channels[c] \in Seq(Item) /\ grouped_updates[c] \in Seq(Item)
      BY <1>0, <2>2, AggregateSaved, DataTypes DEF Aggregates
    <3>2. \A e \in DOMAIN grouped_updates[c] :
              grouped_updates[c][e].step = step /\ ~grouped_updates[c][e].over
      BY <2>1 DEF PlainInv
    <3>3. channels'[c] = Update("BinaryOperatorAggregate", channels[c], grouped_updates[c])
      BY <2>1, <3>1
    <3> QED
      BY <3>1, <3>2, <3>3, BatchAppended
  <2> QED
    BY <1>0, <2>1, <2>2, <2>3 DEF GrowInv, Aggregates
<1>3. CASE ~PersistSync /\ ~Merge
  <2>1. UNCHANGED <<store, last_ckpt_id>> /\ Latest' = Latest
    BY <1>0, <1>3, SyncQuiet DEF Latest
  <2>2. CASE Resting
    <3>1. UNCHANGED <<pc, step, channels>>
      BY <2>2, RestingSteps DEF Background, DeliverPut, Cancel, locals, loop, state
    <3> QED
      BY <1>0, <2>1, <3>1 DEF GrowInv, Aggregates
  <2>3. CASE ~Resting
    <3>1. pc' = "persist" => pc = "persist" /\ UNCHANGED <<step, channels>>
      BY <1>0, <1>3, <2>3, LoopMoves DEF NextSuperstep
    <3> QED
      BY <1>0, <2>1, <2>3, <3>1 DEF GrowInv, Aggregates
  <2> QED
    BY <2>2, <2>3
<1> QED
  BY <1>1, <1>2, <1>3

\* Loading a checkpoint brings back what it holds, and the user's values are
\* of the next step.
LEMMA LoadGrows ==
    ASSUME TypeOK, NEW i \in DOMAIN store, NEW writes \in SUBSET Key, Load(store[i], writes),
           NEW c \in Aggregates
    PROVE  Extends(store[i].vals[c], channels'[c], step')
<1> DEFINE batch == IF c \in writes THEN <<[step |-> step', by |-> 0, over |-> FALSE]>> ELSE <<>>
<1>1. c \in Chan /\ Kind[c] = "BinaryOperatorAggregate"
  BY DEF Aggregates
<1>2. store[i] \in CheckpointType
  BY DEF TypeOK, SaverType
<1>3. step' \in Nat /\ store[i].vals[c] \in Seq(Item)
  BY <1>1, <1>2 DEF Load, CheckpointType
<1>4. channels'[c] = Update("BinaryOperatorAggregate", store[i].vals[c], batch)
  <2>1. channels' = [d \in Chan |->
            Update(Kind[d], FromCheckpoint(Kind[d], store[i].vals[d]),
                   IF d \in writes THEN <<[step |-> step', by |-> 0, over |-> FALSE]>> ELSE <<>>)]
    BY DEF Load
  <2>2. FromCheckpoint("BinaryOperatorAggregate", store[i].vals[c]) = store[i].vals[c]
    BY DEF FromCheckpoint, Persistent
  <2> QED
    BY <1>1, <2>1, <2>2
<1>5. /\ batch \in Seq(Item)
      /\ \A e \in DOMAIN batch : batch[e].step = step' /\ ~batch[e].over
  <2> DEFINE item == [step |-> step', by |-> 0, over |-> FALSE]
  <2>1. item \in Item /\ item.step = step' /\ ~item.over
    BY <1>3 DEF Item
  <2>2. batch = <<>> \/ batch = <<item>>
    OBVIOUS
  <2> HIDE DEF item, batch
  <2>3. CASE batch = <<>>
    BY <2>3
  <2>4. CASE batch = <<item>>
    BY <2>1, <2>4
  <2> QED
    BY <2>2, <2>3, <2>4
<1> HIDE DEF batch
<1> QED
  BY <1>3, <1>4, <1>5, BatchAppended

LEMMA GrowKept ==
    ASSUME AllSync, NoOverwrites, GraphInv, HistoryInv, PlainInv, GrowInv, [GraphNext]_graphVars
    PROVE  PlainInv' /\ GrowInv'
<1>0. TypeOK /\ TypeInv /\ TreeInv /\ ThreadInv /\ HasSaver /\ (~Resting => request = NoRequest)
  BY DEF HistoryInv, GraphInv, TypeInv, RestInv, AllSync
<1>1. CASE LoadInvoke \/ LoadResume \/ LoadUpdate
  <2>1. PICK t : \E writes \in SUBSET Key :
            /\ t = NoTuple \/ \E i \in DOMAIN store : t = store[i]
            /\ Load(t, writes) /\ Loadable(t)
    BY <1>0, <1>1, LoadsStored
  <2>2. PICK writes \in SUBSET Key : Load(t, writes)
    BY <2>1
  <2>3. /\ Resting /\ pc' = pc /\ task_results' = task_results /\ store' = store
        /\ last_ckpt_id' = t.id
    BY <2>2 DEF Load, Resting, results, saver
  <2>4. \A c \in Aggregates : last_ckpt_id' # 0 =>
            Extends(store'[last_ckpt_id'].vals[c], channels'[c], step')
    <3>1. CASE t = NoTuple
      BY <2>3, <3>1 DEF NoTuple
    <3>2. ASSUME NEW i \in DOMAIN store, t = store[i]
          PROVE  \A c \in Aggregates : Extends(store[i].vals[c], channels'[c], step')
                                       /\ last_ckpt_id' = i
      BY <1>0, <2>2, <2>3, <3>2, LoadGrows DEF TreeInv
    <3> QED
      BY <2>1, <2>3, <3>1, <3>2
  <2> QED
    BY <2>3, <2>4 DEF PlainInv, GrowInv, Aggregates, Resting
<1>2. CASE BeginInvoke \/ BeginResume \/ BeginWithoutEntry \/ SaveUpdate
  <2>1. PICK source, writes : /\ SaveCheckpoint(source, step, writes)
                              /\ inflight' = inflight /\ request' = NoRequest
    BY <1>2 DEF BeginInvoke, BeginResume, BeginWithoutEntry, SaveUpdate, Begun
  <2>2. request # NoRequest /\ Resting
    <3>1. request.op \in {"invoke", "resume", "update"}
      BY <1>2 DEF BeginInvoke, BeginResume, BeginWithoutEntry, SaveUpdate, Begun
    <3>2. NoRequest.op = "none"
      BY DEF NoRequest
    <3> QED
      BY <1>0, <3>1, <3>2
  <2>3. Based
    BY <1>0, <2>2 DEF ThreadInv
  <2>4. \A c \in Aggregates : last_ckpt_id # 0 =>
            Extends(store[last_ckpt_id].vals[c], channels[c], step)
    BY <2>2 DEF GrowInv
  <2>5. task_results' \in {task_results, <<>>} /\ pc' \in {pc, "top", "ended"}
    BY <1>2 DEF BeginInvoke, BeginResume, BeginWithoutEntry, SaveUpdate, Execute, Return, results
  <2>6. PlainInv'
    BY <2>2, <2>5 DEF PlainInv, Resting
  <2> QED
    BY <1>0, <2>1, <2>2, <2>3, <2>4, <2>5, <2>6, SaveGrows DEF GrowInv, Aggregates, Resting
<1>3. CASE CallFails \/ Crash
  <2>1. Resting' /\ request' = NoRequest /\ UNCHANGED <<store, task_results>>
    BY <1>3 DEF CallFails, Crash, Begun, Return, Resting, locals, results, saver
  <2> QED
    BY <2>1 DEF PlainInv, GrowInv, Aggregates, Resting
<1>4. CASE Running
  BY <1>0, <1>4, PlainRunning, GrowRunning
<1>5. CASE UNCHANGED graphVars
  BY <1>5 DEF PlainInv, GrowInv, Aggregates, Latest, graphVars, vars, locals, loop, state,
              results, collected, saver
<1> QED
  BY <1>1, <1>2, <1>3, <1>4, <1>5 DEF GraphNext, GraphTerminated

\* Whichever checkpoint a call branched from, and however often it failed or
\* the process died, each checkpoint of a Sync thread holds what its parent
\* holds of an aggregating channel and then the writes of its own step, in
\* every graph whose nodes do not overwrite (compiled.rs:129, 208, 350).
THEOREM HistoryGrowth == GraphSpec => [](NoOverwrites => HistoryGrows)
<1> DEFINE Inv == AllSync /\ NoOverwrites => PlainInv /\ GrowInv
<1>1. GraphInit => Inv
  <2> SUFFICES ASSUME GraphInit PROVE PlainInv /\ GrowInv
    OBVIOUS
  <2>1. pc = "idle" /\ task_results = <<>> /\ store = <<>> /\ request = NoRequest
    BY DEF GraphInit, Idle
  <2> QED
    BY <2>1 DEF PlainInv, GrowInv
<1>2. GraphInv /\ (AllSync => HistoryInv) /\ Inv /\ [GraphNext]_graphVars => Inv'
  BY GrowKept DEF AllSync, NoOverwrites
<1>3. GraphInv /\ (AllSync => HistoryInv) /\ Inv => (NoOverwrites => HistoryGrows)
  <2> SUFFICES ASSUME GraphInv, AllSync, HistoryInv, GrowInv,
                      NEW i \in DOMAIN store, NEW c \in Aggregates, NEW k \in ParentOf(i)
               PROVE  LET mine   == store[i].vals[c]
                          theirs == store[k].vals[c]
                      IN  /\ Len(mine) >= Len(theirs) /\ SubSeq(mine, 1, Len(theirs)) = theirs
                          /\ \A e \in Len(theirs) + 1 .. Len(mine) : mine[e].step = store[i].step
    BY DEF HistoryGrows
  <2> DEFINE mine == store[i].vals[c]
             theirs == store[k].vals[c]
  <2>1. k \in DOMAIN store /\ store[i].parent = k /\ store[k] \in CheckpointType /\ c \in Chan
        /\ k # 0
    BY DEF ParentOf, HistoryInv, TreeInv, GraphInv, TypeInv, TypeOK, SaverType, Aggregates
  <2>2. theirs \in Seq(Item) /\ Extends(theirs, mine, store[i].step)
    BY <2>1 DEF GrowInv, CheckpointType
  <2>3. PICK more \in Seq(Item) : mine = theirs \o more
                                  /\ \A e \in DOMAIN more : more[e].step = store[i].step
    BY <2>2 DEF Extends
  <2> HIDE DEF mine, theirs
  <2>4. Len(mine) = Len(theirs) + Len(more) /\ \A e \in Len(theirs) + 1 .. Len(mine) :
            e - Len(theirs) \in DOMAIN more /\ mine[e] = more[e - Len(theirs)]
    BY <2>2, <2>3
  <2>5. SubSeq(mine, 1, Len(theirs)) = theirs
    BY <2>2, <2>3
  <2> QED
    BY <2>2, <2>3, <2>4, <2>5 DEF mine, theirs
<1> QED
  BY <1>1, <1>2, <1>3, HistoryInductive, PTL DEF GraphSpec

-----------------------------------------------------------------------------
(* The answers a resumed call gives.                                       *)

\* put_writes never fails.
AnswersKept == HasSaver /\ "saver" \notin Faults

\* All of the answers are the node's own.
For(answers, node) == \A k \in DOMAIN answers : answers[k] = node

\* The question of an interrupt() is among the entries of its checkpoint.
Booked(q) ==
    q.node # {} => \E w \in pending_writes : /\ w.channel = "__interrupt__"
                                             /\ w.ckpt = q.ckpt /\ q.node = {w.node}

\* What the user was asked is stored.  Of a user who answers that only, the
\* answers stay with the node they were given to, through the saver as well;
\* and only the first superstep has any.
AskInv ==
    /\ Booked(Asked) /\ Booked(question)
    /\ heeded => /\ \A w \in pending_writes : For(w.answers, w.node)
                 /\ For(request.answers, request.node)
                 /\ pc \in {"top", "run"} => \A i \in DOMAIN pending_tasks :
                                    For(current_resume_values, pending_tasks[i].node)
    /\ pc \in {"collect", "persist", "after", "route"} => current_resume_values = <<>>

\* A resume that sends an answer when it is due asks for the node it is for.
LEMMA ResumeAsks ==
    ASSUME GraphInv, IdsInv, AskInv, LoadResume, heeded'
    PROVE  For(request'.answers, request'.node)
<1>1. PICK update \in {{}} \cup Inputs, reply \in Replies, n \in ResumeNodes(Latest) :
          /\ request' = [op |-> "resume", writes |-> update, node |-> n,
                         answers |-> SavedAnswers(Latest) \o reply]
          /\ heeded' = (heeded /\ Due(reply))
  BY DEF LoadResume
<1>2. request'.node = n /\ request'.answers = SavedAnswers(Latest) \o reply
      /\ heeded /\ Due(reply)
  BY <1>1
<1>3. SavedAnswers(Latest) \in Seq(Name)
  BY ResumeTyped DEF GraphInv, TypeInv
<1> DEFINE asked == WritesOf(Latest, "__interrupt__")
<1>4. ASSUME NEW w \in asked
      PROVE  n = w.node /\ SavedAnswers(Latest) = w.answers /\ For(w.answers, n)
  <2>1. asked = {w} /\ w \in pending_writes
    BY DEF WritesOf, IdsInv, InterruptOnce
  <2>2. n = w.node /\ SavedAnswers(Latest) = w.answers
    BY <2>1 DEF ResumeNodes, SavedAnswers
  <2> QED
    BY <1>2, <2>1, <2>2 DEF AskInv
<1>5. asked = {} => SavedAnswers(Latest) = <<>>
  BY DEF SavedAnswers
<1>6. For(SavedAnswers(Latest), n)
  BY <1>4, <1>5 DEF For
<1>7. CASE reply = <<>>
  BY <1>2, <1>3, <1>6, <1>7, ConcatEmptySeq
<1>8. CASE reply # <<>>
  <2>1. PICK m \in Node : reply = <<m>>
    BY <1>8 DEF Replies
  <2>2. Asked.ckpt = Latest.id /\ m \in Asked.node
    BY <1>2, <2>1 DEF Due
  <2>3. PICK w \in pending_writes : /\ w.channel = "__interrupt__"
                                    /\ w.ckpt = Asked.ckpt /\ Asked.node = {w.node}
    BY <2>2 DEF AskInv, Booked
  <2>4. w \in asked /\ m = w.node
    BY <2>2, <2>3 DEF WritesOf
  <2>5. reply = <<n>>
    BY <1>4, <2>1, <2>4
  <2>6. \A k \in DOMAIN (SavedAnswers(Latest) \o reply) : (SavedAnswers(Latest) \o reply)[k] = n
    BY <1>3, <1>6, <2>5 DEF For
  <2> QED
    BY <1>2, <2>6 DEF For
<1> QED
  BY <1>7, <1>8

\* No step takes an entry away.
LEMMA WritesKept ==
    ASSUME [GraphNext]_graphVars
    PROVE  pending_writes \subseteq pending_writes'
<1>1. CASE LoadInvoke \/ LoadResume \/ LoadUpdate
  BY <1>1 DEF LoadInvoke, LoadResume, LoadUpdate, Load, saver
<1>2. CASE \/ BeginInvoke \/ BeginWithoutEntry \/ BeginResume \/ SaveUpdate \/ CallFails \/ Crash
  BY <1>2 DEF BeginInvoke, BeginWithoutEntry, BeginResume, SaveUpdate, CallFails, Crash, saver
<1>3. CASE Running
  <2>1. CASE StopBefore \/ \E i \in running : TaskInterrupted(i)
    BY <2>1 DEF StopBefore, TaskInterrupted, PutWrites
  <2>2. Finish \/ PersistSync \/ PersistAsync \/ PersistExit \/ Background
        => pending_writes' = pending_writes
    BY DEF Finish, PersistSync, PersistAsync, PersistExit, Background, DeliverPut
  <2> QED
    BY <1>3, <2>1, <2>2, QuietSteps DEF saver
<1>4. CASE UNCHANGED graphVars
  BY <1>4 DEF graphVars, vars, saver
<1> QED
  BY <1>1, <1>2, <1>3, <1>4 DEF GraphNext, GraphTerminated

LEMMA BookedKept ==
    ASSUME AnswersKept, GraphInv, Booked(Asked), Booked(question), [GraphNext]_graphVars
    PROVE  Booked(Asked)' /\ Booked(question)'
<1>1. ASSUME NEW q, Booked(q), NEW r, r = q
      PROVE  r.node # {} => \E w \in pending_writes' : /\ w.channel = "__interrupt__"
                                                       /\ w.ckpt = r.ckpt /\ r.node = {w.node}
  BY <1>1, WritesKept DEF Booked
<1>2. CASE question' \in {question, Asked} /\ Asked' \in {question, Asked}
  BY <1>1, <1>2 DEF Booked
<1>3. CASE LoadInvoke \/ LoadResume \/ LoadUpdate
  <2>1. question' = Asked /\ outcome' = outcome
    BY <1>3 DEF LoadInvoke, LoadResume, LoadUpdate, Told, Load
  <2> QED
    BY <1>2, <2>1 DEF Asked
<1>4. CASE \/ BeginInvoke \/ BeginWithoutEntry \/ BeginResume \/ SaveUpdate \/ CallFails
  <2>1. question' = question /\ (outcome'.why # "NodeInterrupt" \/ outcome' = outcome)
    BY <1>4 DEF BeginInvoke, BeginWithoutEntry, BeginResume, SaveUpdate, CallFails, Begun, Execute,
                Return, NoOutcome, user
  <2> QED
    BY <1>2, <2>1 DEF Asked
<1>5. CASE Crash
  <2>1. question' \in {question, Asked} /\ outcome'.why # "NodeInterrupt"
    BY <1>5 DEF Crash, NoOutcome
  <2>2. Asked' = question'
    BY <2>1 DEF Asked
  <2> QED
    BY <1>2, <2>1, <2>2
<1>6. CASE Running /\ \E i \in running : TaskInterrupted(i)
  <2>1. PICK i \in running : TaskInterrupted(i)
    BY <1>6
  <2> DEFINE v == [ckpt |-> last_ckpt_id, channel |-> "__interrupt__",
                   node |-> pending_tasks[i].node, index |-> Len(current_resume_values),
                   answers |-> current_resume_values]
  <2>2. v.channel = "__interrupt__" /\ v.ckpt = last_ckpt_id /\ v.node = pending_tasks[i].node
        /\ v \in pending_writes'
    BY <2>1 DEF TaskInterrupted, PutWrites, AnswersKept
  <2>3. Asked' = [ckpt |-> last_ckpt_id, node |-> {pending_tasks[i].node}]
    BY <2>1 DEF TaskInterrupted, Return, Asked
  <2> HIDE DEF v
  <2>4. Asked'.node = {v.node} /\ Asked'.ckpt = v.ckpt
    BY <2>2, <2>3
  <2>5. Booked(Asked)'
    BY <2>2, <2>4 DEF Booked
  <2>6. question' = question
    BY <1>6, RunningIsNext DEF user
  <2>7. Booked(question)'
    BY <1>1, <2>6 DEF Booked
  <2> QED
    BY <2>5, <2>7
<1>7. CASE Running /\ ~ \E i \in running : TaskInterrupted(i)
  <2>1. question' = question
    BY <1>7, RunningIsNext DEF user
  <2>2. outcome'.why # "NodeInterrupt" \/ outcome' = outcome
    <3>1. CASE Resting
      BY <1>7, <3>1, RestingSteps DEF Background, DeliverPut, Cancel
    <3>2. CASE StopBefore
      BY <3>2 DEF StopBefore, Return
    <3>3. CASE ~Resting /\ ~StopBefore
      BY <1>7, <3>3, OtherEnds DEF GraphInv, RestInv, Interrupts
    <3> QED
      BY <3>1, <3>2, <3>3
  <2> QED
    BY <1>2, <2>1, <2>2 DEF Asked
<1>8. CASE UNCHANGED graphVars
  BY <1>2, <1>8 DEF Asked, graphVars, vars, user
<1> QED
  BY <1>3, <1>4, <1>5, <1>6, <1>7, <1>8 DEF GraphNext, GraphTerminated

\* The loop's steps that start, end or pass a superstep.
LEMMA AskLoop ==
    ASSUME [Next]_vars, ~Call
    PROVE  \/ pc' = "ended"
           \/ TasksJoined
           \/ NextSuperstep
           \/ /\ UNCHANGED <<pending_tasks, current_resume_values>>
              /\ \/ pc' = pc
                 \/ pc = "top" /\ pc' = "run"
                 \/ pc \in {"collect", "persist", "after"} /\ pc' \in {"persist", "after", "route"}
<1>1. CASE \/ RecursionLimit \/ Finish \/ FinishFails \/ Cancelled \/ StopBefore \/ NodeNotFound
           \/ MergeFails \/ PersistFails \/ StopAfter \/ RouteUnreachable
           \/ \E i \in running : TaskInterrupted(i) \/ TaskFailed(i)
  BY <1>1 DEF RecursionLimit, Finish, FinishFails, Cancelled, StopBefore, NodeNotFound, MergeFails,
              PersistFails, StopAfter, RouteUnreachable, TaskInterrupted, TaskFailed, Return
<1>2. CASE Merge
  BY <1>2 DEF Merge, Collected, Return, loop
<1>3. CASE \/ StartTasks \/ CollectParent \/ CollectUpdate \/ PersistSync \/ PersistAsync
           \/ PersistExit \/ BeginRouting
  BY <1>3 DEF StartTasks, ReadyToRun, InLoop, CollectParent, CollectUpdate, PersistSync,
              PersistAsync, PersistExit, BeginRouting, loop
<1>4. CASE \/ RouteGoto \/ RouteJoin \/ RouteEdge \/ Background \/ Cancel \/ UNCHANGED vars
           \/ Terminated \/ \E i \in running : TaskDone(i)
  BY <1>4 DEF RouteGoto, RouteJoin, RouteEdge, Background, DeliverPut, Cancel, TaskDone, Terminated,
              vars, locals, loop
<1> QED
  BY <1>1, <1>2, <1>3, <1>4 DEF Next, Engine, RunTask

\* The entry a step makes holds the answers its superstep ran with.
LEMMA WritesFor ==
    ASSUME GraphInv, AskInv, heeded, Running
    PROVE  \A w \in pending_writes' : For(w.answers, w.node)
<1>1. CASE StopBefore
  <2> DEFINE v == [ckpt |-> last_ckpt_id, channel |-> "marker",
                   node |-> pending_tasks[1].node, index |-> 0, answers |-> <<>>]
  <2>1. v.answers = <<>> /\ pending_writes' \in {pending_writes, pending_writes \cup {v}}
    BY <1>1 DEF StopBefore, PutWrites
  <2> HIDE DEF v
  <2> QED
    BY <2>1 DEF AskInv, For
<1>2. ASSUME NEW i \in running, TaskInterrupted(i)
      PROVE  \A w \in pending_writes' : For(w.answers, w.node)
  <2> DEFINE v == [ckpt |-> last_ckpt_id, channel |-> "__interrupt__",
                   node |-> pending_tasks[i].node, index |-> Len(current_resume_values),
                   answers |-> current_resume_values]
  <2>1. /\ v.answers = current_resume_values /\ v.node = pending_tasks[i].node
        /\ pending_writes' \in {pending_writes, pending_writes \cup {v}}
    BY <1>2 DEF TaskInterrupted, PutWrites
  <2> HIDE DEF v
  <2>2. pc = "run" /\ i \in DOMAIN pending_tasks
    BY <1>2 DEF TaskInterrupted, GraphInv, TypeInv, ZipIsTotal
  <2> QED
    BY <2>1, <2>2 DEF AskInv
<1>3. CASE pending_writes' = pending_writes
  BY <1>3 DEF AskInv
<1>4. Finish \/ PersistSync \/ PersistAsync \/ PersistExit \/ Background
      => pending_writes' = pending_writes
  BY DEF Finish, PersistSync, PersistAsync, PersistExit, Background, DeliverPut
<1> QED
  BY <1>1, <1>2, <1>3, <1>4, QuietSteps DEF saver

LEMMA AskRunning ==
    ASSUME AnswersKept, GraphInv, AskInv, Running, [GraphNext]_graphVars
    PROVE  AskInv'
<1>0. /\ [Next]_vars /\ request' = request /\ heeded' = heeded
      /\ Booked(Asked)' /\ Booked(question)'
  BY RunningIsNext, BookedKept DEF AskInv, user
<1>1. heeded' => /\ \A w \in pending_writes' : For(w.answers, w.node)
                 /\ For(request'.answers, request'.node)
  BY <1>0, WritesFor DEF AskInv
<1>2. CASE Resting
  <2>1. UNCHANGED <<pc, pending_tasks, current_resume_values>>
    BY <1>2, RestingSteps DEF Background, DeliverPut, Cancel, locals, loop
  <2> QED
    BY <1>0, <1>1, <1>2, <2>1 DEF AskInv, Resting
<1>3. CASE ~Resting
  <2>1. ~Call
    BY <1>3 DEF Call, Resting
  <2>2. CASE pc' = "ended"
    BY <1>0, <1>1, <2>2 DEF AskInv
  <2>3. CASE TasksJoined
    <3>1. pc' = "collect" /\ current_resume_values' = <<>>
      BY <2>3 DEF TasksJoined
    <3> QED
      BY <1>0, <1>1, <3>1 DEF AskInv
  <2>4. CASE NextSuperstep
    <3>1. pc = "route" /\ pc' = "top" /\ current_resume_values' = current_resume_values
      BY <2>4 DEF NextSuperstep
    <3> QED
      BY <1>0, <1>1, <3>1 DEF AskInv, For
  <2>5. CASE /\ UNCHANGED <<pending_tasks, current_resume_values>>
             /\ \/ pc' = pc
                \/ pc = "top" /\ pc' = "run"
                \/ pc \in {"collect", "persist", "after"} /\ pc' \in {"persist", "after", "route"}
    BY <1>0, <1>1, <2>5 DEF AskInv
  <2> QED
    BY <1>0, <2>1, <2>2, <2>3, <2>4, <2>5, AskLoop
<1> QED
  BY <1>2, <1>3

LEMMA AskKept ==
    ASSUME AnswersKept, GraphInv, IdsInv, AskInv, [GraphNext]_graphVars
    PROVE  AskInv'
<1>0. Booked(Asked)' /\ Booked(question)'
  BY BookedKept DEF AskInv
<1>1. CASE LoadInvoke \/ LoadResume \/ LoadUpdate
  <2>1. Resting /\ UNCHANGED <<pc, pending_writes, pending_tasks, current_resume_values>>
    BY <1>1 DEF LoadInvoke, LoadResume, LoadUpdate, Load, Resting, saver
  <2>2. heeded' => heeded /\ For(request'.answers, request'.node)
    <3>1. CASE LoadInvoke \/ LoadUpdate
      <4>1. request'.answers = <<>> /\ heeded' = heeded
        BY <3>1 DEF LoadInvoke, LoadUpdate, NoRequest, Told
      <4> QED
        BY <4>1 DEF For
    <3>2. CASE LoadResume
      <4>1. heeded' => heeded
        BY <3>2 DEF LoadResume
      <4> QED
        BY <3>2, <4>1, ResumeAsks
    <3> QED
      BY <1>1, <3>1, <3>2
  <2> QED
    BY <1>0, <2>1, <2>2 DEF AskInv, Resting
<1>2. CASE BeginInvoke \/ BeginResume
  <2>1. /\ pc' = "top" /\ request' = NoRequest /\ heeded' = heeded
        /\ pending_writes' = pending_writes
        /\ \/ current_resume_values' = <<>>
           \/ /\ pending_tasks' = <<Pull(request.node)>>
              /\ current_resume_values' = request.answers
    BY <1>2 DEF BeginInvoke, BeginResume, Begun, Execute, user
  <2>2. heeded => \A i \in DOMAIN pending_tasks' :
                      For(current_resume_values', pending_tasks'[i].node)
    <3>1. CASE current_resume_values' = <<>>
      BY <3>1 DEF For
    <3>2. CASE pending_tasks' = <<Pull(request.node)>> /\ current_resume_values' = request.answers
      BY <3>2 DEF AskInv, For, Pull
    <3> QED
      BY <2>1, <3>1, <3>2
  <2>3. For(request'.answers, request'.node)
    BY <2>1 DEF NoRequest, For
  <2> QED
    BY <1>0, <2>1, <2>2, <2>3 DEF AskInv
<1>3. CASE BeginWithoutEntry \/ SaveUpdate \/ CallFails \/ Crash
  <2>1. Resting' /\ request' = NoRequest /\ heeded' = heeded /\ pending_writes' = pending_writes
    BY <1>3 DEF BeginWithoutEntry, SaveUpdate, CallFails, Crash, Begun, Return, NoRequest, Resting,
                GraphInv, RestInv, saver, user
  <2>2. For(request'.answers, request'.node)
    BY <2>1 DEF NoRequest, For
  <2> QED
    BY <1>0, <2>1, <2>2 DEF AskInv, Resting
<1>4. CASE Running
  BY <1>4, AskRunning
<1>5. CASE UNCHANGED graphVars
  BY <1>0, <1>5 DEF AskInv, graphVars, vars, locals, loop, saver, user
<1> QED
  BY <1>1, <1>2, <1>3, <1>4, <1>5 DEF GraphNext, GraphTerminated

LEMMA AskInductive == GraphSpec => [](GraphInv /\ (AnswersKept => AskInv))
<1> DEFINE Inv == AnswersKept => AskInv
<1>1. GraphInit => Inv
  <2> SUFFICES ASSUME GraphInit PROVE AskInv
    OBVIOUS
  <2>1. /\ pc = "idle" /\ outcome = NoOutcome /\ pending_writes = {} /\ request = NoRequest
        /\ question = NoQuestion
    BY DEF GraphInit, Idle
  <2> QED
    BY <2>1 DEF AskInv, NoOutcome, NoRequest, NoQuestion, For, Asked, Booked
<1>2. GraphInv /\ IdsInv /\ Inv /\ [GraphNext]_graphVars => Inv'
  BY AskKept DEF AnswersKept
<1> QED
  BY <1>1, <1>2, IdsInductive, PTL DEF GraphSpec

\* The resume value is passed to the node that called interrupt(), of every
\* user who answers the question last put to them while its checkpoint is the
\* newest, and whose answers put_writes has kept: whatever the graph and the
\* durability, through background saves, other invokes and updates, crashed
\* and failed resumes, and any number of interrupt() calls (engine.rs:488).
THEOREM AnswerSafety == GraphSpec => [](AnswersKept => AnswersReachAsker)
<1>1. (AnswersKept => AskInv) => (AnswersKept => AnswersReachAsker)
  BY DEF AskInv, For, AnswersReachAsker
<1> QED
  BY <1>1, AskInductive, PTL

-----------------------------------------------------------------------------
(* The interrupt the user holds.                                           *)

\* Where nothing but invokes and resumes touch the thread and every write
\* lands before the call that made it returns.
RecordKept == AllSync /\ "saver" \notin Faults /\ "update" \notin Ops

\* The interrupt the user was told of is the newest checkpoint's.
HeldInv ==
    /\ outcome.why \in Interrupts => Len(store) > 0 /\ outcome.ckpt = Len(store)
    /\ request.op # "update"

LEMMA HeldRunning ==
    ASSUME RecordKept, GraphInv, HistoryInv, HeldInv, Running
    PROVE  HeldInv'
<1>0. /\ ThreadInv /\ request' = request /\ HasSaver
      /\ durability = "Sync" /\ inflight = {}
      /\ ~Resting => request = NoRequest /\ outcome = NoOutcome
  BY RunningIsNext DEF HistoryInv, TreeInv, GraphInv, RestInv, RecordKept, AllSync
<1>1. CASE Resting
  <2>1. UNCHANGED <<outcome, store>>
    BY <1>0, <1>1, RestingSteps DEF Background, Cancel, saver
  <2> QED
    BY <1>0, <2>1 DEF HeldInv
<1>2. CASE ~Resting
  <2>1. CASE StopBefore \/ \E i \in running : TaskInterrupted(i)
    <3>1. StopBefore => store' = store /\ outcome'.ckpt = last_ckpt_id
      BY DEF StopBefore, Return
    <3>2. ASSUME NEW i \in running, TaskInterrupted(i)
          PROVE  store' = store /\ outcome'.ckpt = last_ckpt_id
      BY <3>2 DEF TaskInterrupted, Return
    <3>3. store' = store /\ outcome'.ckpt = last_ckpt_id
      BY <2>1, <3>1, <3>2
    <3> QED
      BY <1>0, <1>2, <3>3 DEF ThreadInv, HeldInv
  <2> QED
    BY <1>0, <1>2, <2>1, OtherEnds DEF HeldInv
<1> QED
  BY <1>1, <1>2

LEMMA HeldKept ==
    ASSUME RecordKept, GraphInv, HistoryInv, HeldInv, [GraphNext]_graphVars
    PROVE  HeldInv'
<1>1. CASE LoadInvoke \/ LoadResume
  <2>1. outcome' = outcome /\ store' = store
    BY <1>1 DEF LoadInvoke, LoadResume, Load, saver
  <2>2. request'.op # "update"
    <3>1. CASE LoadInvoke
      <4>1. PICK input \in Inputs : request' = [NoRequest EXCEPT !.op = "invoke", !.writes = input]
        BY <3>1 DEF LoadInvoke
      <4>2. request' = [op |-> "invoke", writes |-> input, node |-> EntryField, answers |-> <<>>]
        BY <4>1 DEF NoRequest
      <4> QED
        BY <4>2
    <3>2. CASE LoadResume
      BY <3>2 DEF LoadResume
    <3> QED
      BY <1>1, <3>1, <3>2
  <2> QED
    BY <2>1, <2>2 DEF HeldInv
<1>2. CASE \/ BeginInvoke \/ BeginResume \/ BeginWithoutEntry \/ CallFails \/ Crash
  <2>1. CASE BeginInvoke \/ BeginResume \/ Crash
    <3>1. request' = NoRequest /\ outcome' = NoOutcome
      BY <2>1 DEF BeginInvoke, BeginResume, Crash, Begun, Execute
    <3>2. request'.op = "none" /\ outcome'.why = "none"
      BY <3>1 DEF NoRequest, NoOutcome
    <3> QED
      BY <3>2 DEF HeldInv, Interrupts
  <2>2. CASE BeginWithoutEntry \/ CallFails
    <3>1. request' = NoRequest /\ outcome'.why \in {"NoEntry", "saver", "reducer"}
      BY <2>2 DEF BeginWithoutEntry, CallFails, Begun, Return
    <3> QED
      BY <3>1 DEF HeldInv, Interrupts, NoRequest
  <2> QED
    BY <1>2, <2>1, <2>2
<1>3. ~LoadUpdate /\ ~SaveUpdate
  BY DEF RecordKept, LoadUpdate, HeldInv, SaveUpdate, Begun
<1>4. CASE Running
  BY <1>4, HeldRunning
<1>5. CASE UNCHANGED graphVars
  BY <1>5 DEF HeldInv, graphVars, vars, saver
<1> QED
  BY <1>1, <1>2, <1>3, <1>4, <1>5 DEF GraphNext, GraphTerminated

\* In such a thread the interrupt the user holds stays resumable: its
\* checkpoint is the newest and bears the entry that names the node, until the
\* next call begins (engine.rs:174, 222).
THEOREM InterruptRecorded == GraphSpec => [](RecordKept => InterruptIsRecorded)
<1> DEFINE Held == RecordKept => HeldInv
           Entered == "saver" \notin Faults => InterruptInv
<1>1. GraphInit => Held
  BY DEF GraphInit, Idle, NoOutcome, NoRequest, HeldInv, Interrupts
<1>2. GraphInv /\ (AllSync => HistoryInv) /\ Held /\ [GraphNext]_graphVars => Held'
  BY HeldKept DEF RecordKept
<1>3. /\ GraphInv /\ (AllSync => HistoryInv) /\ Entered /\ Held
      => (RecordKept => InterruptIsRecorded)
  <2> SUFFICES ASSUME GraphInv, AllSync, HistoryInv, InterruptInv, HeldInv,
                      outcome.why \in Interrupts
               PROVE  /\ Latest.id = outcome.ckpt
                      /\ \E w \in pending_writes : /\ w.ckpt = outcome.ckpt
                                                   /\ outcome.node = {w.node}
                                                   /\ w.index = Len(w.answers)
    BY DEF InterruptIsRecorded, RecordKept, Interrupts
  <2>1. store \in Seq(CheckpointType)
    BY DEF GraphInv, TypeInv, TypeOK, SaverType
  <2>2. Len(store) \in DOMAIN store /\ outcome.ckpt = Len(store)
    BY <2>1 DEF HeldInv
  <2>3. Latest.id = outcome.ckpt
    BY <2>2 DEF HistoryInv, TreeInv, Latest
  <2>4. \E w \in pending_writes : EntryOf(w)
    BY DEF InterruptInv, AllSync
  <2> QED
    BY <2>3, <2>4 DEF EntryOf
<1> QED
  BY <1>1, <1>2, <1>3, HistoryInductive, InterruptInductive, PTL DEF GraphSpec
=============================================================================
