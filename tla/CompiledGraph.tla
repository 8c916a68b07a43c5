---------------------------- MODULE CompiledGraph ----------------------------
(***************************************************************************)
(* A thread's life: the calls invoke, resume and update_state that one     *)
(* user makes one after the other on a compiled graph, the checkpoints     *)
(* they share through the saver, and crashes of the process in between.    *)
(*                                                                         *)
(* A call loads a checkpoint tuple (get_tuple), rebuilds the channels from *)
(* it and applies the user's values; then it saves a checkpoint of its own *)
(* and, save for update_state, runs PregelLoop.  Other tasks may run       *)
(* between the two, so they are two actions.  question and heeded are      *)
(* history variables: no guard reads them.                                 *)
(***************************************************************************)
EXTENDS PregelLoop, Integers

CONSTANTS
    EntryField,      \* PregelLoop.entry: a node, or START
    StartEdge,       \* START's conditional edge: the decisions it can take
    Inputs,          \* the sets of keys a user's values may name
    Ops,             \* the calls the user makes
    CheckpointIds,   \* GraphConfig.checkpoint_id: "latest" (None), "stored"
                     \* or "unknown"
    MayCrash,
    MaxCalls         \* bound on the calls made

START == "__start__"

ASSUME ThreadAssumption ==
    /\ EntryField \in Name /\ START \in Name \ Node
    /\ StartEdge \subseteq Seq(Task)
    /\ Inputs \subseteq SUBSET Key
    /\ Ops \subseteq {"invoke", "resume", "update"}
    /\ CheckpointIds \subseteq {"latest", "stored", "unknown"}
    /\ MayCrash \in BOOLEAN /\ MaxCalls \in Nat

VARIABLES
    request,         \* the call that has loaded its tuple and not yet saved
    calls,           \* calls made so far
    question,        \* the last interrupt() the user was told of
    heeded           \* every answer sent so far was to the newest checkpoint

user == <<question, heeded>>
graphVars == <<vars, request, calls, user>>

NoRequest == [op |-> "none", writes |-> {}, node |-> EntryField, answers |-> <<>>]
Request == [op : {"none", "invoke", "resume", "update"}, writes : SUBSET Key,
            node : Name, answers : Seq(Name)]

NoQuestion == [ckpt |-> 0, node |-> {}]

-----------------------------------------------------------------------------
(* What a checkpoint tuple tells the next call.                            *)

\* Mutant of NoTuple: the first step of a new thread is -1.
NoTupleFromMinusOne ==
    [id |-> 0, step |-> -2, writes |-> {}, source |-> "none", parent |-> 0,
     vals |-> [c \in Chan |-> <<>>], versions |-> [c \in Chan |-> 0],
     seen_versions |-> [n \in Name |-> [c \in Chan |-> 0]]]

\* get_tuple's None, as the tuple the defaults stand for.
NoTuple == [id |-> 0, step |-> -1, writes |-> {}, source |-> "none", parent |-> 0,
            vals |-> [c \in Chan |-> <<>>], versions |-> [c \in Chan |-> 0],
            seen_versions |-> [n \in Name |-> [c \in Chan |-> 0]]]

\* get_tuple(thread, None).
Newest == IF store = <<>> THEN NoTuple ELSE Latest

\* get_tuple(thread, config.checkpoint_id): an id that is not stored is None.
Chosen(how) == CASE how = "latest"  -> {Newest}
                 [] how = "stored"  -> {store[i] : i \in DOMAIN store}
                 [] how = "unknown" -> {NoTuple}

WritesOf(t, channel) == {w \in pending_writes : w.ckpt = t.id /\ w.channel = channel}

\* resolve_next over one edge's decisions: a Static target or a router's Next;
\* End and Send are None.
Single(edge) == {tasks[1].node : tasks \in {q \in edge : Len(q) = 1 /\ q[1].type = "Pull"}}
MayBeNone(edge) == \E tasks \in edge : ~(Len(tasks) = 1 /\ tasks[1].type = "Pull")

\* metadata.writes.keys().next(): some channel of the step's writes, looked up
\* among the edges as if it were a node.
Keys(t) == t.writes \cap DOMAIN Edges

\* resolve_next of the first key: a node it may answer with, and whether it
\* may have none.
NextOfKeys(t) == UNION {Single(Edges[k]) : k \in Keys(t)}
NoNext(t) == \/ t.writes = {}
             \/ \E k \in t.writes : k \in Keys(t) => MayBeNone(Edges[k])

\* determine_resume_node.  The engine's put_writes name no interrupt_after
\* node, so that branch of the code is never taken.
ResumeNodes(t) ==
    LET asked  == {w.node : w \in WritesOf(t, "__interrupt__")}
        marked == {w.node : w \in WritesOf(t, "marker")} \cap InterruptBefore
    IN  IF asked # {} THEN asked
        ELSE IF marked # {} THEN marked
        ELSE NextOfKeys(t) \cup IF NoNext(t) THEN {EntryField} ELSE {}

\* Mutant of SavedAnswers: __resume__ is not read back.
NoSavedAnswers(t) == <<>>

\* extract_resume_values, before the command's value is appended.
SavedAnswers(t) ==
    LET asked == WritesOf(t, "__interrupt__")
    IN  IF asked = {} THEN <<>> ELSE (CHOOSE w \in asked : TRUE).answers

-----------------------------------------------------------------------------
(* The first half of a call: load, rebuild, apply.                         *)

\* init_channels over the tuple, then apply_updates of the user's values.
Load(t, writes) ==
    /\ pc \in {"idle", "ended"} /\ request = NoRequest /\ calls < MaxCalls
    /\ calls' = calls + 1
    /\ durability' \in Durabilities
    /\ step' = t.step + 1
    /\ last_ckpt_id' = t.id
    /\ channels' = [c \in Chan |->
           Update(Kind[c], FromCheckpoint(Kind[c], t.vals[c]),
                  IF c \in writes THEN <<[step |-> step', by |-> 0, over |-> FALSE]>> ELSE <<>>)]
    /\ channel_versions' = [c \in Chan |-> t.versions[c] + IF c \in writes THEN 1 ELSE 0]
    /\ cancel' = FALSE
    /\ UNCHANGED <<pc, superstep, pending_tasks, first_iteration, current_resume_values,
                   results, at, collected, routed, outcome, saver>>

\* A result tells its caller; of a process that died the user may or may not
\* have read the last one.
Asked == IF outcome.why = "NodeInterrupt"
         THEN [ckpt |-> outcome.ckpt, node |-> outcome.node] ELSE question
Told == question' = Asked /\ UNCHANGED heeded

LoadInvoke ==
    /\ "invoke" \in Ops /\ Told
    /\ \E how \in CheckpointIds, input \in Inputs : \E t \in Chosen(how) :
        /\ Load(t, input)
        /\ versions_seen' = t.seen_versions
        /\ request' = [NoRequest EXCEPT !.op = "invoke", !.writes = input]

\* Command.resume: any call may carry one.  A value is known by the node it is
\* meant for.
Replies == {<<>>} \cup {<<n>> : n \in Node}

\* The answer is to the question last put, and the checkpoint it was put at is
\* the thread's newest still.
Due(reply) == reply # <<>> => /\ Asked.ckpt = Latest.id
                              /\ reply[1] \in Asked.node

LoadResume ==
    /\ "resume" \in Ops /\ store # <<>>
    /\ \E update \in {{}} \cup Inputs, reply \in Replies, n \in ResumeNodes(Latest) :
        /\ Load(Latest, update)
        /\ request' = [op |-> "resume", writes |-> update, node |-> n,
                       answers |-> SavedAnswers(Latest) \o reply]
        /\ heeded' = (heeded /\ Due(reply))
    /\ question' = Asked
    /\ versions_seen' = Latest.seen_versions

LoadUpdate ==
    /\ "update" \in Ops /\ Told
    /\ \E input \in Inputs, as_node \in SUBSET Node :
        /\ Load(Newest, input)
        /\ Cardinality(as_node) <= 1
        /\ versions_seen' = [n \in Name |-> IF n \in as_node THEN channel_versions'
                                            ELSE Newest.seen_versions[n]]
        /\ request' = [NoRequest EXCEPT !.op = "update", !.writes = input]

-----------------------------------------------------------------------------
(* The second half: save, and run.                                         *)

Begun(op) == request.op = op /\ request' = NoRequest /\ UNCHANGED <<calls, user>>

\* invoke saves the input before it asks START's edge for the entry node.
BeginInvoke ==
    /\ Begun("invoke")
    /\ SaveCheckpoint("Input", step, request.writes)
    /\ \E n \in IF EntryField = START THEN Single(StartEdge) ELSE {EntryField} :
            Execute(n, step + 1, last_ckpt_id', FALSE, <<>>)
    /\ UNCHANGED <<state, cancel, inflight, pending_writes, announced>>

\* "START conditional edge resolved to END".
BeginWithoutEntry ==
    /\ Begun("invoke") /\ EntryField = START /\ MayBeNone(StartEdge)
    /\ SaveCheckpoint("Input", step, request.writes)
    /\ Return("Err", "NoEntry", {}, last_ckpt_id')
    /\ UNCHANGED <<loop, cancel, results, at, collected, routed, state,
                   inflight, pending_writes, announced>>

\* Mutant of BeginResume: the run goes on under the interrupted checkpoint.
BeginResumeUnsaved ==
    /\ Begun("resume")
    /\ Execute(request.node, step, last_ckpt_id, TRUE, request.answers)
    /\ UNCHANGED <<state, cancel, saver>>

\* resume records no writes, whatever the command updated.
BeginResume ==
    /\ Begun("resume")
    /\ SaveCheckpoint("Resume", step, {})
    /\ Execute(request.node, step + 1, last_ckpt_id', TRUE, request.answers)
    /\ UNCHANGED <<state, cancel, inflight, pending_writes, announced>>

\* Mutant of SaveUpdate: the step of the checkpoint it updates is kept.
SaveUpdateInPlace ==
    /\ Begun("update")
    /\ SaveCheckpoint("Update", step - 1, request.writes)
    /\ UNCHANGED <<pc, loop, cancel, results, at, collected, routed, state, outcome,
                   inflight, pending_writes, announced>>

SaveUpdate ==
    /\ Begun("update")
    /\ SaveCheckpoint("Update", step, request.writes)
    /\ UNCHANGED <<pc, loop, cancel, results, at, collected, routed, state, outcome,
                   inflight, pending_writes, announced>>

\* apply_updates fails on one of the user's values.
ValueRejected == \E c \in request.writes \cap Chan :
                     Kind[c] = "BinaryOperatorAggregate" /\ Len(channels[c]) > 1

CallFails ==
    /\ request # NoRequest /\ Begun(request.op)
    /\ \/ "saver" \in Faults /\ Return("Err", "saver", {}, last_ckpt_id)
       \/ "reducer" \in Faults /\ ValueRejected
          /\ Return("Err", "reducer", {}, last_ckpt_id)
    /\ UNCHANGED <<locals, saver>>

-----------------------------------------------------------------------------
(* The process dies or the caller drops the future.  Dropping it leaves    *)
(* the spawned saves running; a crash takes them along.                    *)
Crash ==
    /\ MayCrash /\ (pc # "idle" \/ request # NoRequest)
    /\ pc' = "idle" /\ request' = NoRequest /\ outcome' = NoOutcome
    /\ running' = {}
    /\ inflight' \in {inflight, {}}
    /\ question' \in {question, Asked}
    /\ UNCHANGED <<loop, last_ckpt_id, task_results, at, collected, routed, state,
                   cancel, store, pending_writes, uuids, announced, calls, heeded>>

Rest == pc \in {"idle", "ended"} /\ request = NoRequest

Running == (Engine \/ RunTask \/ Background \/ (Cancel /\ ~Rest))
           /\ UNCHANGED <<request, calls, user>>

GraphInit ==
    /\ Idle /\ last_ckpt_id = 0 /\ uuids = 0 /\ store = <<>>
    /\ request = NoRequest /\ calls = 0
    /\ question = NoQuestion /\ heeded = TRUE

GraphTerminated == Rest /\ UNCHANGED graphVars

GraphNext ==
    \/ LoadInvoke \/ LoadResume \/ LoadUpdate
    \/ BeginInvoke \/ BeginWithoutEntry \/ BeginResume \/ SaveUpdate \/ CallFails
    \/ Crash \/ Running \/ GraphTerminated

GraphSpec == GraphInit /\ [][GraphNext]_graphVars

-----------------------------------------------------------------------------
(* Properties.                                                             *)

UserType == question \in [ckpt : Nat, node : SUBSET Name] /\ heeded \in BOOLEAN

\* Every variable holds a value of its type, the request between the two
\* halves of a call included.
GraphTypeOK == TypeOK /\ request \in Request /\ calls \in Nat /\ UserType

AllSync == HasSaver /\ Durabilities = {"Sync"}

ParentOf(i) == {k \in DOMAIN store : store[k].id = store[i].parent}

\* The thread's checkpoints form a forest: each is a root of step 0, or one
\* step after a parent saved before it, whatever calls and crashes lie in
\* between and whichever checkpoint a call branched from.
HistoryIsTree ==
    AllSync =>
        \A i \in DOMAIN store :
            \/ store[i].parent = 0 /\ store[i].step = 0
            \/ \E k \in ParentOf(i) : k < i /\ store[i].step = store[k].step + 1

\* What a checkpoint holds of an aggregating channel is what its parent holds
\* and the writes of its own step: no call, resume or branch loses a write,
\* repeats one, or takes one from another branch.  (Of outputs that do not
\* overwrite.)
HistoryGrows ==
    AllSync =>
        \A i \in DOMAIN store, c \in Aggregates : \A k \in ParentOf(i) :
            LET mine   == store[i].vals[c]
                theirs == store[k].vals[c]
            IN  /\ Len(mine) >= Len(theirs) /\ SubSeq(mine, 1, Len(theirs)) = theirs
                /\ \A e \in Len(theirs) + 1 .. Len(mine) : mine[e].step = store[i].step

\* A checkpoint carries the entries of one interrupt at most, so the order in
\* which determine_resume_node searches them does not matter.
InterruptOnce == \A v, w \in pending_writes : v.ckpt = w.ckpt => v = w

\* The resume value is passed to the node that called interrupt()
\* (interrupt.md): in a superstep that runs with answers every task is of the
\* node they were given to.  Of users who answer the question last put to them
\* while its checkpoint is the thread's newest, as often as they like; the
\* answer sent to any other checkpoint is the entry node's.
AnswersReachAsker ==
    heeded /\ pc = "run" =>
        \A i \in DOMAIN pending_tasks, k \in DOMAIN current_resume_values :
            current_resume_values[k] = pending_tasks[i].node

ResumesFrom(why) ==
    /\ request.op = "resume" /\ request' = NoRequest /\ pc' = "top"
    /\ outcome.why \in why /\ outcome.ckpt = last_ckpt_id

\* A resume of the interrupt the user was told of starts at the node that was
\* named, and gives it the answers it had before and the new one.
ResumeContinues ==
    [][ResumesFrom({"InterruptBefore", "NodeInterrupt"}) =>
          /\ outcome.node = {pending_tasks'[1].node}
          /\ outcome.why = "NodeInterrupt" =>
                \E reply \in Replies :
                    current_resume_values' = current_resume_values \o reply]_graphVars
=============================================================================
