----------------------------- MODULE TaskRunner -----------------------------
(***************************************************************************)
(* execute_tasks_parallel: the tasks of one superstep, each run under the  *)
(* retry policy and the timeout that apply to its node, at most            *)
(* max_concurrency of them at a time.                                      *)
(*                                                                         *)
(* A single task runs inside the caller.  Several are spawned on a JoinSet *)
(* and run on other threads: each waits for a permit of the semaphore,     *)
(* executes its node, and is joined.  Time is counted in ticks.            *)
(***************************************************************************)
EXTENDS Naturals, FiniteSets

CONSTANTS
    MaxTasks,        \* bound on the tasks of the superstep
    Missing,         \* tasks whose node is not registered
    FnNodes,         \* tasks whose node is an FnNode
    NodeRetry,       \* GraphNode::retry_policy of each task's node
    GraphRetry,      \* CompileConfig.retry_policy
    NodeTimeout,     \* GraphNode::timeout of each task's node
    StepTimeout,     \* GraphConfig.step_timeout
    Limits,          \* the values GraphConfig.max_concurrency may have
    Ends,            \* task |-> how an attempt may end; {} hangs
    Asks,            \* task |-> most calls of interrupt() an attempt makes
    Answers          \* resume values handed to every task

\* An Option: None is {}, Some(x) is {x}.
Option(S) == \A x, y \in S : x = y

\* RetryPolicy, its intervals in ticks, its factor num / den: nothing checks
\* its fields, so intervals may be 0 and a factor may shrink them.  A negative
\* factor acts as 0; an infinite or NaN one, which sets every later interval
\* to the cap, is left out.
Policy == [max : Nat, initial : Nat, num : Nat, den : Nat \ {0}, cap : Nat,
           jitter : BOOLEAN]

Slot == 1 .. MaxTasks

ASSUME RunnerAssumption ==
    /\ MaxTasks \in Nat \ {0}
    /\ Missing \subseteq Slot /\ FnNodes \subseteq Slot
    /\ \A t \in Slot : \A p \in NodeRetry[t] \cup GraphRetry : p \in Policy
    /\ \A t \in Slot : \A d \in NodeTimeout[t] \cup StepTimeout : d \in Nat
    /\ Option(GraphRetry) /\ Option(StepTimeout)
    /\ \A t \in Slot : Option(NodeRetry[t]) /\ Option(NodeTimeout[t])
    /\ \A S \in Limits : Option(S) /\ S \subseteq Nat
    /\ Ends \in [Slot -> SUBSET {"ok", "retryable", "fatal"}]
    /\ Asks \in [Slot -> Nat] /\ Answers \in Nat

VARIABLES
    count, limit,    \* the superstep's tasks are 1 .. count; max_concurrency
    pc,              \* the caller: "spawn", "join" or "returned"
    cursor,          \* the next task to spawn
    stage,           \* where each task is
    aborted,         \* tasks abort_all has reached
    attempts, interval, sleep,  \* locals of execute_with_retry
    elapsed,         \* ticks since the timeout was armed
    counter,         \* interrupt_counter of the context in use
    asked,           \* calls of interrupt() in this attempt
    permits,         \* the semaphore
    finished,        \* tasks complete and not yet joined
    results,         \* tasks whose outputs have been collected
    verdict          \* "none", "ok", "err" or "dropped"

call == <<count, limit>>
caller == <<call, pc, cursor, results, verdict>>
retrying == <<attempts, interval, sleep>>
context == <<counter, asked>>
tasks == <<stage, aborted, retrying, elapsed, context, permits, finished>>
vars == <<caller, tasks>>

Stages == {"unborn", "waiting", "running", "sleeping", "ok", "err", "gone"}

Parallel == count > 1
Limited == Parallel /\ limit # {}

\* node.retry_policy().or(retry_policy)
RetryOf(t) == IF NodeRetry[t] # {} THEN NodeRetry[t] ELSE GraphRetry
\* node.timeout().or(step_timeout)
DeadlineOf(t) == IF NodeTimeout[t] # {} THEN NodeTimeout[t] ELSE StepTimeout

Holders == {t \in Slot : stage[t] \in {"running", "sleeping"}}
Unfinished == {t \in Slot : stage[t] \in {"waiting", "running", "sleeping"}}

-----------------------------------------------------------------------------
(* The caller.                                                             *)

\* One turn of the loop that spawns the tasks; a single task starts at once.
Spawn ==
    /\ pc = "spawn" /\ cursor <= count /\ cursor \notin Missing
    /\ cursor' = cursor + 1
    /\ stage' = [stage EXCEPT ![cursor] = IF Parallel THEN "waiting" ELSE "running"]
    /\ UNCHANGED <<call, pc, results, verdict, aborted, retrying, elapsed, context,
                   permits, finished>>

\* The results and the JoinSet are dropped; dropping it aborts its tasks.
Leave(v) ==
    /\ pc' = "returned" /\ verdict' = v
    /\ aborted' = Unfinished
    /\ UNCHANGED <<call, cursor, results, stage, retrying, elapsed, context, permits,
                   finished>>

NodeNotFound ==
    /\ pc = "spawn" /\ cursor <= count /\ cursor \in Missing
    /\ Leave("err")

AllSpawned ==
    /\ pc = "spawn" /\ cursor > count
    /\ pc' = "join"
    /\ UNCHANGED <<call, cursor, results, verdict, tasks>>

\* join_next yields a task that returned an output.
JoinNext(t) ==
    /\ pc = "join" /\ t \in finished /\ stage[t] = "ok"
    /\ finished' = finished \ {t}
    /\ results' = results \cup {t}
    /\ UNCHANGED <<call, pc, cursor, verdict, stage, aborted, retrying, elapsed,
                   context, permits>>

\* join_next yields a task that failed: `??` returns its error.
JoinError(t) ==
    /\ pc = "join" /\ t \in finished /\ stage[t] = "err"
    /\ Leave("err")

\* Mutant of AllJoined: the caller takes what is ready for all there is.
AllReady ==
    /\ pc = "join" /\ finished = {}
    /\ pc' = "returned" /\ verdict' = "ok"
    /\ UNCHANGED <<call, cursor, results, tasks>>

\* The JoinSet is empty.
AllJoined ==
    /\ pc = "join" /\ finished = {} /\ Unfinished = {}
    /\ pc' = "returned" /\ verdict' = "ok"
    /\ UNCHANGED <<call, cursor, results, tasks>>

\* The caller's own future is dropped while it waits.
Dropped == Parallel /\ pc = "join" /\ Leave("dropped")

\* A single task is part of that future.
DroppedInline ==
    /\ ~Parallel /\ pc = "join"
    /\ pc' = "returned" /\ verdict' = "dropped"
    /\ stage' = [t \in Slot |-> IF t \in Unfinished THEN "gone" ELSE stage[t]]
    /\ UNCHANGED <<call, cursor, results, aborted, retrying, elapsed, context, permits,
                   finished>>

-----------------------------------------------------------------------------
(* A task.                                                                 *)

\* Mutant of Release: a task dropped while it sleeps keeps its permit.
ReleaseAwake(t, how) ==
    /\ stage' = [stage EXCEPT ![t] = how]
    /\ permits' = IF Limited /\ stage[t] = "running" THEN permits + 1 ELSE permits
    /\ UNCHANGED <<caller, aborted, retrying, elapsed, context>>

\* The task is over; a permit it held is given back.
Release(t, how) ==
    /\ stage' = [stage EXCEPT ![t] = how]
    /\ permits' = IF Limited /\ t \in Holders THEN permits + 1 ELSE permits
    /\ UNCHANGED <<caller, aborted, retrying, elapsed, context>>

Completes(t, how) == Release(t, how) /\ finished' = finished \cup {t}

\* Mutants of Acquire: nobody waits for a permit; one is never handed out.
AcquireUnasked(t) ==
    /\ stage[t] = "waiting" /\ t \notin aborted
    /\ stage' = [stage EXCEPT ![t] = "running"]
    /\ permits' = IF Limited THEN permits - 1 ELSE permits
    /\ UNCHANGED <<caller, aborted, retrying, elapsed, context, finished>>

AcquireAllButOne(t) ==
    /\ stage[t] = "waiting" /\ t \notin aborted
    /\ Limited => permits > 1
    /\ stage' = [stage EXCEPT ![t] = "running"]
    /\ permits' = IF Limited THEN permits - 1 ELSE permits
    /\ UNCHANGED <<caller, aborted, retrying, elapsed, context, finished>>

\* s.acquire().await yields a permit; without a semaphore there is no wait.
Acquire(t) ==
    /\ stage[t] = "waiting" /\ t \notin aborted
    /\ Limited => permits > 0
    /\ stage' = [stage EXCEPT ![t] = "running"]
    /\ permits' = IF Limited THEN permits - 1 ELSE permits
    /\ UNCHANGED <<caller, aborted, retrying, elapsed, context, finished>>

\* interrupt() finds a resume value under the context's counter.
Answered(t) ==
    /\ stage[t] = "running" /\ asked[t] < Asks[t] /\ counter[t] < Answers
    /\ counter' = [counter EXCEPT ![t] = @ + 1]
    /\ asked' = [asked EXCEPT ![t] = @ + 1]
    /\ UNCHANGED <<caller, stage, aborted, retrying, elapsed, permits, finished>>

\* interrupt() finds none: the node returns the Interrupt error, which no
\* policy retries.
Interrupted(t) ==
    /\ stage[t] = "running" /\ asked[t] < Asks[t] /\ counter[t] >= Answers
    /\ Completes(t, "err")

Succeeds(t) ==
    /\ stage[t] = "running" /\ "ok" \in Ends[t]
    /\ Completes(t, "ok")

MayRetry(t) == \E p \in RetryOf(t) : attempts[t] < p.max

\* The node panics, or returns an error that is not retried: not retryable,
\* no policy, or no attempts left.
Fails(t) ==
    /\ stage[t] = "running"
    /\ \/ "fatal" \in Ends[t]
       \/ "retryable" \in Ends[t] /\ ~MayRetry(t)
    /\ Completes(t, "err")

\* The jitter adds rand % max(interval, 1), which is 0 for the intervals 0 and 1.
Jitter(i) == 0 .. (IF i = 0 THEN 0 ELSE i - 1)
SleepFor(p, i) == IF p.jitter THEN {i + k : k \in Jitter(i)} ELSE {i}

\* A retryable error: the task sleeps, and keeps its permit.
BacksOff(t) ==
    /\ stage[t] = "running" /\ "retryable" \in Ends[t] /\ MayRetry(t)
    /\ \E p \in RetryOf(t) :
       \E ms \in SleepFor(p, interval[t]) : sleep' = [sleep EXCEPT ![t] = ms]
    /\ attempts' = [attempts EXCEPT ![t] = @ + 1]
    /\ stage' = [stage EXCEPT ![t] = "sleeping"]
    /\ UNCHANGED <<caller, aborted, interval, elapsed, context, permits, finished>>

\* Mutants of Grown: the cap is applied before the factor.
GrownPastCap(p, i) == ((IF i < p.cap THEN i ELSE p.cap) * p.num) \div p.den
\* `as u64` drops the fraction.
Grown(p, i) ==
    LET grown == (i * p.num) \div p.den
    IN  IF grown < p.cap THEN grown ELSE p.cap

\* Mutant of CounterAfterRetry: every node goes on in the old context.
CounterKept(t) == counter[t]
\* An FnNode clones its context for each attempt, with a counter of its own.
CounterAfterRetry(t) == IF t \in FnNodes THEN 0 ELSE counter[t]

\* Mutant of Wake: a timer wakes a task that was aborted.
WakeAborted(t) ==
    /\ stage[t] = "sleeping" /\ sleep[t] = 0
    /\ \E p \in RetryOf(t) : interval' = [interval EXCEPT ![t] = Grown(p, @)]
    /\ stage' = [stage EXCEPT ![t] = "running"]
    /\ counter' = [counter EXCEPT ![t] = CounterAfterRetry(t)]
    /\ asked' = [asked EXCEPT ![t] = 0]
    /\ UNCHANGED <<caller, aborted, attempts, sleep, elapsed, permits, finished>>

\* The sleep is over: the interval grows and the next attempt starts.
Wake(t) ==
    /\ stage[t] = "sleeping" /\ sleep[t] = 0 /\ t \notin aborted
    /\ \E p \in RetryOf(t) : interval' = [interval EXCEPT ![t] = Grown(p, @)]
    /\ stage' = [stage EXCEPT ![t] = "running"]
    /\ counter' = [counter EXCEPT ![t] = CounterAfterRetry(t)]
    /\ asked' = [asked EXCEPT ![t] = 0]
    /\ UNCHANGED <<caller, aborted, attempts, sleep, elapsed, permits, finished>>

\* The timeout spans all attempts and the sleeps between them.
TimedOut(t) ==
    /\ t \in Holders /\ t \notin aborted
    /\ \E d \in DeadlineOf(t) : elapsed[t] >= d
    /\ Completes(t, "err")

\* An aborted task is dropped at its next await; it holds on to what it does
\* until then.
Drop(t) ==
    /\ t \in aborted \cap Unfinished
    /\ Release(t, "gone")
    /\ UNCHANGED finished

Step(t) ==
    \/ Acquire(t) \/ Answered(t) \/ Interrupted(t) \/ Succeeds(t) \/ Fails(t)
    \/ BacksOff(t) \/ Wake(t) \/ TimedOut(t) \/ Drop(t)

Timed(t) == t \in Holders /\ \E d \in DeadlineOf(t) : elapsed[t] < d
Asleep(t) == stage[t] = "sleeping" /\ sleep[t] > 0

\* Time passes, as long as a timer is armed.
Tick ==
    /\ \E t \in Slot : Timed(t) \/ Asleep(t)
    /\ elapsed' = [t \in Slot |-> IF Timed(t) THEN elapsed[t] + 1 ELSE elapsed[t]]
    /\ sleep' = [t \in Slot |-> IF Asleep(t) THEN sleep[t] - 1 ELSE sleep[t]]
    /\ UNCHANGED <<caller, stage, aborted, attempts, interval, context, permits, finished>>

-----------------------------------------------------------------------------
FirstInterval(t) == IF RetryOf(t) = {} THEN 0 ELSE (CHOOSE p \in RetryOf(t) : TRUE).initial

Init ==
    /\ count \in Slot /\ limit \in Limits
    /\ pc = "spawn" /\ cursor = 1
    /\ stage = [t \in Slot |-> "unborn"] /\ aborted = {}
    /\ attempts = [t \in Slot |-> 0] /\ interval = [t \in Slot |-> FirstInterval(t)]
    /\ sleep = [t \in Slot |-> 0] /\ elapsed = [t \in Slot |-> 0]
    /\ counter = [t \in Slot |-> 0] /\ asked = [t \in Slot |-> 0]
    /\ permits = IF limit = {} THEN 0 ELSE CHOOSE n \in limit : TRUE
    /\ finished = {} /\ results = {} /\ verdict = "none"

Next ==
    \/ Spawn \/ NodeNotFound \/ AllSpawned \/ AllJoined \/ Dropped \/ DroppedInline
    \/ \E t \in finished : JoinNext(t) \/ JoinError(t)
    \/ \E t \in Slot : Step(t)
    \/ Tick

Spec == Init /\ [][Next]_vars

\* The runtime polls every ready task and fires every timer, and an attempt
\* that may end does.  Nobody has to drop the caller.
Fairness ==
    /\ WF_vars(Spawn \/ NodeNotFound \/ AllSpawned \/ AllJoined)
    /\ WF_vars(\E t \in finished : JoinNext(t) \/ JoinError(t))
    /\ \A t \in Slot : WF_vars(Step(t))
    /\ WF_vars(Tick)

FairSpec == Spec /\ Fairness

-----------------------------------------------------------------------------
(* Properties.                                                             *)

\* Every variable holds a value of its type.
RunnerTypeOK ==
    /\ count \in Slot /\ limit \in Limits /\ cursor \in 1 .. MaxTasks + 1
    /\ pc \in {"spawn", "join", "returned"}
    /\ verdict \in {"none", "ok", "err", "dropped"}
    /\ stage \in [Slot -> Stages] /\ aborted \subseteq Slot
    /\ attempts \in [Slot -> Nat] /\ interval \in [Slot -> Nat]
    /\ sleep \in [Slot -> Nat] /\ elapsed \in [Slot -> Nat]
    /\ counter \in [Slot -> Nat] /\ asked \in [Slot -> Nat]
    /\ permits \in Nat
    /\ finished \subseteq Slot /\ results \subseteq Slot

\* No permit is lost or made up, however a task ends (output, error, panic,
\* timeout, abort), so never more than max_concurrency tasks execute.
PermitsConserved ==
    Limited => \A n \in limit : permits + Cardinality(Holders) = n

\* The k-th call of interrupt() in an attempt gets the k-th resume value, even
\* in an attempt that follows a failed one: of an FnNode, whose context is
\* cloned for each attempt.
AnswersInOrder == \A t \in FnNodes : counter[t] = asked[t]

\* A node runs once and at most max_attempts times more, each after a sleep
\* no longer than its policy's initial interval or cap, or, with the jitter,
\* shorter than twice that (0 if both are 0): whatever the policy's fields, so
\* neither a cap below the initial interval nor a fraction makes it longer.
BackoffBounded ==
    \A t \in Slot : \A p \in RetryOf(t) :
        /\ attempts[t] <= p.max
        /\ LET most == IF p.initial < p.cap THEN p.cap ELSE p.initial
           IN  sleep[t] <= IF p.jitter /\ most > 0 THEN 2 * most - 1 ELSE most

\* Once the call has returned or was dropped no task starts an attempt any
\* more: neither the one asleep nor the one waiting for a permit.
NoStartAfterReturn ==
    [][pc = "returned" =>
          \A t \in Slot : stage'[t] = "running" => stage[t] = "running"]_vars

\* The call returns, with any limit but zero, if each of its nodes returns or
\* has a deadline.  (Some(0) makes a semaphore without permits.)
Returns ==
    (/\ limit # {0} \/ ~Parallel
     /\ \A t \in 1 .. count : t \in Missing \/ Ends[t] # {} \/ DeadlineOf(t) # {})
    ~> pc = "returned"

-----------------------------------------------------------------------------
(* The runner is a ParallelTasks.                                          *)

Contract == INSTANCE ParallelTasks WITH
    open    <- IF pc = "join" THEN (1 .. count) \ results ELSE {},
    booked  <- IF pc = "join" \/ verdict = "ok" THEN results ELSE {},
    verdict <- IF pc = "spawn" THEN "idle" ELSE IF pc = "join" THEN "running"
               ELSE IF verdict = "ok" THEN "ok" ELSE "err"

\* Whatever happens to the tasks, the call keeps exactly one result of each or
\* fails as a whole.
KeepsContract == Contract!Spec
=============================================================================
