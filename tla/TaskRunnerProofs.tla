-------------------------- MODULE TaskRunnerProofs --------------------------
(***************************************************************************)
(* Proofs about TaskRunner for every number of tasks, every policy,        *)
(* deadline and limit, and nodes that end as they like.                    *)
(***************************************************************************)
EXTENDS TaskRunner, FiniteSetTheorems, TLAPS

\* What concerns one task and leaves the caller alone.
TaskStep == \/ \E t \in Slot : Step(t)
            \/ Tick

\* The actions of the caller.
CallerStep == \/ Spawn \/ NodeNotFound \/ AllSpawned \/ AllJoined \/ Dropped \/ DroppedInline
              \/ \E t \in finished : JoinNext(t) \/ JoinError(t)

LEMMA NextSplit == Next => TaskStep \/ CallerStep
BY DEF Next, TaskStep, CallerStep

-----------------------------------------------------------------------------
(* Types.                                                                  *)

\* The policy of a task and its intervals are well typed.
LEMMA PolicyTyped ==
    ASSUME NEW t \in Slot
    PROVE  /\ \A p \in RetryOf(t) : p \in Policy
           /\ \A d \in DeadlineOf(t) : d \in Nat
           /\ FirstInterval(t) \in Nat
<1>1. \A p \in RetryOf(t) : p \in Policy
  BY RunnerAssumption DEF RetryOf
<1>2. \A d \in DeadlineOf(t) : d \in Nat
  BY RunnerAssumption DEF DeadlineOf
<1>3. FirstInterval(t) \in Nat
  BY <1>1 DEF FirstInterval, Policy
<1> QED
  BY <1>1, <1>2, <1>3

\* However small or large the interval and the factor, the next one is a
\* natural number up to the cap.
LEMMA GrownBounded ==
    ASSUME NEW p \in Policy, NEW i \in Nat
    PROVE  Grown(p, i) \in Nat /\ Grown(p, i) <= p.cap
<1>1. p.num \in Nat /\ p.den \in Nat /\ p.den > 0 /\ p.cap \in Nat
  BY DEF Policy
<1>2. i * p.num \in Nat
  BY <1>1
<1>3. \A n \in Nat, d \in Nat : d > 0 => n \div d \in Nat
  OBVIOUS
<1>4. (i * p.num) \div p.den \in Nat
  BY <1>1, <1>2, <1>3
<1> QED
  BY <1>1, <1>4 DEF Grown

\* A sleep is its interval, or with the jitter less than twice that; with the
\* interval 0 there is nothing to add.
LEMMA SleepsFor ==
    ASSUME NEW p \in Policy, NEW i \in Nat, NEW ms \in SleepFor(p, i)
    PROVE  /\ ms \in Nat
           /\ IF p.jitter /\ i > 0 THEN ms <= 2 * i - 1 ELSE ms = i
<1>1. p.jitter \in BOOLEAN
  BY DEF Policy
<1>2. CASE ~p.jitter
  BY <1>2 DEF SleepFor
<1>3. CASE p.jitter
  <2>1. PICK k \in Jitter(i) : ms = i + k
    BY <1>3 DEF SleepFor
  <2>2. k \in 0 .. (IF i = 0 THEN 0 ELSE i - 1)
    BY <2>1 DEF Jitter
  <2>3. CASE i = 0
    BY <2>1, <2>2, <2>3
  <2>4. CASE i > 0
    BY <2>1, <2>2, <2>4, <1>3
  <2> QED
    BY <2>3, <2>4
<1> QED
  BY <1>1, <1>2, <1>3

LEMMA InitRunnerTyped == Init => RunnerTypeOK
<1> SUFFICES ASSUME Init PROVE RunnerTypeOK
  OBVIOUS
<1>1. MaxTasks \in Nat \ {0}
  BY RunnerAssumption
<1>2. permits \in Nat
  <2>1. limit \subseteq Nat
    BY RunnerAssumption DEF Init
  <2>2. limit # {} => (CHOOSE n \in limit : TRUE) \in limit
    OBVIOUS
  <2> QED
    BY <2>1, <2>2 DEF Init
<1>3. interval \in [Slot -> Nat]
  BY PolicyTyped DEF Init
<1> QED
  BY <1>1, <1>2, <1>3 DEF Init, RunnerTypeOK, Stages, Slot

LEMMA CallerTyped == RunnerTypeOK /\ CallerStep => RunnerTypeOK'
<1> SUFFICES ASSUME RunnerTypeOK, CallerStep PROVE RunnerTypeOK'
  OBVIOUS
<1> USE DEF RunnerTypeOK
<1>0. MaxTasks \in Nat /\ Unfinished \subseteq Slot
  BY RunnerAssumption DEF Unfinished
<1>1. CASE Spawn
  <2>1. cursor \in Slot /\ cursor + 1 \in 1 .. MaxTasks + 1
    BY <1>0, <1>1 DEF Spawn, Slot
  <2> QED
    BY <1>1, <2>1 DEF Spawn, call, retrying, context, Stages
<1>2. ASSUME NEW v \in {"err", "dropped"}, Leave(v) PROVE RunnerTypeOK'
  BY <1>0, <1>2 DEF Leave, call, retrying, context
<1>3. CASE AllSpawned \/ AllJoined
  BY <1>3 DEF AllSpawned, AllJoined, call, tasks, retrying, context
<1>4. CASE DroppedInline
  BY <1>4 DEF DroppedInline, call, retrying, context, Stages
<1>5. ASSUME NEW t \in finished, JoinNext(t) PROVE RunnerTypeOK'
  BY <1>5 DEF JoinNext, call, retrying, context
<1> QED
  BY <1>1, <1>2, <1>3, <1>4, <1>5 DEF CallerStep, NodeNotFound, Dropped, JoinError

LEMMA TaskTyped == RunnerTypeOK /\ TaskStep => RunnerTypeOK'
<1> SUFFICES ASSUME RunnerTypeOK, TaskStep PROVE RunnerTypeOK'
  OBVIOUS
<1> USE DEF RunnerTypeOK
<1>1. ASSUME NEW t \in Slot, NEW how \in Stages, Release(t, how),
             finished' \subseteq Slot
      PROVE  RunnerTypeOK'
  BY <1>1 DEF Release, caller, call, retrying, context
<1>2. ASSUME NEW t \in Slot, Acquire(t) PROVE RunnerTypeOK'
  <2>1. permits' \in Nat
    BY <1>2 DEF Acquire
  <2> QED
    BY <1>2, <2>1 DEF Acquire, caller, call, retrying, context, Stages
<1>3. ASSUME NEW t \in Slot, Answered(t) PROVE RunnerTypeOK'
  BY <1>3 DEF Answered, caller, call, retrying
<1>4. ASSUME NEW t \in Slot, Interrupted(t) \/ Succeeds(t) \/ Fails(t) \/ TimedOut(t)
      PROVE RunnerTypeOK'
  BY <1>1, <1>4 DEF Interrupted, Succeeds, Fails, TimedOut, Completes, Stages
<1>5. ASSUME NEW t \in Slot, BacksOff(t) PROVE RunnerTypeOK'
  <2>1. PICK p \in RetryOf(t) : \E ms \in SleepFor(p, interval[t]) :
            sleep' = [sleep EXCEPT ![t] = ms]
    BY <1>5 DEF BacksOff
  <2>2. SleepFor(p, interval[t]) \subseteq Nat
    BY PolicyTyped, SleepsFor
  <2>3. sleep' \in [Slot -> Nat]
    BY <2>1, <2>2
  <2> QED
    BY <1>5, <2>3 DEF BacksOff, caller, call, context, Stages
<1>6. ASSUME NEW t \in Slot, Wake(t) PROVE RunnerTypeOK'
  <2>1. PICK p \in RetryOf(t) : interval' = [interval EXCEPT ![t] = Grown(p, @)]
    BY <1>6 DEF Wake
  <2>2. Grown(p, interval[t]) \in Nat
    BY PolicyTyped, GrownBounded
  <2>3. CounterAfterRetry(t) \in Nat
    BY DEF CounterAfterRetry
  <2> QED
    BY <1>6, <2>1, <2>2, <2>3 DEF Wake, caller, call, Stages
<1>7. ASSUME NEW t \in Slot, Drop(t) PROVE RunnerTypeOK'
  BY <1>1, <1>7 DEF Drop, Stages
<1>8. CASE Tick
  <2>1. elapsed' \in [Slot -> Nat]
    BY <1>8 DEF Tick
  <2>2. sleep' \in [Slot -> Nat]
    BY <1>8 DEF Tick, Asleep
  <2> QED
    BY <1>8, <2>1, <2>2 DEF Tick, caller, call, context
<1> QED
  BY <1>2, <1>3, <1>4, <1>5, <1>6, <1>7, <1>8 DEF TaskStep, Step

\* The variables of the runner keep their types.
THEOREM RunnerTyped == Spec => []RunnerTypeOK
<1>1. RunnerTypeOK /\ [Next]_vars => RunnerTypeOK'
  <2>1. RunnerTypeOK /\ UNCHANGED vars => RunnerTypeOK'
    BY DEF RunnerTypeOK, vars, caller, call, tasks, retrying, context
  <2> QED
    BY <2>1, NextSplit, CallerTyped, TaskTyped
<1> QED
  BY <1>1, InitRunnerTyped, PTL DEF Spec

-----------------------------------------------------------------------------
(* The books of the caller.                                                *)

\* The tasks that are over are those ready to be joined and those whose
\* result the caller has.
Accounted ==
    /\ \A t \in Slot : stage[t] # "gone" /\ (stage[t] = "unborn" <=> t >= cursor)
    /\ finished \cup results = {t \in Slot : stage[t] \in {"ok", "err"}}
    /\ finished \cap results = {}
    /\ \A t \in results : stage[t] = "ok"

BookInv ==
    /\ pc # "returned" => /\ Accounted /\ aborted = {} /\ verdict = "none"
                          /\ cursor <= count + 1
    /\ pc = "spawn" => results = {}
    /\ pc = "join" => cursor > count

\* A step of the tasks, seen from the caller: one of them may become ready.
LEMMA TaskBooks ==
    ASSUME RunnerTypeOK, BookInv, TaskStep
    PROVE  BookInv'
<1>0. UNCHANGED caller /\ aborted' = aborted
  BY DEF TaskStep, Step, Acquire, Answered, Interrupted, Succeeds, Fails, BacksOff, Wake,
         TimedOut, Drop, Completes, Release, Tick
<1>1. SUFFICES ASSUME pc # "returned" PROVE Accounted'
  BY <1>0 DEF BookInv, caller, call
<1>2. /\ Accounted /\ aborted = {} /\ stage \in [Slot -> Stages]
      /\ cursor' = cursor /\ results' = results
  BY <1>0, <1>1 DEF BookInv, RunnerTypeOK, caller
<1>3. ASSUME NEW t \in Slot, NEW s \in {"running", "sleeping"},
             stage[t] \in {"waiting", "running", "sleeping"},
             stage' = [stage EXCEPT ![t] = s], finished' = finished
      PROVE  Accounted'
  BY <1>2, <1>3 DEF Accounted
<1>4. ASSUME NEW t \in Slot, NEW s \in {"ok", "err"},
             stage[t] \in {"running", "sleeping"},
             stage' = [stage EXCEPT ![t] = s], finished' = finished \cup {t}
      PROVE  Accounted'
  BY <1>2, <1>4 DEF Accounted
<1>5. CASE Tick
  BY <1>2, <1>5 DEF Tick, Accounted
<1>6. ASSUME NEW t \in Slot, Step(t)
      PROVE  Accounted'
  <2>1. CASE Answered(t)
    BY <1>2, <2>1 DEF Answered, Accounted
  <2>2. CASE Acquire(t) \/ BacksOff(t) \/ Wake(t)
    BY <1>3, <2>2 DEF Acquire, BacksOff, Wake
  <2>3. CASE Interrupted(t) \/ Succeeds(t) \/ Fails(t) \/ TimedOut(t)
    BY <1>4, <2>3 DEF Interrupted, Succeeds, Fails, TimedOut, Completes, Release, Holders
  <2>4. ~Drop(t)
    BY <1>2 DEF Drop
  <2> QED
    BY <1>6, <2>1, <2>2, <2>3, <2>4 DEF Step
<1> QED
  BY <1>5, <1>6 DEF TaskStep

LEMMA CallerBooks ==
    ASSUME RunnerTypeOK, BookInv, CallerStep
    PROVE  BookInv'
<1> USE DEF RunnerTypeOK
<1>0. count \in Nat /\ MaxTasks \in Nat /\ cursor \in Nat /\ count <= MaxTasks
  BY RunnerAssumption DEF Slot
<1>1. CASE Spawn
  <2>1. /\ cursor \in Slot /\ pc = "spawn" /\ cursor' = cursor + 1 /\ cursor <= count
        /\ UNCHANGED <<count, pc, results, verdict, aborted, finished>>
    BY <1>0, <1>1 DEF Spawn, call, Slot
  <2>2. PICK s \in {"waiting", "running"} : stage' = [stage EXCEPT ![cursor] = s]
    BY <1>1 DEF Spawn
  <2>3. stage[cursor] = "unborn" /\ stage \in [Slot -> Stages] /\ Slot \subseteq Nat
    BY <1>0, <2>1 DEF BookInv, Accounted, Slot
  <2>4. \A t \in Slot : stage'[t] # "gone" /\ (stage'[t] = "unborn" <=> t >= cursor')
    <3> SUFFICES ASSUME NEW t \in Slot
                 PROVE  stage'[t] # "gone" /\ (stage'[t] = "unborn" <=> t >= cursor')
      OBVIOUS
    <3>1. CASE t = cursor
      BY <1>0, <2>1, <2>2, <2>3, <3>1
    <3>2. CASE t # cursor
      <4>1. stage'[t] = stage[t] /\ (t >= cursor <=> t >= cursor + 1)
        BY <1>0, <2>2, <2>3, <3>2
      <4> QED
        BY <2>1, <4>1 DEF BookInv, Accounted
    <3> QED
      BY <3>1, <3>2
  <2>5. Accounted'
    BY <2>1, <2>2, <2>3, <2>4 DEF BookInv, Accounted
  <2> QED
    BY <1>0, <2>1, <2>5 DEF BookInv
<1>2. ASSUME pc' = "returned" PROVE BookInv'
  BY <1>2 DEF BookInv
<1>3. CASE AllSpawned
  BY <1>0, <1>3 DEF AllSpawned, BookInv, Accounted, call, tasks
<1>4. ASSUME NEW t \in finished, JoinNext(t) PROVE BookInv'
  BY <1>4 DEF JoinNext, BookInv, Accounted, call
<1> QED
  BY <1>1, <1>2, <1>3, <1>4
     DEF CallerStep, NodeNotFound, AllJoined, Dropped, DroppedInline, JoinError, Leave

LEMMA RunnerBooks == Spec => [](RunnerTypeOK /\ BookInv)
<1>1. Init => BookInv
  BY RunnerAssumption DEF Init, BookInv, Accounted, Slot
<1>2. RunnerTypeOK /\ BookInv /\ [Next]_vars => BookInv'
  <2>1. RunnerTypeOK /\ BookInv /\ UNCHANGED vars => BookInv'
    BY DEF BookInv, Accounted, vars, caller, call, tasks
  <2> QED
    BY <2>1, NextSplit, CallerBooks, TaskBooks
<1> QED
  BY <1>1, <1>2, RunnerTyped, PTL DEF Spec

-----------------------------------------------------------------------------
(* The semaphore.                                                          *)

\* Adding or removing one task changes the number of holders by one.
LEMMA HoldersCount ==
    ASSUME RunnerTypeOK, NEW t \in Slot
    PROVE  /\ IsFiniteSet(Holders) /\ Cardinality(Holders) \in Nat
           /\ t \notin Holders => Cardinality(Holders \cup {t}) = Cardinality(Holders) + 1
           /\ t \in Holders => Cardinality(Holders \ {t}) = Cardinality(Holders) - 1
<1>1. IsFiniteSet(Slot)
  <2>1. 1 \in Int /\ MaxTasks \in Int
    BY RunnerAssumption
  <2> QED
    BY <2>1, FS_Interval DEF Slot
<1>2. Holders \subseteq Slot
  BY DEF Holders
<1>3. IsFiniteSet(Holders)
  BY <1>1, <1>2, FS_Subset
<1> QED
  BY <1>3, FS_CardinalityType, FS_AddElement, FS_RemoveElement

\* A task that ends or is dropped gives its permit back.
LEMMA ReleaseConserves ==
    ASSUME RunnerTypeOK, PermitsConserved, NEW t \in Slot,
           NEW how \in Stages \ {"running", "sleeping"}, Release(t, how)
    PROVE  PermitsConserved'
<1>1. Holders' = Holders \ {t}
  BY DEF Release, RunnerTypeOK, Holders
<1>2. Limited' = Limited /\ limit' = limit
  BY DEF Release, caller, call, Limited, Parallel
<1>3. limit \subseteq Nat /\ permits \in Nat
  BY RunnerAssumption DEF RunnerTypeOK
<1> SUFFICES ASSUME Limited, NEW n \in limit
             PROVE  permits' + Cardinality(Holders') = n
  BY <1>2 DEF PermitsConserved
<1>4. CASE t \in Holders
  <2>1. permits' = permits + 1
    BY <1>4 DEF Release
  <2>2. Cardinality(Holders') = Cardinality(Holders) - 1 /\ Cardinality(Holders) \in Nat
    BY <1>1, <1>4, HoldersCount
  <2> QED
    BY <1>3, <2>1, <2>2 DEF PermitsConserved
<1>5. CASE t \notin Holders
  <2>1. permits' = permits /\ Holders' = Holders
    BY <1>1, <1>5 DEF Release
  <2> QED
    BY <2>1 DEF PermitsConserved
<1> QED
  BY <1>4, <1>5

\* What keeps the holders, the permits and the limit keeps the sum.
LEMMA SameHolders ==
    ASSUME PermitsConserved, Holders' = Holders, UNCHANGED <<permits, call>>
    PROVE  PermitsConserved'
BY DEF PermitsConserved, call, Limited, Parallel

\* However tasks end, permits are neither lost nor made up.
THEOREM PermitSafety == Spec => []PermitsConserved
<1>1. Init => PermitsConserved
  <2> SUFFICES ASSUME Init, Limited, NEW n \in limit
               PROVE  permits + Cardinality(Holders) = n
    BY DEF PermitsConserved
  <2>1. Holders = {}
    BY DEF Init, Holders
  <2>2. permits = n /\ n \in Nat
    <3>1. limit \subseteq Nat /\ Option(limit)
      BY RunnerAssumption DEF Init
    <3>2. (CHOOSE m \in limit : TRUE) \in limit
      OBVIOUS
    <3> QED
      BY <3>1, <3>2 DEF Init, Option
  <2> QED
    BY <2>1, <2>2, FS_EmptySet
<1>2. RunnerTypeOK /\ BookInv /\ PermitsConserved /\ [Next]_vars => PermitsConserved'
  <2> SUFFICES ASSUME RunnerTypeOK, BookInv, PermitsConserved, [Next]_vars
               PROVE  PermitsConserved'
    OBVIOUS
  <2>1. CASE CallerStep
    <3>1. CASE Spawn /\ ~Parallel
      BY <3>1 DEF Spawn, call, PermitsConserved, Limited, Parallel
    <3>2. CASE DroppedInline
      BY <3>2 DEF DroppedInline, call, PermitsConserved, Limited, Parallel
    <3>3. CASE Spawn /\ Parallel
      <4>1. cursor \in Slot /\ stage[cursor] = "unborn"
        BY <3>3, RunnerAssumption DEF Spawn, RunnerTypeOK, Slot, BookInv,
                                      Accounted
      <4>2. Holders' = Holders
        BY <3>3, <4>1 DEF Spawn, RunnerTypeOK, Holders
      <4> QED
        BY <3>3, <4>2, SameHolders DEF Spawn, call
    <3>4. CASE CallerStep /\ ~Spawn /\ ~DroppedInline
      <4>1. UNCHANGED <<stage, permits, call>>
        BY <3>4 DEF CallerStep, NodeNotFound, AllSpawned, AllJoined, Dropped, JoinNext,
                    JoinError, Leave, tasks
      <4> QED
        BY <4>1, SameHolders DEF Holders
    <3> QED
      BY <2>1, <3>1, <3>2, <3>3, <3>4
  <2>2. ASSUME NEW t \in Slot, Step(t) PROVE PermitsConserved'
    <3>1. CASE Acquire(t)
      <4>1. t \notin Holders /\ Holders' = Holders \cup {t}
        BY <3>1 DEF Acquire, RunnerTypeOK, Holders
      <4>2. limit' = limit /\ (Limited' <=> Limited)
        BY <3>1 DEF Acquire, caller, call, Limited, Parallel
      <4> SUFFICES ASSUME Limited, NEW n \in limit
                   PROVE  permits' + Cardinality(Holders') = n
        BY <4>2 DEF PermitsConserved
      <4>3. permits' = permits - 1 /\ permits \in Nat
        BY <3>1 DEF Acquire, RunnerTypeOK
      <4>4. /\ Cardinality(Holders') = Cardinality(Holders) + 1
            /\ Cardinality(Holders) \in Nat
        BY <4>1, HoldersCount
      <4>5. n \in Nat
        BY RunnerAssumption DEF RunnerTypeOK
      <4> QED
        BY <4>3, <4>4, <4>5 DEF PermitsConserved
    <3>2. CASE Answered(t)
      BY <3>2, SameHolders DEF Answered, caller, call, Holders
    <3>3. CASE Interrupted(t) \/ Succeeds(t) \/ Fails(t) \/ TimedOut(t) \/ Drop(t)
      BY <3>3, ReleaseConserves
         DEF Interrupted, Succeeds, Fails, TimedOut, Drop, Completes, Stages
    <3>4. CASE BacksOff(t) \/ Wake(t)
      <4>1. Holders' = Holders /\ UNCHANGED <<permits, call>>
        BY <3>4 DEF BacksOff, Wake, RunnerTypeOK, Holders, caller
      <4> QED
        BY <4>1, SameHolders
    <3> QED
      BY <2>2, <3>1, <3>2, <3>3, <3>4 DEF Step
  <2>3. CASE Tick \/ UNCHANGED vars
    <3>1. UNCHANGED <<stage, permits, call>>
      BY <2>3 DEF Tick, vars, caller, tasks
    <3> QED
      BY <3>1, SameHolders DEF Holders
  <2> QED
    BY <2>1, <2>2, <2>3, NextSplit DEF TaskStep
<1> QED
  BY <1>1, <1>2, RunnerBooks, PTL DEF Spec

-----------------------------------------------------------------------------
(* Retries.                                                                *)

\* In every attempt of an FnNode the k-th interrupt() gets the k-th answer.
THEOREM AnswersOrdered == Spec => []AnswersInOrder
<1>1. Init => AnswersInOrder
  BY RunnerAssumption DEF Init, AnswersInOrder
<1>2. RunnerTypeOK /\ AnswersInOrder /\ [Next]_vars => AnswersInOrder'
  <2> SUFFICES ASSUME RunnerTypeOK, AnswersInOrder, [Next]_vars
               PROVE  AnswersInOrder'
    OBVIOUS
  <2>1. CASE UNCHANGED context
    BY <2>1 DEF context, AnswersInOrder
  <2>2. ASSUME NEW t \in Slot, Answered(t) \/ Wake(t)
        PROVE  AnswersInOrder'
    <3>1. \A u \in FnNodes : u \in Slot
      BY RunnerAssumption
    <3> QED
      BY <2>2, <3>1 DEF Answered, Wake, CounterAfterRetry, AnswersInOrder, RunnerTypeOK
  <2> QED
    BY <2>1, <2>2 DEF Next, Step, Spawn, NodeNotFound, AllSpawned, AllJoined, Dropped,
       DroppedInline, JoinNext, JoinError, Leave, tasks, Acquire, Interrupted, Succeeds,
       Fails, BacksOff, TimedOut, Drop, Completes, Release, Tick, vars
<1> QED
  BY <1>1, <1>2, RunnerTyped, PTL DEF Spec

\* The interval a task sleeps for next is within its policy's bounds, and so is
\* the number of its attempts.
IntervalInv ==
    \A t \in Slot : \A p \in RetryOf(t) :
        LET most == IF p.initial < p.cap THEN p.cap ELSE p.initial
        IN  /\ interval[t] <= most /\ attempts[t] <= p.max
            /\ sleep[t] <= IF p.jitter /\ most > 0 THEN 2 * most - 1 ELSE most

\* A node's attempts and its sleeps stay within its policy.
THEOREM BackoffSafety == Spec => []BackoffBounded
<1>1. Init => IntervalInv
  <2> SUFFICES ASSUME Init, NEW t \in Slot, NEW p \in RetryOf(t)
               PROVE  LET most == IF p.initial < p.cap THEN p.cap ELSE p.initial
                      IN  /\ interval[t] <= most /\ attempts[t] <= p.max
                          /\ sleep[t] <= IF p.jitter /\ most > 0 THEN 2 * most - 1 ELSE most
    BY DEF IntervalInv
  <2>1. p \in Policy
    BY PolicyTyped
  <2>2. \A x, y \in RetryOf(t) : x = y
    BY RunnerAssumption DEF RetryOf, Option
  <2>3. FirstInterval(t) = p.initial
    BY <2>2 DEF FirstInterval
  <2>4. interval[t] = p.initial /\ attempts[t] = 0 /\ sleep[t] = 0
    BY <2>3 DEF Init
  <2> QED
    BY <2>1, <2>4 DEF Policy
<1>2. RunnerTypeOK /\ IntervalInv /\ [Next]_vars => IntervalInv'
  <2> SUFFICES ASSUME RunnerTypeOK, IntervalInv, [Next]_vars
               PROVE  IntervalInv'
    OBVIOUS
  <2>1. CASE UNCHANGED retrying
    BY <2>1 DEF retrying, IntervalInv
  <2>2. CASE Tick
    <3>1. \A t \in Slot : sleep'[t] <= sleep[t] /\ sleep'[t] \in Nat /\ sleep[t] \in Nat
      BY <2>2 DEF Tick, Asleep, RunnerTypeOK
    <3>2. \A t \in Slot : \A p \in RetryOf(t) : p \in Policy
      BY PolicyTyped
    <3> QED
      BY <2>2, <3>1, <3>2 DEF Tick, IntervalInv, Policy
  <2>3. ASSUME NEW t \in Slot, BacksOff(t) PROVE IntervalInv'
    <3> SUFFICES ASSUME NEW u \in Slot, NEW p \in RetryOf(u)
                 PROVE  LET most == IF p.initial < p.cap THEN p.cap ELSE p.initial
                        IN  /\ interval'[u] <= most /\ attempts'[u] <= p.max
                            /\ sleep'[u] <= IF p.jitter /\ most > 0 THEN 2 * most - 1 ELSE most
      BY DEF IntervalInv
    <3>0. interval' = interval
      BY <2>3 DEF BacksOff
    <3>1. CASE u # t
      BY <2>3, <3>0, <3>1 DEF BacksOff, IntervalInv, RunnerTypeOK
    <3>2. CASE u = t
      <4>1. p \in Policy /\ \A q \in RetryOf(t) : q = p
        BY <3>2, PolicyTyped, RunnerAssumption DEF RetryOf, Option
      <4>2. PICK ms \in SleepFor(p, interval[t]) : sleep' = [sleep EXCEPT ![t] = ms]
        BY <2>3, <4>1 DEF BacksOff
      <4>3. attempts[t] < p.max /\ attempts'[t] = attempts[t] + 1
        BY <2>3, <4>1 DEF BacksOff, MayRetry, RunnerTypeOK
      <4>4. sleep'[t] = ms
        BY <4>2 DEF RunnerTypeOK
      <4>5. interval[t] \in Nat /\ attempts[t] \in Nat
        BY DEF RunnerTypeOK
      <4>6. interval[t] <= IF p.initial < p.cap THEN p.cap ELSE p.initial
        BY <3>2 DEF IntervalInv
      <4>7. ms \in Nat /\ p.jitter \in BOOLEAN
            /\ IF p.jitter /\ interval[t] > 0 THEN ms <= 2 * interval[t] - 1
               ELSE ms = interval[t]
        BY <4>1, <4>2, <4>5, SleepsFor DEF Policy
      <4>8. attempts'[t] <= p.max
        BY <4>1, <4>3, <4>5 DEF Policy
      <4> DEFINE most == IF p.initial < p.cap THEN p.cap ELSE p.initial
      <4>9. most \in Nat /\ interval[t] <= most
        BY <4>1, <4>6 DEF Policy
      <4> HIDE DEF most
      <4>10. sleep'[t] <= IF p.jitter /\ most > 0 THEN 2 * most - 1 ELSE most
        BY <4>4, <4>5, <4>7, <4>9
      <4> QED
        BY <3>0, <3>2, <4>8, <4>9, <4>10 DEF most
    <3> QED
      BY <3>1, <3>2
  <2>4. ASSUME NEW t \in Slot, Wake(t) PROVE IntervalInv'
    <3> SUFFICES ASSUME NEW u \in Slot, NEW p \in RetryOf(u)
                 PROVE  interval'[u] <= IF p.initial < p.cap THEN p.cap ELSE p.initial
      BY <2>4 DEF Wake, IntervalInv
    <3>1. CASE u # t
      BY <2>4, <3>1 DEF Wake, IntervalInv, RunnerTypeOK
    <3>2. CASE u = t
      <4>1. p \in Policy /\ \A q \in RetryOf(t) : q = p
        BY <3>2, PolicyTyped, RunnerAssumption DEF RetryOf, Option
      <4>2. interval'[t] = Grown(p, interval[t])
        BY <2>4, <4>1 DEF Wake, RunnerTypeOK
      <4>3. Grown(p, interval[t]) \in Nat /\ Grown(p, interval[t]) <= p.cap
        BY <4>1, GrownBounded DEF RunnerTypeOK
      <4> QED
        BY <3>2, <4>1, <4>2, <4>3 DEF Policy
    <3> QED
      BY <3>1, <3>2
  <2> QED
    BY <2>1, <2>2, <2>3, <2>4 DEF Next, Step, Spawn, NodeNotFound, AllSpawned, AllJoined,
       Dropped, DroppedInline, JoinNext, JoinError, Leave, tasks, Acquire, Answered,
       Interrupted, Succeeds, Fails, TimedOut, Drop, Completes, Release, vars
<1>3. IntervalInv => BackoffBounded
  BY DEF IntervalInv, BackoffBounded
<1> QED
  BY <1>1, <1>2, <1>3, RunnerTyped, PTL DEF Spec

-----------------------------------------------------------------------------
(* The contract.                                                           *)

\* The call is a ParallelTasks: it keeps exactly one result of every task, or
\* fails as a whole, whatever is retried, timed out, aborted or left waiting.
THEOREM RunnerContract == Spec => KeepsContract
<1>1. Init => Contract!Init
  BY DEF Init, Contract!Init
<1>2. RunnerTypeOK /\ BookInv /\ [Next]_vars => [Contract!Next]_Contract!vars
  <2> SUFFICES ASSUME RunnerTypeOK, BookInv, [Next]_vars
               PROVE  Contract!Next \/ UNCHANGED Contract!vars
    OBVIOUS
  <2>0. count \in Nat \ {0}
    BY RunnerAssumption DEF RunnerTypeOK, Slot
  <2>1. CASE UNCHANGED caller
    BY <2>1 DEF caller, call, Contract!vars
  <2>2. CASE Spawn
    BY <2>2 DEF Spawn, call, Contract!vars, BookInv
  <2>3. CASE AllSpawned
    <3>1. Contract!Begin
      BY <2>0, <2>3 DEF AllSpawned, call, Contract!Begin, BookInv
    <3> QED
      BY <3>1 DEF Contract!Next
  <2>4. CASE NodeNotFound
    <3>1. Contract!Refuse
      BY <2>4 DEF NodeNotFound, Leave, Contract!Refuse, BookInv
    <3> QED
      BY <3>1 DEF Contract!Next
  <2>5. ASSUME NEW t \in finished, JoinNext(t) PROVE Contract!Next
    <3>1. t \in (1 .. count) \ results
      BY <2>0, <2>5 DEF JoinNext, BookInv, Accounted, RunnerTypeOK, Slot
    <3>2. Contract!Book
      BY <2>5, <3>1 DEF JoinNext, call, Contract!Book, BookInv
    <3> QED
      BY <3>2 DEF Contract!Next
  <2>6. ASSUME pc = "join", pc' = "returned", verdict' \in {"err", "dropped"}
        PROVE  Contract!Next
    <3>1. Contract!Fail
      BY <2>6 DEF Contract!Fail
    <3> QED
      BY <3>1 DEF Contract!Next
  <2>7. CASE AllJoined
    <3>1. /\ pc = "join" /\ pc' = "returned" /\ verdict' = "ok" /\ results' = results
          /\ finished = {} /\ Unfinished = {} /\ Accounted /\ cursor > count
      BY <2>7 DEF AllJoined, BookInv
    <3>2. ASSUME NEW t \in 1 .. count PROVE t \in results
      <4>1. t \in Slot /\ ~(t >= cursor) /\ stage[t] \in Stages
        <5>1. MaxTasks \in Nat /\ count <= MaxTasks /\ cursor \in Nat /\ t \in Nat
          BY <2>0, RunnerAssumption DEF RunnerTypeOK, Slot
        <5> QED
          BY <2>0, <3>1, <5>1 DEF RunnerTypeOK, Slot
      <4>2. stage[t] \in {"ok", "err"}
        BY <3>1, <4>1 DEF Accounted, Unfinished, Stages
      <4> QED
        BY <3>1, <4>1, <4>2 DEF Accounted
    <3>3. (1 .. count) \ results = {}
      BY <3>2
    <3>4. Contract!Succeed
      BY <3>1, <3>3 DEF Contract!Succeed
    <3> QED
      BY <3>4 DEF Contract!Next
  <2>8. CASE TaskStep \/ UNCHANGED vars
    <3>1. UNCHANGED caller
      BY <2>8 DEF TaskStep, Step, Acquire, Answered, Interrupted, Succeeds, Fails,
                  BacksOff, Wake, TimedOut, Drop, Completes, Release, Tick, vars
    <3> QED
      BY <2>1, <3>1
  <2> QED
    BY <2>2, <2>3, <2>4, <2>5, <2>6, <2>7, <2>8, NextSplit
       DEF CallerStep, Dropped, DroppedInline, JoinError, Leave
<1> QED
  BY <1>1, <1>2, RunnerBooks, PTL DEF Spec, KeepsContract, Contract!Spec

-----------------------------------------------------------------------------
(* After the call.                                                         *)

\* A task that is not over when the call has left was reached by abort_all.
LeftInv == pc = "returned" => Unfinished \subseteq aborted

\* No task enters the running stage of its own once it is aborted.
LEMMA AbortedRests ==
    ASSUME RunnerTypeOK, NEW t \in Slot, Step(t), t \in aborted
    PROVE  /\ aborted' = aborted
           /\ \A v \in Slot : stage'[v] = "running" => stage[v] = "running"
<1>1. ~Acquire(t) /\ ~Wake(t) /\ ~TimedOut(t)
  BY DEF Acquire, Wake, TimedOut
<1>2. CASE Answered(t) \/ BacksOff(t)
  BY <1>2 DEF Answered, BacksOff, RunnerTypeOK
<1>3. CASE Interrupted(t) \/ Succeeds(t) \/ Fails(t) \/ Drop(t)
  BY <1>3 DEF Interrupted, Succeeds, Fails, Drop, Completes, Release, RunnerTypeOK
<1> QED
  BY <1>1, <1>2, <1>3 DEF Step

\* No task step undoes an abort or brings a finished task back.
LEMMA StepsKeepLeft ==
    ASSUME RunnerTypeOK, NEW t \in Slot, Step(t)
    PROVE  pc' = pc /\ aborted' = aborted /\ Unfinished' \subseteq Unfinished
<1>1. CASE Acquire(t) \/ Answered(t) \/ BacksOff(t) \/ Wake(t)
  BY <1>1 DEF Acquire, Answered, BacksOff, Wake, Unfinished, RunnerTypeOK, caller
<1>2. CASE Interrupted(t) \/ Succeeds(t) \/ Fails(t) \/ TimedOut(t) \/ Drop(t)
  BY <1>2 DEF Interrupted, Succeeds, Fails, TimedOut, Drop, Completes, Release, Unfinished,
              RunnerTypeOK, caller
<1> QED
  BY <1>1, <1>2 DEF Step

LEMMA LeftKept == RunnerTypeOK /\ LeftInv /\ [Next]_vars => LeftInv'
<1> SUFFICES ASSUME RunnerTypeOK, LeftInv, [Next]_vars PROVE LeftInv'
  OBVIOUS
<1>1. CASE Spawn \/ AllSpawned \/ \E t \in finished : JoinNext(t)
  BY <1>1 DEF LeftInv, Spawn, AllSpawned, JoinNext
<1>2. CASE NodeNotFound \/ Dropped \/ \E t \in finished : JoinError(t)
  BY <1>2 DEF LeftInv, NodeNotFound, Dropped, JoinError, Leave, Unfinished
<1>3. CASE AllJoined
  BY <1>3 DEF LeftInv, AllJoined, Unfinished, tasks
<1>4. CASE DroppedInline
  BY <1>4 DEF LeftInv, DroppedInline, Unfinished
<1>5. CASE \E t \in Slot : Step(t)
  BY <1>5, StepsKeepLeft DEF LeftInv
<1>6. CASE Tick \/ UNCHANGED vars
  BY <1>6 DEF LeftInv, Tick, Unfinished, vars, caller, tasks
<1> QED
  BY <1>1, <1>2, <1>3, <1>4, <1>5, <1>6 DEF Next

\* Once the call has returned or was dropped, none of its tasks starts another
\* attempt, whatever it was waiting for (runner.rs:80).
THEOREM ReturnIsFinal == Spec => NoStartAfterReturn
<1>1. Init => LeftInv
  BY DEF Init, LeftInv
<1>2. RunnerTypeOK /\ LeftInv /\ [Next]_vars
      => [pc = "returned" =>
             \A t \in Slot : stage'[t] = "running" => stage[t] = "running"]_vars
  <2> SUFFICES ASSUME RunnerTypeOK, LeftInv, Next, pc = "returned",
                      NEW v \in Slot, stage'[v] = "running"
               PROVE  stage[v] = "running"
    OBVIOUS
  <2>1. CASE \E t \in Slot : Step(t)
    <3>1. PICK t \in Slot : Step(t)
      BY <2>1
    <3>2. CASE t \in aborted
      BY <3>1, <3>2, AbortedRests
    <3>3. CASE t \notin aborted
      <4>1. t \notin Unfinished
        BY <3>3 DEF LeftInv
      <4> QED
        BY <3>1, <4>1 DEF Step, Acquire, Answered, Interrupted, Succeeds, Fails, BacksOff, Wake,
                          TimedOut, Drop, Unfinished, Holders
    <3> QED
      BY <3>2, <3>3
  <2>2. CASE Tick
    BY <2>2 DEF Tick
  <2>3. CASE \E t \in finished : JoinNext(t) \/ JoinError(t)
    BY <2>3 DEF JoinNext, JoinError
  <2> QED
    BY <2>1, <2>2, <2>3 DEF Next, Spawn, NodeNotFound, AllSpawned, AllJoined, Dropped, DroppedInline
<1> QED
  BY <1>1, <1>2, LeftKept, RunnerTyped, PTL DEF Spec, NoStartAfterReturn
=============================================================================
