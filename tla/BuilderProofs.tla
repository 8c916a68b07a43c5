---------------------------- MODULE BuilderProofs ----------------------------
(***************************************************************************)
(* What compile() guarantees the runs of every graph a program can define, *)
(* whatever calls were made, in whatever order.  A registered node can be  *)
(* left: compile's last check, which nothing invalidates once the graph is *)
(* immutable.  A name the runner does not find is one compile did not look *)
(* up, and a proper join waits for all its sources: both need what the     *)
(* folds of route_next_tasks and of the join lookup compute for any number *)
(* of joins, which the first part derives from a least counterexample.     *)
(***************************************************************************)
EXTENDS Builder, FiniteSetTheorems, SequenceTheorems, TLAPS

LeavableInv ==
    /\ phase \in {"compiled", "running", "ended"} => NodesRoute
    /\ OnlyEndUnreachable

\* The graph is immutable from compile on.
LEMMA GraphKept ==
    ASSUME UNCHANGED definition
    PROVE  NodesRoute' <=> NodesRoute
  BY DEF definition, NodesRoute, JoinSources

\* A building step leaves the phase and the outcome alone.
LEMMA BuildSteps ==
    ASSUME LeavableInv, Build
    PROVE  LeavableInv'
  BY DEF LeavableInv, Build, AddNode, AddEdgeFromStart, AddEdge, AddConditionalEdge,
         AddSequence, AddEdgeJoin, Building, routing, OnlyEndUnreachable

\* compile lets a graph through only when every node routes.
LEMMA CompileStep ==
    ASSUME LeavableInv, Compile
    PROVE  LeavableInv'
<1>1. NodesRoute' <=> NodesRoute
  BY GraphKept DEF Compile
<1>2. phase' \in {"compiled", "running", "ended"} => NodesRoute
  BY DEF Compile, Accepts
<1>3. OnlyEndUnreachable'
  BY DEF Compile, LeavableInv, OnlyEndUnreachable, routing
<1> QED
  BY <1>1, <1>2, <1>3 DEF LeavableInv

\* A registered node that is neither a join's source nor has an edge is END.
LEMMA UnreachableIsEnd ==
    ASSUME NodesRoute, NEW n \in nodes, n \notin DOMAIN edges, ~IsSource(n)
    PROVE  n = END
<1>1. n \notin JoinSources
  BY DEF IsSource, JoinSources
<1> QED
  BY <1>1 DEF NodesRoute

\* Every step of a run keeps the invariant; only RouteUnreachable needs it.
LEMMA RunSteps ==
    ASSUME LeavableInv, Invoke \/ Run
    PROVE  LeavableInv'
<1>1. UNCHANGED definition
  BY DEF Invoke, Run, Finish, RecursionLimit, NodeNotFound, RouteJoins, RouteEdge,
         RouteUnreachable, NextSuperstep, Advance, End
<1>2. phase \in {"compiled", "running"}
  BY DEF Invoke, Run, Finish, RecursionLimit, NodeNotFound, RouteJoins, RouteEdge,
         RouteUnreachable, NextSuperstep, Running, Routing
<1>3. NodesRoute /\ NodesRoute'
  BY <1>1, <1>2, GraphKept DEF LeavableInv
<1>4. OnlyEndUnreachable'
  <2>1. CASE RouteUnreachable
    <3>1. PICK n \in Name \ DOMAIN edges : Routing(n) /\ ~IsSource(n) /\ End("UnreachableNode", n)
      BY <2>1 DEF RouteUnreachable
    <3>2. n \in nodes
      BY <3>1 DEF Routing, ToSet
    <3>3. n = END
      BY <1>3, <3>1, <3>2, UnreachableIsEnd
    <3> QED
      BY <3>1, <3>3 DEF End, OnlyEndUnreachable
  <2>2. CASE NodeNotFound
    <3>1. PICK i \in DOMAIN pending : End("NodeNotFound", pending[i])
      BY <2>2 DEF NodeNotFound
    <3> QED
      BY <3>1 DEF End, OnlyEndUnreachable
  <2>3. CASE Invoke \/ Finish \/ RecursionLimit \/ RouteJoins \/ RouteEdge \/ NextSuperstep
    BY <2>3 DEF LeavableInv, OnlyEndUnreachable, Invoke, Finish, RecursionLimit,
                RouteJoins, RouteEdge, NextSuperstep, Advance, End
  <2> QED
    BY <2>1, <2>2, <2>3 DEF Run
<1> QED
  BY <1>3, <1>4 DEF LeavableInv

\* For every sequence of builder calls, a node of a compiled graph is never
\* reported as unreachable, save one registered under the name END.
THEOREM LeavableNodes == Spec => []OnlyEndUnreachable
<1>1. Init => LeavableInv
  BY DEF Init, LeavableInv, OnlyEndUnreachable, NotRun
<1>2. LeavableInv /\ [Next]_vars => LeavableInv'
  <2> SUFFICES ASSUME LeavableInv, [Next]_vars PROVE LeavableInv'
    OBVIOUS
  <2>1. CASE Build
    BY <2>1, BuildSteps
  <2>2. CASE Compile
    BY <2>2, CompileStep
  <2>3. CASE Invoke \/ Run
    BY <2>3, RunSteps
  <2>4. CASE Terminated \/ UNCHANGED vars
    <3>1. UNCHANGED <<phase, definition, outcome>>
      BY <2>4 DEF Terminated, vars, definition, routing
    <3>2. NodesRoute' <=> NodesRoute
      BY <3>1, GraphKept
    <3> QED
      BY <3>1, <3>2 DEF LeavableInv, OnlyEndUnreachable
  <2> QED
    BY <2>1, <2>2, <2>3, <2>4 DEF Next
<1>3. LeavableInv => OnlyEndUnreachable
  BY DEF LeavableInv
<1> QED
  BY <1>1, <1>2, <1>3, PTL DEF Spec

-----------------------------------------------------------------------------
(* What FoldLeft and FlattenSeq compute.                                    *)

\* A set of numbers with 0 and every successor is all of Nat: the least number
\* outside it would have a predecessor inside.
LEMMA Induction ==
    ASSUME NEW T, 0 \in T, \A n \in Nat : n \in T => n + 1 \in T
    PROVE  Nat \subseteq T
<1> DEFINE R == OpToRel(<, Nat)
<1>1. IsWellFoundedOn(R, Nat)
  BY NatLessThanWellFounded
<1>2. \A x, y \in Nat : <<x, y>> \in R <=> x < y
  BY DEF OpToRel
<1> HIDE DEF R
<1>3. SUFFICES ASSUME Nat \ T # {} PROVE FALSE
  OBVIOUS
<1>4. PICK x \in Nat \ T : \A y \in Nat \ T : ~ (<<y, x>> \in R)
  BY <1>1, <1>3, WFMin
<1>5. x # 0 /\ x - 1 \in Nat /\ x - 1 < x /\ (x - 1) + 1 = x
  BY <1>4
<1> QED BY <1>2, <1>4, <1>5

\* What Max chooses.
LEMMA MaxOf ==
    ASSUME NEW S, NEW x \in S, S \subseteq Int, \A y \in S : y <= x
    PROVE  Max(S) = x
<1>1. x \in S /\ \A y \in S : x >= y
  BY DEF Max
<1>2. \A z \in S : (\A y \in S : z >= y) => z = x
  OBVIOUS
<1>3. Max(S) \in S /\ \A y \in S : Max(S) >= y
  BY <1>1, Zenon DEF Max
<1> QED BY <1>2, <1>3

\* f folds G over the subsets of 1 .. k, the greatest element last.
Folds(f, St, b, G, k) ==
    /\ f \in [SUBSET (1 .. k) -> St]
    /\ \A s \in SUBSET (1 .. k) :
         f[s] = IF s = {} THEN b ELSE G[<<Max(s), f[s \ {Max(s)}]>>]

\* There is such a function.
LEMMA FoldExists ==
    ASSUME NEW St, NEW b \in St, NEW m \in Nat, NEW G \in [(1 .. m) \X St -> St]
    PROVE  \E f : Folds(f, St, b, G, m)
<1> DEFINE T == {k \in Nat : k <= m => \E f : Folds(f, St, b, G, k)}
<1>1. 0 \in T
  <2> DEFINE f == [s \in SUBSET (1 .. 0) |-> b]
  <2>1. \A s \in SUBSET (1 .. 0) : s = {}
    <3>1. 1 .. 0 = {}
      OBVIOUS
    <3> QED BY <3>1
  <2>2. Folds(f, St, b, G, 0)
    BY <2>1 DEF Folds
  <2> QED BY <2>2
<1>2. ASSUME NEW k \in Nat, k \in T PROVE k + 1 \in T
  <2> SUFFICES ASSUME k + 1 <= m PROVE \E f : Folds(f, St, b, G, k + 1)
    OBVIOUS
  <2>1. PICK g : Folds(g, St, b, G, k)
    BY <1>2
  <2> DEFINE f == [s \in SUBSET (1 .. k + 1) |->
                     IF k + 1 \in s THEN G[<<k + 1, g[s \ {k + 1}]>>] ELSE g[s]]
  <2>2. \A s \in SUBSET (1 .. k + 1) :
          /\ s \ {k + 1} \in SUBSET (1 .. k)
          /\ k + 1 \notin s => s \in SUBSET (1 .. k)
    OBVIOUS
  <2>3. f \in [SUBSET (1 .. k + 1) -> St]
    <3>1. k + 1 \in 1 .. m
      OBVIOUS
    <3> QED BY <2>1, <2>2, <3>1 DEF Folds
  <2>4. ASSUME NEW s \in SUBSET (1 .. k + 1)
        PROVE  f[s] = IF s = {} THEN b ELSE G[<<Max(s), f[s \ {Max(s)}]>>]
    <3>1. CASE k + 1 \in s
      <4>1. Max(s) = k + 1
        <5>1. s \subseteq Int /\ \A y \in s : y <= k + 1
          OBVIOUS
        <5> QED BY <3>1, <5>1, MaxOf
      <4>2. f[s \ {k + 1}] = g[s \ {k + 1}]
        BY <2>2
      <4> QED BY <3>1, <4>1, <4>2
    <3>2. CASE k + 1 \notin s
      <4>1. f[s] = g[s] /\ s \in SUBSET (1 .. k)
        BY <2>2, <3>2
      <4>2. CASE s = {}
        BY <2>1, <4>1, <4>2 DEF Folds
      <4>3. CASE s # {}
        <5>1. f[s \ {Max(s)}] = g[s \ {Max(s)}]
          BY <3>2, <2>2
        <5> QED BY <2>1, <4>1, <4>3, <5>1 DEF Folds
      <4> QED BY <4>2, <4>3
    <3> QED BY <3>1, <3>2
  <2> HIDE DEF f
  <2>5. Folds(f, St, b, G, k + 1)
    BY <2>3, <2>4 DEF Folds
  <2> QED BY <2>5
<1>3. m \in T
  <2> HIDE DEF T
  <2> QED BY <1>1, <1>2, Induction
<1> QED BY <1>3

\* A non-empty set of numbers up to m has a greatest element.
LEMMA MaxExists ==
    ASSUME NEW m \in Nat, NEW s \in SUBSET (1 .. m), s # {}
    PROVE  Max(s) \in s
<1> DEFINE T == {k \in Nat : \A r \in SUBSET (1 .. k) :
                   r # {} => \E x \in r : \A y \in r : y <= x}
<1>1. 0 \in T
  <2>1. 1 .. 0 = {}
    OBVIOUS
  <2> QED BY <2>1
<1>2. ASSUME NEW k \in Nat, k \in T PROVE k + 1 \in T
  <2> SUFFICES ASSUME NEW r \in SUBSET (1 .. k + 1), r # {}
               PROVE  \E x \in r : \A y \in r : y <= x
    OBVIOUS
  <2>1. CASE k + 1 \in r
    BY <2>1
  <2>2. CASE k + 1 \notin r
    <3>1. r \in SUBSET (1 .. k)
      BY <2>2
    <3> QED BY <1>2, <3>1
  <2> QED BY <2>1, <2>2
<1>3. m \in T
  <2> HIDE DEF T
  <2> QED BY <1>1, <1>2, Induction
<1>4. PICK x \in s : \A y \in s : y <= x
  BY <1>3
<1>5. s \subseteq Int
  OBVIOUS
<1>6. Max(s) = x
  BY <1>4, <1>5, MaxOf
<1> QED BY <1>6

\* The greatest element of an interval.
LEMMA Interval ==
    ASSUME NEW k \in Nat \ {0}
    PROVE  1 .. k # {} /\ (1 .. k) \ {k} = 1 .. k - 1 /\ Max(1 .. k) = k
<1>1. k \in 1 .. k /\ 1 .. k \subseteq Int /\ \A y \in 1 .. k : y <= k
  OBVIOUS
<1>2. Max(1 .. k) = k
  BY <1>1, MaxOf
<1>3. ASSUME NEW y PROVE y \in (1 .. k) \ {k} <=> y \in 1 .. k - 1
  OBVIOUS
<1> QED BY <1>1, <1>2, <1>3

\* The barriers and the schedule before a node is routed.
Standing == [seen |-> seen, satisfied |-> satisfied_joins, next |-> next_tasks, fires |-> fires]

\* What FoldLeft makes of the joins that n is a source of: if a set of states
\* is closed under Mark, and a relation between the number of joins marked and
\* the state is kept by it, they hold of the result.
LEMMA JoinsInvariant ==
    ASSUME NEW n, NEW St, NEW m \in Nat, NEW I,
           DOMAIN JoinLookup(n) = 1 .. m,
           Standing \in St, <<0, Standing>> \in I,
           \A k \in 1 .. m : \A st \in St :
              /\ Mark(n, st, JoinLookup(n)[k]) \in St
              /\ <<k - 1, st>> \in I => <<k, Mark(n, st, JoinLookup(n)[k])>> \in I
    PROVE  AfterJoins(n) \in St /\ <<m, AfterJoins(n)>> \in I
<1> DEFINE b == Standing
           q == JoinLookup(n)
           it == CHOOSE f : f = [s \in SUBSET (DOMAIN q) |->
                    IF s = {} THEN b ELSE Mark(n, f[s \ {Max(s)}], q[Max(s)])]
<1>0. DOMAIN q = 1 .. m
  OBVIOUS
<1>1. AfterJoins(n) = it[DOMAIN q]
  BY DEF AfterJoins, FoldLeft, MapThenFoldSet, Standing
<1>2. \E f : f = [s \in SUBSET (DOMAIN q) |->
                    IF s = {} THEN b ELSE Mark(n, f[s \ {Max(s)}], q[Max(s)])]
  <2> DEFINE G == [p \in (1 .. m) \X St |-> Mark(n, p[2], q[p[1]])]
  <2> HIDE DEF q
  <2>1. G \in [(1 .. m) \X St -> St]
    BY DEF q
  <2>2. \A k \in 1 .. m : \A st \in St : G[<<k, st>>] = Mark(n, st, q[k])
    OBVIOUS
  <2> HIDE DEF G
  <2>3. PICK f : Folds(f, St, b, G, m)
    BY <2>1, FoldExists
  <2>4. ASSUME NEW s \in SUBSET (1 .. m)
        PROVE  f[s] = IF s = {} THEN b ELSE Mark(n, f[s \ {Max(s)}], q[Max(s)])
    <3>1. CASE s = {}
      BY <2>3, <3>1 DEF Folds
    <3>2. CASE s # {}
      <4>1. Max(s) \in 1 .. m
        BY <3>2, MaxExists
      <4>2. f[s \ {Max(s)}] \in St
        BY <2>3 DEF Folds
      <4> QED BY <2>2, <2>3, <3>2, <4>1, <4>2 DEF Folds
    <3> QED BY <3>1, <3>2
  <2>5. f = [s \in SUBSET (1 .. m) |-> f[s]]
    BY <2>3 DEF Folds
  <2>6. DOMAIN q = 1 .. m
    BY <1>0
  <2> QED BY <2>4, <2>5, <2>6
<1>3. it = [s \in SUBSET (DOMAIN q) |->
              IF s = {} THEN b ELSE Mark(n, it[s \ {Max(s)}], q[Max(s)])]
  BY <1>2
<1> HIDE DEF it
<1> DEFINE T == {k \in Nat : k <= m => it[1 .. k] \in St /\ <<k, it[1 .. k]>> \in I}
<1>4. 0 \in T
  <2>1. 1 .. 0 = {}
    OBVIOUS
  <2>2. it[{}] = b
    BY <1>3
  <2> QED BY <2>1, <2>2
<1>5. ASSUME NEW k \in Nat, k \in T PROVE k + 1 \in T
  <2> SUFFICES ASSUME k + 1 <= m
               PROVE  it[1 .. k + 1] \in St /\ <<k + 1, it[1 .. k + 1]>> \in I
    OBVIOUS
  <2>1. 1 .. k + 1 \in SUBSET (DOMAIN q)
    OBVIOUS
  <2>2. /\ 1 .. k + 1 # {} /\ (1 .. k + 1) \ {k + 1} = 1 .. k
        /\ Max(1 .. k + 1) = k + 1
    <3>1. k + 1 \in Nat \ {0} /\ (k + 1) - 1 = k
      OBVIOUS
    <3> QED BY <3>1, Interval
  <2>3. it[1 .. k + 1] = Mark(n, it[1 .. k], q[k + 1])
    BY <1>3, <2>1, <2>2
  <2>4. k + 1 \in 1 .. m /\ (k + 1) - 1 = k
    OBVIOUS
  <2>5. it[1 .. k] \in St /\ <<k, it[1 .. k]>> \in I
    BY <1>5
  <2> QED BY <2>3, <2>4, <2>5
<1>6. m \in T
  <2> HIDE DEF T
  <2> QED BY <1>4, <1>5, Induction
<1> QED BY <1>1, <1>6

\* f concatenates the first elements of a sequence of sequences.
Flattens(f, seqs, m, X) ==
    /\ f \in [1 .. m -> Seq(X)]
    /\ FlattenSeq(seqs) = f[m]
    /\ f[1] = seqs[1]
    /\ \A i \in 2 .. m : f[i] = f[i - 1] \o seqs[i]

\* FlattenSeq is such a concatenation.
LEMMA Flattened ==
    ASSUME NEW X, NEW m \in Nat, m # 0, NEW seqs \in [1 .. m -> Seq(X)], Len(seqs) = m
    PROVE  \E f : Flattens(f, seqs, m, X)
<1> DEFINE Cat(s, r) == s \o r
<1> DEFINE G == [p \in (1 .. m) \X Seq(X) |->
                   IF p[1] = 1 THEN seqs[1] ELSE Cat(p[2], seqs[p[1]])]
<1>1. G \in [(1 .. m) \X Seq(X) -> Seq(X)]
  <2> SUFFICES ASSUME NEW i \in 1 .. m, NEW s \in Seq(X) PROVE G[<<i, s>>] \in Seq(X)
    OBVIOUS
  <2>1. Cat(s, seqs[i]) \in Seq(X)
    BY ConcatProperties
  <2> QED BY <2>1
<1>2. \A i \in 1 .. m : \A s \in Seq(X) :
        G[<<i, s>>] = IF i = 1 THEN seqs[1] ELSE Cat(s, seqs[i])
  OBVIOUS
<1> HIDE DEF G, Cat
<1>3. <<>> \in Seq(X)
  OBVIOUS
<1>4. PICK g : Folds(g, Seq(X), <<>>, G, m)
  BY <1>1, <1>3, FoldExists
<1>5. \A i \in 1 .. m : g[1 .. i] = G[<<i, g[1 .. i - 1]>>] /\ g[1 .. i] \in Seq(X)
  <2> SUFFICES ASSUME NEW i \in 1 .. m
               PROVE  g[1 .. i] = G[<<i, g[1 .. i - 1]>>] /\ g[1 .. i] \in Seq(X)
    OBVIOUS
  <2>1. 1 .. i \in SUBSET (1 .. m)
    OBVIOUS
  <2>2. 1 .. i # {} /\ (1 .. i) \ {i} = 1 .. i - 1 /\ Max(1 .. i) = i
    <3>1. i \in Nat \ {0}
      OBVIOUS
    <3> QED BY <3>1, Interval
  <2> QED BY <1>4, <2>1, <2>2 DEF Folds
<1> DEFINE f == [i \in 1 .. m |-> g[1 .. i]]
<1>6. \A i \in 1 .. m : f[i] = IF i = 1 THEN seqs[i] ELSE Cat(f[i - 1], seqs[i])
  <2> SUFFICES ASSUME NEW i \in 1 .. m
               PROVE  f[i] = IF i = 1 THEN seqs[i] ELSE Cat(f[i - 1], seqs[i])
    OBVIOUS
  <2>1. CASE i = 1
    <3>1. 1 .. i - 1 \in SUBSET (1 .. m) /\ g[1 .. i - 1] \in Seq(X)
      BY <1>4, <2>1 DEF Folds
    <3> QED BY <1>2, <1>5, <2>1, <3>1
  <2>2. CASE i # 1
    <3>1. i - 1 \in 1 .. m
      BY <2>2
    <3> QED BY <1>2, <1>5, <2>2, <3>1
  <2> QED BY <2>1, <2>2
<1>7. \E h : h = [i \in 1 .. m |-> IF i = 1 THEN seqs[i] ELSE Cat(h[i - 1], seqs[i])]
  <2> HIDE DEF f
  <2>1. f = [i \in 1 .. m |-> f[i]]
    BY DEF f
  <2>2. f = [i \in 1 .. m |-> IF i = 1 THEN seqs[i] ELSE Cat(f[i - 1], seqs[i])]
    BY <1>6, <2>1
  <2> QED BY <2>2, Zenon
<1> DEFINE h == CHOOSE x : x = [i \in 1 .. m |-> IF i = 1 THEN seqs[i] ELSE Cat(x[i - 1], seqs[i])]
<1>8. h = [i \in 1 .. m |-> IF i = 1 THEN seqs[i] ELSE Cat(h[i - 1], seqs[i])]
  BY <1>7
<1>9. FlattenSeq(seqs) = h[m]
  BY DEF FlattenSeq, Cat
<1> HIDE DEF h, f
<1> DEFINE T == {k \in Nat : k + 1 <= m => h[k + 1] = f[k + 1]}
<1>10. 0 \in T
  BY <1>6, <1>8
<1>11. ASSUME NEW k \in Nat, k \in T PROVE k + 1 \in T
  <2> SUFFICES ASSUME (k + 1) + 1 <= m PROVE h[(k + 1) + 1] = f[(k + 1) + 1]
    OBVIOUS
  <2>1. (k + 1) + 1 \in 1 .. m /\ (k + 1) + 1 # 1 /\ ((k + 1) + 1) - 1 = k + 1
    OBVIOUS
  <2>2. h[k + 1] = f[k + 1]
    BY <1>11
  <2> QED BY <1>6, <1>8, <2>1, <2>2
<1>12. m - 1 \in T
  <2> HIDE DEF T
  <2>1. m - 1 \in Nat
    OBVIOUS
  <2> QED BY <1>10, <1>11, <2>1, Induction
<1>13. h[m] = f[m]
  BY <1>12
<1>14. f \in [1 .. m -> Seq(X)]
  BY <1>5 DEF f
<1>15. f[1] = seqs[1] /\ \A i \in 2 .. m : f[i] = Cat(f[i - 1], seqs[i])
  BY <1>6
<1>16. Flattens(f, seqs, m, X)
  BY <1>9, <1>13, <1>14, <1>15, Zenon DEF Flattens, Cat
<1> QED BY <1>16

-----------------------------------------------------------------------------
(* Where a name the runner does not find comes from, and the waiting of     *)
(* proper joins.                                                            *)

\* The names that a checked graph can schedule.
Reach == nodes \cup Unchecked

\* No other join has this one's barrier.
Alone(j) == \A k \in DOMAIN joins : joins[k].channel = joins[j].channel => k = j

\* Every join has a barrier; one that shares it with no other has its sources.
JoinsDefined ==
    /\ specs \in [DOMAIN specs -> SUBSET Name]
    /\ joins \in Seq([sources : Seq(Name), target : Name, channel : DOMAIN specs])
    /\ \A j \in DOMAIN joins :
         Alone(j) => specs[joins[j].channel] = ToSet(joins[j].sources)

\* What compile looked up stays true.
Checked == phase \in {"compiled", "running", "ended"} => EntryGiven /\ EntryKnown /\ TargetsKnown

\* What is scheduled is registered or unchecked.
Scheduled ==
    phase = "running" => pending \in Seq(Reach) /\ next_tasks \in Seq(Reach)

Started == phase \in {"running", "ended"}

\* A barrier has seen only sources of its own.
BarriersTyped ==
    Started =>
        /\ seen \in [DOMAIN specs -> SUBSET Name]
        /\ \A ch \in DOMAIN specs : seen[ch] \subseteq specs[ch]
        /\ satisfied_joins \subseteq DOMAIN specs
        /\ fires \in [DOMAIN joins -> Nat] /\ done \in [Name -> Nat]

\* A source in a barrier's seen set has completed once more often than its
\* join has fired.
Waits ==
    Started =>
        \A j \in DOMAIN joins : Proper(j) => \A s \in ToSet(joins[j].sources) :
            fires[j] + (IF s \in seen[joins[j].channel] THEN 1 ELSE 0) <= done[s]

\* An outcome belongs to a run that has ended.
NotRunYet == phase # "ended" => outcome = NotRun

\* The inductive invariant of both theorems below.
RouteInv ==
    /\ JoinsDefined /\ Checked /\ Scheduled /\ BarriersTyped /\ Waits
    /\ NotRunYet /\ NotFoundIsUnchecked

\* How often a sequence mentions a name; at most once if it repeats nothing.
LEMMA Mentions ==
    ASSUME NEW n, NEW src \in Seq(Name)
    PROVE  LET c == Cardinality({k \in DOMAIN src : src[k] = n}) IN
           c \in Nat /\ (IsInjective(src) => c <= 1)
<1> DEFINE S == {k \in DOMAIN src : src[k] = n}
<1>1. IsFiniteSet(DOMAIN src)
  BY FS_Interval, LenProperties
<1>2. IsFiniteSet(S)
  BY <1>1, FS_Subset
<1>3. Cardinality(S) \in Nat
  BY <1>2, FS_CardinalityType
<1>4. ASSUME IsInjective(src) PROVE Cardinality(S) <= 1
  <2>1. CASE S = {}
    <3>1. Cardinality(S) = 0
      BY <2>1, FS_EmptySet
    <3> QED BY <3>1
  <2>2. CASE S # {}
    <3>1. PICK x : x \in S
      BY <2>2
    <3>2. S = {x}
      BY <1>4, <3>1 DEF IsInjective
    <3>3. Cardinality(S) = 1
      BY <3>2, FS_Singleton
    <3> QED BY <3>3
  <2> QED BY <2>1, <2>2
<1> QED BY <1>3, <1>4

\* s lists numbers up to k, those of J once at most.
Once(s, k, J) ==
    /\ s \in Seq(1 .. k)
    /\ \A a, b \in DOMAIN s : s[a] = s[b] /\ s[a] \in J => a = b

\* What a join that is looked up once adds to such a list.
LEMMA OnceConcat ==
    ASSUME NEW k \in Nat, NEW J, NEW s, Once(s, k, J),
           NEW r \in Seq({k + 1}), k + 1 \in J => Len(r) <= 1
    PROVE  Once(s \o r, k + 1, J)
<1> DEFINE c == s \o r
<1>1. s \in Seq(1 .. k + 1) /\ r \in Seq(1 .. k + 1)
  <2>1. 1 .. k \subseteq 1 .. k + 1 /\ {k + 1} \subseteq 1 .. k + 1
    OBVIOUS
  <2> QED BY <2>1, SeqMonotonic DEF Once
<1>2. /\ c \in Seq(1 .. k + 1) /\ Len(c) = Len(s) + Len(r)
      /\ \A a \in 1 .. Len(s) + Len(r) :
           c[a] = IF a <= Len(s) THEN s[a] ELSE r[a - Len(s)]
  BY <1>1, ConcatProperties
<1>3. /\ Len(s) \in Nat /\ DOMAIN s = 1 .. Len(s) /\ \A a \in 1 .. Len(s) : s[a] \in 1 .. k
      /\ Len(r) \in Nat /\ DOMAIN r = 1 .. Len(r) /\ \A a \in 1 .. Len(r) : r[a] = k + 1
      /\ DOMAIN c = 1 .. Len(c)
  BY <1>2, LenProperties, ElementOfSeq DEF Once
<1> HIDE DEF c
<1>4. ASSUME NEW a \in DOMAIN c
      PROVE  \/ a \in DOMAIN s /\ c[a] = s[a] /\ c[a] \in 1 .. k
             \/ a - Len(s) \in 1 .. Len(r) /\ c[a] = k + 1
  <2>1. a \in 1 .. Len(s) + Len(r)
    BY <1>2, <1>3
  <2>2. CASE a <= Len(s)
    BY <1>2, <1>3, <2>1, <2>2
  <2>3. CASE ~(a <= Len(s))
    <3>1. a - Len(s) \in 1 .. Len(r)
      BY <1>3, <2>1, <2>3
    <3> QED BY <1>2, <1>3, <2>1, <2>3, <3>1
  <2> QED BY <2>2, <2>3
<1>5. ASSUME NEW a \in DOMAIN c, NEW b \in DOMAIN c, c[a] = c[b], c[a] \in J
      PROVE  a = b
  <2>1. CASE c[a] \in 1 .. k
    <3>1. a \in DOMAIN s /\ b \in DOMAIN s /\ s[a] = s[b] /\ s[a] \in J
      BY <1>4, <1>5, <2>1
    <3> QED BY <3>1 DEF Once
  <2>2. CASE c[a] = k + 1
    <3>1. c[b] = k + 1 /\ k + 1 \notin 1 .. k /\ Len(r) <= 1
      BY <1>5, <2>2
    <3>2. a - Len(s) \in 1 .. Len(r)
      BY <1>4, <2>2, <3>1
    <3>3. b - Len(s) \in 1 .. Len(r)
      BY <1>4, <3>1
    <3>4. a \in Int /\ b \in Int
      BY <1>2, <1>3
    <3> QED BY <1>3, <3>1, <3>2, <3>3, <3>4
  <2> QED BY <1>4, <2>1, <2>2
<1> QED BY <1>2, <1>5 DEF Once, c

\* join_lookup lists joins, one that repeats no source at most once.
LEMMA LookupOnce ==
    ASSUME JoinsDefined, NEW n
    PROVE  \E m \in Nat :
             /\ DOMAIN JoinLookup(n) = 1 .. m
             /\ \A k \in 1 .. m : JoinLookup(n)[k] \in DOMAIN joins
             /\ \A k, l \in 1 .. m :
                  JoinLookup(n)[k] = JoinLookup(n)[l]
                  /\ IsInjective(joins[JoinLookup(n)[k]].sources) => k = l
<1> DEFINE Count(j) == Cardinality({k \in DOMAIN joins[j].sources : joins[j].sources[k] = n})
           L == [j \in DOMAIN joins |-> [i \in 1 .. Count(j) |-> j]]
           J == {j \in DOMAIN joins : IsInjective(joins[j].sources)}
<1>1. PICK m \in Nat : DOMAIN joins = 1 .. m /\ Len(joins) = m
  BY DEF JoinsDefined
<1>2. ASSUME NEW j \in 1 .. m
      PROVE  Count(j) \in Nat /\ (j \in J => Count(j) <= 1)
  <2>1. joins[j] \in [sources : Seq(Name), target : Name, channel : DOMAIN specs]
    BY <1>1, ElementOfSeq DEF JoinsDefined
  <2>2. joins[j].sources \in Seq(Name)
    BY <2>1
  <2> QED BY <2>2, Mentions
<1>3. JoinLookup(n) = FlattenSeq(L)
  BY DEF JoinLookup
<1> HIDE DEF Count
<1>4. ASSUME NEW j \in 1 .. m
      PROVE  L[j] \in Seq({j}) /\ Len(L[j]) = Count(j) /\ L[j] \in Seq(1 .. m)
  <2>1. L[j] \in Seq({j}) /\ Len(L[j]) = Count(j)
    BY <1>1, <1>2
  <2>2. {j} \subseteq 1 .. m
    OBVIOUS
  <2> QED BY <2>1, <2>2, SeqMonotonic
<1>5. L \in [1 .. m -> Seq(1 .. m)] /\ Len(L) = m
  <2>1. DOMAIN L = 1 .. m
    BY <1>1
  <2>2. L = [j \in 1 .. m |-> L[j]]
    BY <2>1
  <2> HIDE DEF L
  <2>3. L \in [1 .. m -> Seq(1 .. m)]
    BY <1>4, <2>2
  <2> QED BY <2>1, <2>3
<1> HIDE DEF L, J
<1>6. CASE m = 0
  <2>1. FlattenSeq(L) = L
    BY <1>5, <1>6 DEF FlattenSeq
  <2>2. DOMAIN L = 1 .. 0 /\ 1 .. 0 = {}
    BY <1>5, <1>6
  <2> QED BY <1>3, <2>1, <2>2
<1>7. CASE m # 0
  <2>1. PICK f : Flattens(f, L, m, 1 .. m)
    BY <1>5, <1>7, Flattened
  <2> DEFINE T == {k \in Nat : k + 1 <= m => Once(f[k + 1], k + 1, J)}
  <2>2. 0 \in T
    <3>1. 1 \in 1 .. m
      BY <1>7
    <3>2. L[1] \in Seq({1}) /\ (1 \in J => Len(L[1]) <= 1)
      BY <1>2, <1>4, <3>1
    <3>3. {1} = 1 .. 1
      OBVIOUS
    <3>4. Once(L[1], 1, J)
      BY <3>2, <3>3 DEF Once
    <3> QED BY <2>1, <3>4 DEF Flattens
  <2>3. ASSUME NEW k \in Nat, k \in T PROVE k + 1 \in T
    <3> SUFFICES ASSUME (k + 1) + 1 <= m PROVE Once(f[(k + 1) + 1], (k + 1) + 1, J)
      OBVIOUS
    <3>1. (k + 1) + 1 \in 1 .. m /\ (k + 1) + 1 \in 2 .. m /\ ((k + 1) + 1) - 1 = k + 1
      OBVIOUS
    <3>2. f[(k + 1) + 1] = f[k + 1] \o L[(k + 1) + 1]
      BY <2>1, <3>1 DEF Flattens
    <3>3. Once(f[k + 1], k + 1, J)
      BY <2>3
    <3>4. /\ L[(k + 1) + 1] \in Seq({(k + 1) + 1})
          /\ (k + 1) + 1 \in J => Len(L[(k + 1) + 1]) <= 1
      BY <1>2, <1>4, <3>1
    <3>5. k + 1 \in Nat
      OBVIOUS
    <3>6. Once(f[k + 1] \o L[(k + 1) + 1], (k + 1) + 1, J)
      BY <3>3, <3>4, <3>5, OnceConcat, Zenon
    <3> QED BY <3>2, <3>6
  <2>4. Once(f[m], m, J)
    <3>1. m - 1 \in Nat /\ (m - 1) + 1 = m
      BY <1>7
    <3>2. m - 1 \in T
      <4> HIDE DEF T
      <4> QED BY <2>2, <2>3, <3>1, Induction
    <3> QED BY <3>1, <3>2
  <2>5. /\ Len(f[m]) \in Nat /\ DOMAIN f[m] = 1 .. Len(f[m])
        /\ \A k \in 1 .. Len(f[m]) : f[m][k] \in 1 .. m
    BY <2>4, LenProperties, ElementOfSeq DEF Once
  <2>6. JoinLookup(n) = f[m]
    BY <1>3, <2>1 DEF Flattens
  <2>7. ASSUME NEW k \in 1 .. Len(f[m]), NEW l \in 1 .. Len(f[m]), f[m][k] = f[m][l],
               IsInjective(joins[f[m][k]].sources)
        PROVE  k = l
    <3>1. f[m][k] \in J
      BY <1>1, <2>5, <2>7 DEF J
    <3> QED BY <2>4, <2>5, <2>7, <3>1 DEF Once
  <2> QED BY <1>1, <2>5, <2>6, <2>7
<1> QED BY <1>6, <1>7

\* What the fold over the joins works on.
States == [seen : {f \in [DOMAIN specs -> SUBSET Name] :
                     \A ch \in DOMAIN specs : f[ch] \subseteq specs[ch]},
           satisfied : SUBSET DOMAIN specs, next : Seq(Reach), fires : [DOMAIN joins -> Nat]]

\* Waits while the first k joins that n is a source of have been marked, and
\* the completion of n is not yet counted.
Owed(st, n, k) ==
    \A j \in DOMAIN joins : Proper(j) => \A s \in ToSet(joins[j].sources) :
        st.fires[j] + (IF s \in st.seen[joins[j].channel] THEN 1 ELSE 0)
        <= done[s] + (IF s = n /\ \E i \in 1 .. k : JoinLookup(n)[i] = j THEN 1 ELSE 0)

\* The type of one join.
LEMMA JoinTyped ==
    ASSUME JoinsDefined, NEW j \in DOMAIN joins
    PROVE  /\ joins[j].sources \in Seq(Name) /\ joins[j].target \in Name
           /\ joins[j].channel \in DOMAIN specs
<1>1. joins \in Seq([sources : Seq(Name), target : Name, channel : DOMAIN specs])
  BY DEF JoinsDefined
<1>2. joins[j] \in [sources : Seq(Name), target : Name, channel : DOMAIN specs]
  BY <1>1, LenProperties, ElementOfSeq
<1> QED BY <1>2

\* What marking j for n makes of st: the barrier is full and fires, or it keeps
\* what is marked.
Marked(new, n, st, j) ==
    LET ch == joins[j].channel
        marked == st.seen[ch] \cup ({n} \cap specs[ch])
    IN  \/ /\ new.seen = [st.seen EXCEPT ![ch] = {}]
           /\ new.fires = [st.fires EXCEPT ![j] = st.fires[j] + 1]
           /\ marked = specs[ch]
        \/ /\ new.seen = [st.seen EXCEPT ![ch] = marked]
           /\ new.fires = st.fires

\* Marking a join keeps the fold's state typed, and does what Marked says.
LEMMA MarkStep ==
    ASSUME JoinsDefined, NEW n \in Name, NEW st \in States, NEW j \in DOMAIN joins
    PROVE  Mark(n, st, j) \in States /\ Marked(Mark(n, st, j), n, st, j)
<1>0. PICK ch : ch = joins[j].channel
  OBVIOUS
<1>1. PICK marked : marked = st.seen[ch] \cup ({n} \cap specs[ch])
  OBVIOUS
<1>2. ch \in DOMAIN specs /\ specs[ch] \subseteq Name /\ joins[j].target \in Reach
  <2>1. joins[j].target \in Unchecked
    BY DEF Unchecked
  <2> QED BY <1>0, <2>1, JoinTyped DEF JoinsDefined, Reach
<1>3. marked \subseteq specs[ch] /\ marked \subseteq Name
  BY <1>1, <1>2 DEF States
<1>4. CASE marked = specs[ch] /\ specs[ch] # {} /\ ch \notin st.satisfied
  <2> DEFINE new == [seen |-> [st.seen EXCEPT ![ch] = {}],
                     satisfied |-> st.satisfied \cup {ch},
                     next |-> Append(st.next, joins[j].target),
                     fires |-> [st.fires EXCEPT ![j] = st.fires[j] + 1]]
  <2>1. Mark(n, st, j) = new
    BY <1>0, <1>1, <1>4 DEF Mark, Reset
  <2>2. new \in States
    BY <1>2 DEF States
  <2>3. Marked(new, n, st, j)
    BY <1>0, <1>1, <1>4 DEF Marked
  <2> QED BY <2>1, <2>2, <2>3
<1>5. CASE ~(marked = specs[ch] /\ specs[ch] # {} /\ ch \notin st.satisfied)
  <2> DEFINE new == [st EXCEPT !.seen[ch] = marked]
  <2>1. Mark(n, st, j) = new
    BY <1>0, <1>1, <1>5 DEF Mark
  <2>2. /\ new.seen = [st.seen EXCEPT ![ch] = marked] /\ new.fires = st.fires
        /\ new.satisfied = st.satisfied /\ new.next = st.next
    BY DEF States
  <2>3. new \in States
    BY <1>2, <1>3 DEF States
  <2>4. Marked(new, n, st, j)
    BY <1>0, <1>1, <2>2 DEF Marked
  <2> QED BY <2>1, <2>3, <2>4
<1> QED BY <1>4, <1>5

\* Marking the k-th join for n keeps what the first k - 1 left owed.
LEMMA MarkOwed ==
    ASSUME JoinsDefined, done \in [Name -> Nat], NEW n \in Name, NEW m \in Nat,
           NEW k \in 1 .. m, NEW st \in States,
           JoinLookup(n)[k] \in DOMAIN joins,
           \A l \in 1 .. m :
             JoinLookup(n)[l] = JoinLookup(n)[k]
             /\ IsInjective(joins[JoinLookup(n)[k]].sources) => l = k,
           Owed(st, n, k - 1)
    PROVE  Owed(Mark(n, st, JoinLookup(n)[k]), n, k)
<1> DEFINE q == JoinLookup(n)
           j == q[k]
           new == Mark(n, st, j)
<1>1. PICK ch : ch = joins[j].channel
  OBVIOUS
<1>2. PICK marked : marked = st.seen[ch] \cup ({n} \cap specs[ch])
  OBVIOUS
<1> HIDE DEF q, j, new
<1>3. /\ new \in States
      /\ \/ /\ new.seen = [st.seen EXCEPT ![ch] = {}]
            /\ new.fires = [st.fires EXCEPT ![j] = st.fires[j] + 1]
            /\ marked = specs[ch]
         \/ /\ new.seen = [st.seen EXCEPT ![ch] = marked]
            /\ new.fires = st.fires
  <2>1. new \in States /\ Marked(new, n, st, j)
    BY MarkStep DEF q, j, new
  <2> QED BY <1>1, <1>2, <2>1 DEF Marked
<1>4. SUFFICES ASSUME NEW i \in DOMAIN joins, Proper(i), NEW s \in ToSet(joins[i].sources)
      PROVE  new.fires[i] + (IF s \in new.seen[joins[i].channel] THEN 1 ELSE 0)
             <= done[s] + (IF s = n /\ \E l \in 1 .. k : q[l] = i THEN 1 ELSE 0)
  BY DEF Owed, new, j, q
<1>5. st.fires[i] + (IF s \in st.seen[joins[i].channel] THEN 1 ELSE 0)
      <= done[s] + (IF s = n /\ \E l \in 1 .. k - 1 : q[l] = i THEN 1 ELSE 0)
  BY <1>4 DEF Owed, q
<1>6. j \in DOMAIN joins /\ joins[j].channel \in DOMAIN specs
  BY JoinTyped DEF j, q
<1>7. joins[i].channel \in DOMAIN specs /\ s \in Name /\ done[s] \in Nat
  BY <1>4, JoinTyped DEF ToSet
<1>8. /\ st.seen \in [DOMAIN specs -> SUBSET Name] /\ new.seen \in [DOMAIN specs -> SUBSET Name]
      /\ st.fires \in [DOMAIN joins -> Nat] /\ new.fires \in [DOMAIN joins -> Nat]
  BY <1>3 DEF States
<1>9. CASE i = j
  <2>1. ~\E l \in 1 .. k - 1 : q[l] = i
    BY <1>4, <1>9 DEF j, q, Proper
  <2>2. \E l \in 1 .. k : q[l] = i
    BY <1>9 DEF j
  <2>3. specs[ch] = ToSet(joins[i].sources)
    BY <1>1, <1>4, <1>9 DEF JoinsDefined, Alone, Proper
  <2>4. st.fires[i] + (IF s \in st.seen[ch] THEN 1 ELSE 0) <= done[s]
    BY <1>1, <1>5, <1>7, <1>8, <1>9, <2>1
  <2>5. s \in marked => s \in st.seen[ch] \/ s = n
    BY <1>2
  <2>6. CASE /\ new.seen = [st.seen EXCEPT ![ch] = {}]
             /\ new.fires = [st.fires EXCEPT ![j] = st.fires[j] + 1]
             /\ marked = specs[ch]
    <3>1. s \in marked
      BY <1>4, <2>3, <2>6
    <3>2. new.fires[i] = st.fires[i] + 1 /\ s \notin new.seen[ch]
      BY <1>1, <1>6, <1>8, <1>9, <2>6
    <3> QED BY <1>1, <1>7, <1>8, <1>9, <2>2, <2>4, <2>5, <3>1, <3>2
  <2>7. CASE /\ new.seen = [st.seen EXCEPT ![ch] = marked]
             /\ new.fires = st.fires
    <3>1. new.seen[ch] = marked
      BY <1>1, <1>6, <1>8, <2>7
    <3> QED BY <1>1, <1>7, <1>8, <1>9, <2>2, <2>4, <2>5, <2>7, <3>1
  <2> QED BY <1>3, <2>6, <2>7
<1>10. CASE i # j
  <2>1. joins[i].channel # ch
    BY <1>1, <1>4, <1>6, <1>10 DEF Proper
  <2>2. new.fires[i] = st.fires[i] /\ new.seen[joins[i].channel] = st.seen[joins[i].channel]
    BY <1>3, <1>7, <1>8, <1>10, <2>1
  <2>3. (\E l \in 1 .. k - 1 : q[l] = i) => \E l \in 1 .. k : q[l] = i
    OBVIOUS
  <2> QED BY <1>5, <1>7, <1>8, <2>2, <2>3
<1> QED BY <1>9, <1>10

\* The result of all the joins n is a source of: typed, and no join has fired
\* more often than its sources have completed once n counts as well.
LEMMA JoinsRouted ==
    ASSUME JoinsDefined, Scheduled, BarriersTyped, Waits, phase = "running", NEW n \in Name
    PROVE  /\ AfterJoins(n) \in States
           /\ \A j \in DOMAIN joins : Proper(j) => \A s \in ToSet(joins[j].sources) :
                AfterJoins(n).fires[j]
                + (IF s \in AfterJoins(n).seen[joins[j].channel] THEN 1 ELSE 0)
                <= done[s] + (IF s = n THEN 1 ELSE 0)
<1>1. PICK m \in Nat :
        /\ DOMAIN JoinLookup(n) = 1 .. m
        /\ \A k \in 1 .. m : JoinLookup(n)[k] \in DOMAIN joins
        /\ \A k, l \in 1 .. m :
             JoinLookup(n)[k] = JoinLookup(n)[l]
             /\ IsInjective(joins[JoinLookup(n)[k]].sources) => k = l
  BY LookupOnce
<1> DEFINE b == Standing
           I == {p \in Nat \X States : Owed(p[2], n, p[1])}
<1>2. b \in States
  BY DEF Scheduled, BarriersTyped, Started, States, Standing
<1>3. /\ done \in [Name -> Nat]
      /\ \A j \in DOMAIN joins : Proper(j) => \A s \in ToSet(joins[j].sources) :
           fires[j] + (IF s \in seen[joins[j].channel] THEN 1 ELSE 0) <= done[s]
  BY DEF BarriersTyped, Waits, Started
<1>4. Owed(b, n, 0)
  <2>1. b.seen = seen /\ b.fires = fires
    BY DEF Standing
  <2>2. ~\E i \in 1 .. 0 : TRUE
    OBVIOUS
  <2>3. ASSUME NEW j \in DOMAIN joins, Proper(j), NEW s \in ToSet(joins[j].sources)
        PROVE  b.fires[j] + (IF s \in b.seen[joins[j].channel] THEN 1 ELSE 0)
               <= done[s] + (IF s = n /\ \E i \in 1 .. 0 : JoinLookup(n)[i] = j THEN 1 ELSE 0)
    <3>1. done[s] \in Nat
      BY <1>3, <2>3, JoinTyped DEF ToSet
    <3> HIDE DEF b
    <3> QED BY <1>3, <2>1, <2>2, <2>3, <3>1
  <2> QED BY <2>3 DEF Owed
<1>5. \A k \in Nat : \A st \in States : <<k, st>> \in I <=> Owed(st, n, k)
  OBVIOUS
<1>6. \A p \in I : p[2] \in States /\ Owed(p[2], n, p[1])
  OBVIOUS
<1>7. <<0, b>> \in I
  BY <1>2, <1>4, <1>5
<1> HIDE DEF I
<1>8. ASSUME NEW k \in 1 .. m, NEW st \in States
      PROVE  /\ Mark(n, st, JoinLookup(n)[k]) \in States
             /\ <<k - 1, st>> \in I => <<k, Mark(n, st, JoinLookup(n)[k])>> \in I
  <2>1. JoinLookup(n)[k] \in DOMAIN joins
    BY <1>1
  <2>2. Mark(n, st, JoinLookup(n)[k]) \in States
    BY <2>1, MarkStep
  <2>3. ASSUME Owed(st, n, k - 1) PROVE Owed(Mark(n, st, JoinLookup(n)[k]), n, k)
    BY <1>1, <1>3, <2>1, <2>3, MarkOwed
  <2>4. k - 1 \in Nat /\ k \in Nat
    OBVIOUS
  <2> QED BY <1>5, <2>2, <2>3, <2>4
<1>9. AfterJoins(n) \in States /\ <<m, AfterJoins(n)>> \in I
  <2> HIDE DEF b
  <2> QED BY <1>1, <1>2, <1>7, <1>8, JoinsInvariant DEF b
<1>10. Owed(AfterJoins(n), n, m)
  BY <1>5, <1>9
<1>11. ASSUME NEW j \in DOMAIN joins, Proper(j), NEW s \in ToSet(joins[j].sources)
       PROVE  AfterJoins(n).fires[j]
              + (IF s \in AfterJoins(n).seen[joins[j].channel] THEN 1 ELSE 0)
              <= done[s] + (IF s = n THEN 1 ELSE 0)
  <2>1. AfterJoins(n).fires[j]
        + (IF s \in AfterJoins(n).seen[joins[j].channel] THEN 1 ELSE 0)
        <= done[s] + (IF s = n /\ \E i \in 1 .. m : JoinLookup(n)[i] = j THEN 1 ELSE 0)
    BY <1>10, <1>11 DEF Owed
  <2>2. AfterJoins(n).fires[j] \in Nat
    BY <1>9 DEF States
  <2>3. done[s] \in Nat
    BY <1>3, <1>11, JoinTyped DEF ToSet
  <2>4. CASE s = n
    BY <2>1, <2>2, <2>3, <2>4
  <2>5. CASE s # n
    BY <2>1, <2>2, <2>3, <2>5
  <2> QED BY <2>4, <2>5
<1> QED BY <1>9, <1>11

-----------------------------------------------------------------------------
(* The steps.                                                              *)

\* A new join's barrier has the sources of that join.
LEMMA BuildDefined ==
    ASSUME JoinsDefined, Build
    PROVE  JoinsDefined'
<1>1. ASSUME UNCHANGED <<joins, specs>> PROVE JoinsDefined'
  BY <1>1 DEF JoinsDefined, Alone
<1>2. ASSUME NEW call \in JoinCalls, AddEdgeJoin(call) PROVE JoinsDefined'
  <2>1. PICK ch : ch = ChannelOf(call)
    OBVIOUS
  <2>2. call.sources \in Seq(Name) /\ call.target \in Name
    BY BuilderAssumption
  <2>3. ToSet(call.sources) \subseteq Name
    BY <2>2 DEF ToSet
  <2> DEFINE new == [sources |-> call.sources, target |-> call.target, channel |-> ch]
             typed == [sources : Seq(Name), target : Name, channel : DOMAIN specs']
  <2>4. joins' = Append(joins, new)
    BY <1>2, <2>1 DEF AddEdgeJoin
  <2>5. /\ DOMAIN specs' = DOMAIN specs \cup {ch}
        /\ specs' = [c \in DOMAIN specs \cup {ch} |->
                       IF c = ch THEN ToSet(call.sources) ELSE specs[c]]
    <3>1. specs' = Put(specs, ch, ToSet(call.sources))
      BY <1>2, <2>1 DEF AddEdgeJoin
    <3> QED BY <3>1 DEF Put
  <2>6. specs' \in [DOMAIN specs' -> SUBSET Name]
    BY <2>3, <2>5 DEF JoinsDefined
  <2>7. joins \in Seq(typed) /\ new \in typed
    <3>1. [sources : Seq(Name), target : Name, channel : DOMAIN specs] \subseteq typed
      BY <2>5
    <3>2. joins \in Seq(typed)
      BY <3>1, SeqMonotonic DEF JoinsDefined
    <3> QED BY <2>2, <2>5, <3>2
  <2>8. new.channel = ch /\ new.sources = call.sources
    OBVIOUS
  <2> HIDE DEF new, typed
  <2>9. /\ joins' \in Seq(typed) /\ DOMAIN joins = 1 .. Len(joins) /\ Len(joins) \in Nat
        /\ DOMAIN joins' = 1 .. Len(joins) + 1
        /\ joins'[Len(joins) + 1] = new
        /\ \A j \in 1 .. Len(joins) : joins'[j] = joins[j]
    BY <2>4, <2>7
  <2>10. ASSUME NEW j \in DOMAIN joins', Alone(j)'
         PROVE  specs'[joins'[j].channel] = ToSet(joins'[j].sources)
    <3>1. CASE j = Len(joins) + 1
      BY <2>5, <2>8, <2>9, <3>1
    <3>2. CASE j # Len(joins) + 1
      <4>1. j \in DOMAIN joins /\ joins'[j] = joins[j]
        BY <2>9, <3>2
      <4>2. joins[j].channel # ch
        BY <2>8, <2>9, <2>10, <3>2, <4>1 DEF Alone
      <4>3. Alone(j)
        BY <2>9, <2>10, <4>1 DEF Alone
      <4>4. joins[j].channel \in DOMAIN specs
        BY <4>1, JoinTyped
      <4> QED BY <2>5, <4>1, <4>2, <4>3, <4>4 DEF JoinsDefined
    <3> QED BY <3>1, <3>2
  <2> QED BY <2>6, <2>9, <2>10 DEF JoinsDefined, typed
<1> QED BY <1>1, <1>2 DEF Build, AddNode, AddEdgeFromStart, AddEdge, AddConditionalEdge, AddSequence

\* What a router or an edge schedules is registered or unchecked.
LEMMA Decided ==
    ASSUME TargetsKnown, NEW n \in DOMAIN edges, NEW choice \in Decisions(edges[n])
    PROVE  choice \in Seq(Reach)
<1>1. edges[n].kind = "Static" => edges[n].to \subseteq Reach
  BY DEF TargetsKnown, Reach
<1>2. edges[n].kind = "Conditional" => edges[n].to \subseteq Reach
  BY DEF Unchecked, Reach
<1>3. CASE edges[n].kind = "Static"
  <2>1. PICK x \in edges[n].to : choice = <<x>>
    BY <1>3 DEF Decisions
  <2> QED BY <1>1, <1>3, <2>1
<1>4. CASE edges[n].kind = "Conditional"
  <2>1. \/ choice = <<>>
        \/ \E x \in edges[n].to : choice = <<x>>
        \/ choice \in edges[n].to \X edges[n].to
    BY <1>4 DEF Decisions
  <2>2. CASE choice \in edges[n].to \X edges[n].to
    <3>1. PICK x \in edges[n].to, y \in edges[n].to : choice = <<x, y>>
      BY <2>2
    <3>2. x \in Reach /\ y \in Reach
      BY <1>2, <1>4
    <3> QED BY <3>1, <3>2
  <2>3. CASE choice = <<>>
    BY <2>3
  <2>4. CASE \E x \in edges[n].to : choice = <<x>>
    <3>1. PICK x \in edges[n].to : choice = <<x>>
      BY <2>4
    <3>2. x \in Reach
      BY <1>2, <1>4
    <3> QED BY <3>1, <3>2
  <2> QED BY <2>1, <2>2, <2>3, <2>4
<1>5. CASE edges[n].kind \notin {"Static", "Conditional"}
  <2>1. Decisions(edges[n]) = {<<>>}
    BY <1>5 DEF Decisions
  <2> QED BY <2>1
<1> QED BY <1>3, <1>4, <1>5

\* So is the node a run enters.
LEMMA Entered ==
    ASSUME EntryGiven, EntryKnown, TargetsKnown, NEW choice \in EntryChoices
    PROVE  choice \in Seq(Reach)
<1>1. CASE entry # {}
  <2>1. PICK x \in entry : choice = <<x>>
    BY <1>1 DEF EntryChoices
  <2>2. x \in Reach
    BY DEF EntryKnown, Reach, Unchecked
  <2> QED BY <2>1, <2>2
<1>2. CASE entry = {}
  BY <1>2, Decided DEF EntryChoices, EntryGiven
<1> QED BY <1>1, <1>2

\* The graph is immutable from compile on, and with it what was checked.
LEMMA DefinitionKept ==
    ASSUME UNCHANGED definition
    PROVE  /\ JoinsDefined => JoinsDefined'
           /\ Reach' = Reach /\ Unchecked' = Unchecked
           /\ EntryGiven' = EntryGiven /\ EntryKnown' = EntryKnown /\ TargetsKnown' = TargetsKnown
           /\ \A j : Proper(j)' <=> Proper(j)
BY DEF definition, JoinsDefined, Alone, Reach, Unchecked, EntryGiven, EntryKnown, TargetsKnown, Proper

\* Building: no run has begun.
LEMMA BuildRoute ==
    ASSUME RouteInv, Build
    PROVE  RouteInv'
<1>1. phase = "building" /\ phase' = "building" /\ outcome' = outcome
  BY DEF Build, AddNode, AddEdgeFromStart, AddEdge, AddConditionalEdge, AddSequence,
         AddEdgeJoin, Building, routing
<1>2. JoinsDefined'
  BY BuildDefined DEF RouteInv
<1>3. outcome.why # "NodeNotFound"
  BY <1>1 DEF RouteInv, NotRunYet, NotRun
<1> QED BY <1>1, <1>2, <1>3 DEF RouteInv, Checked, Scheduled, BarriersTyped, Waits, Started,
                                NotRunYet, NotFoundIsUnchecked

\* compile establishes what the runs rely on.
LEMMA CompileRoute ==
    ASSUME RouteInv, Compile
    PROVE  RouteInv'
<1>1. UNCHANGED <<definition, outcome>> /\ phase = "building"
      /\ phase' = IF Accepts THEN "compiled" ELSE "rejected"
  BY DEF Compile, routing
<1>2. JoinsDefined' /\ Checked' /\ NotFoundIsUnchecked'
  BY <1>1, DefinitionKept DEF RouteInv, Accepts, Checked, NotFoundIsUnchecked
<1> QED BY <1>1, <1>2 DEF RouteInv, Scheduled, BarriersTyped, Waits, Started, NotRunYet

\* A run begins with empty barriers and a reachable entry.
LEMMA InvokeRoute ==
    ASSUME RouteInv, Invoke
    PROVE  RouteInv'
<1>1. UNCHANGED definition /\ phase = "compiled"
  BY DEF Invoke
<1>2. JoinsDefined' /\ Checked' /\ EntryGiven /\ EntryKnown /\ TargetsKnown
  BY <1>1, DefinitionKept DEF RouteInv, Checked
<1>3. PICK choice \in EntryChoices :
        IF Len(choice) = 1
        THEN phase' = "running" /\ pending' = choice /\ UNCHANGED outcome
        ELSE phase' = "ended" /\ outcome' = [why |-> "NoEntry", name |-> END] /\ UNCHANGED pending
  BY DEF Invoke
<1>4. choice \in Seq(Reach)
  BY <1>2, Entered
<1>5. Scheduled'
  BY <1>1, <1>3, <1>4, DefinitionKept DEF Scheduled, Invoke
<1>6. outcome = NotRun
  BY <1>1 DEF RouteInv, NotRunYet
<1>7. NotRunYet' /\ NotFoundIsUnchecked'
  BY <1>3, <1>6 DEF NotRunYet, NotFoundIsUnchecked, NotRun
<1>8. /\ DOMAIN specs' = DOMAIN specs /\ specs' = specs /\ joins' = joins
      /\ seen' = [ch \in DOMAIN specs |-> {}] /\ satisfied_joins' = {}
      /\ done' = [n \in Name |-> 0] /\ fires' = [j \in DOMAIN joins |-> 0]
  BY DEF Invoke, Fresh, definition
<1>9. BarriersTyped'
  BY <1>8 DEF BarriersTyped
<1>10. Waits'
  <2>1. ASSUME NEW j \in DOMAIN joins, NEW s \in ToSet(joins[j].sources)
        PROVE  fires'[j] + (IF s \in seen'[joins[j].channel] THEN 1 ELSE 0) <= done'[s]
    <3>1. s \in Name /\ joins[j].channel \in DOMAIN specs
      BY <2>1, JoinTyped DEF ToSet, RouteInv
    <3> QED BY <1>8, <3>1
  <2> QED BY <1>8, <2>1 DEF Waits
<1> QED BY <1>2, <1>5, <1>7, <1>9, <1>10 DEF RouteInv

\* The steps of a run.
LEMMA RunRoute ==
    ASSUME RouteInv, Run
    PROVE  RouteInv'
<1>1. UNCHANGED definition /\ phase = "running" /\ phase' \in {"running", "ended"}
  BY DEF Run, Finish, RecursionLimit, NodeNotFound, RouteJoins, RouteEdge,
         RouteUnreachable, NextSuperstep, Advance, End, Running, Routing
<1>2. JoinsDefined /\ TargetsKnown
  BY <1>1 DEF RouteInv, Checked
<1>3. JoinsDefined' /\ Checked'
  BY <1>1, DefinitionKept DEF RouteInv, Checked
<1>4. pending \in Seq(Reach) /\ next_tasks \in Seq(Reach) /\ outcome = NotRun
  BY <1>1 DEF RouteInv, Scheduled, NotRunYet
<1>5. ASSUME UNCHANGED <<seen, satisfied_joins, fires, done>> PROVE BarriersTyped' /\ Waits'
  BY <1>1, <1>5, DefinitionKept DEF definition, RouteInv, BarriersTyped, Waits, Started
<1>6. ASSUME NEW why, NEW name, End(why, name), why = "NodeNotFound" => name \in Unchecked
      PROVE  RouteInv'
  BY <1>1, <1>3, <1>5, <1>6, DefinitionKept
     DEF End, history, RouteInv, Scheduled, NotRunYet, NotFoundIsUnchecked
<1>7. CASE Finish \/ RecursionLimit \/ RouteUnreachable
  BY <1>6, <1>7 DEF Finish, RecursionLimit, RouteUnreachable
<1>8. CASE NodeNotFound
  <2>1. PICK i \in DOMAIN pending : pending[i] \notin nodes /\ End("NodeNotFound", pending[i])
    BY <1>8 DEF NodeNotFound
  <2>2. pending[i] \in Unchecked
    BY <1>4, <2>1 DEF Reach
  <2> QED BY <1>6, <2>1, <2>2
<1>9. ASSUME UNCHANGED <<phase, outcome>>, pending' \in Seq(Reach), next_tasks' \in Seq(Reach),
             BarriersTyped', Waits'
      PROVE  RouteInv'
  BY <1>1, <1>3, <1>4, <1>9, DefinitionKept
     DEF RouteInv, Scheduled, NotRunYet, NotFoundIsUnchecked, NotRun
<1>10. CASE NextSuperstep
  <2>1. <<>> \in Seq(Reach)
    OBVIOUS
  <2> QED BY <1>4, <1>9, <1>10, <2>1, <1>1, DefinitionKept
          DEF NextSuperstep, history, definition, RouteInv, BarriersTyped, Waits, Started
<1>11. ASSUME NEW n \in Name, Advance(n)
       PROVE  /\ UNCHANGED <<phase, outcome, pending>>
              /\ done' \in [Name -> Nat]
              /\ \A s \in Name : done'[s] = done[s] + (IF s = n THEN 1 ELSE 0)
  BY <1>1, <1>11 DEF Advance, RouteInv, BarriersTyped, Started
<1>12. CASE RouteJoins
  <2>1. PICK n \in Name :
          /\ seen' = AfterJoins(n).seen /\ satisfied_joins' = AfterJoins(n).satisfied
          /\ next_tasks' = AfterJoins(n).next /\ fires' = AfterJoins(n).fires
          /\ Advance(n)
    BY <1>12 DEF RouteJoins
  <2>2. /\ AfterJoins(n) \in States
        /\ \A j \in DOMAIN joins : Proper(j) => \A s \in ToSet(joins[j].sources) :
             AfterJoins(n).fires[j]
             + (IF s \in AfterJoins(n).seen[joins[j].channel] THEN 1 ELSE 0)
             <= done[s] + (IF s = n THEN 1 ELSE 0)
    BY <1>1, JoinsRouted DEF RouteInv
  <2>3. BarriersTyped'
    BY <1>1, <1>11, <2>1, <2>2 DEF BarriersTyped, States, definition
  <2>4. Waits'
    <3>1. ASSUME NEW j \in DOMAIN joins, Proper(j), NEW s \in ToSet(joins[j].sources)
          PROVE  fires'[j] + (IF s \in seen'[joins[j].channel] THEN 1 ELSE 0) <= done'[s]
      <4>1. s \in Name
        BY <1>2, <3>1, JoinTyped DEF ToSet
      <4>2. done'[s] = done[s] + (IF s = n THEN 1 ELSE 0)
        BY <1>11, <2>1, <4>1
      <4> QED BY <2>1, <2>2, <3>1, <4>2
    <3>2. joins' = joins
      BY <1>1 DEF definition
    <3> QED BY <1>1, <3>1, <3>2, DefinitionKept DEF Waits
  <2>5. next_tasks' \in Seq(Reach)
    BY <2>1, <2>2 DEF States
  <2> QED BY <1>4, <1>9, <1>11, <2>1, <2>3, <2>4, <2>5
<1>13. CASE RouteEdge
  <2>0. PICK n \in DOMAIN edges \cap Name :
          /\ \E choice \in Decisions(edges[n]) : next_tasks' = next_tasks \o choice
          /\ Advance(n) /\ UNCHANGED <<seen, satisfied_joins, fires>>
    BY <1>13 DEF RouteEdge
  <2>1. PICK choice \in Decisions(edges[n]) :
          /\ next_tasks' = next_tasks \o choice
          /\ Advance(n) /\ UNCHANGED <<seen, satisfied_joins, fires>>
    BY <2>0
  <2>2. choice \in Seq(Reach)
    BY <1>2, Decided
  <2>3. next_tasks' \in Seq(Reach)
    BY <1>4, <2>1, <2>2, ConcatProperties
  <2>4. BarriersTyped'
    BY <1>1, <1>11, <2>1 DEF BarriersTyped, Started, definition, RouteInv
  <2>5. Waits'
    <3>1. ASSUME NEW j \in DOMAIN joins, Proper(j), NEW s \in ToSet(joins[j].sources)
          PROVE  fires'[j] + (IF s \in seen'[joins[j].channel] THEN 1 ELSE 0) <= done'[s]
      <4>1. s \in Name
        BY <1>2, <3>1, JoinTyped DEF ToSet
      <4>2. done'[s] = done[s] + (IF s = n THEN 1 ELSE 0) /\ done[s] \in Nat /\ fires[j] \in Nat
        BY <1>1, <1>11, <2>1, <4>1 DEF RouteInv, BarriersTyped, Started
      <4>3. fires[j] + (IF s \in seen[joins[j].channel] THEN 1 ELSE 0) <= done[s]
        BY <1>1, <3>1 DEF RouteInv, Waits, Started
      <4> QED BY <2>1, <4>2, <4>3
    <3>2. joins' = joins
      BY <1>1 DEF definition
    <3> QED BY <1>1, <3>1, <3>2, DefinitionKept DEF Waits
  <2> QED BY <1>4, <1>9, <1>11, <2>1, <2>3, <2>4, <2>5
<1> QED BY <1>7, <1>8, <1>10, <1>12, <1>13 DEF Run

\* The invariant holds from the first call on.
LEMMA RouteInductive == Spec => []RouteInv
<1>1. Init => RouteInv
  <2> SUFFICES ASSUME Init PROVE RouteInv
    OBVIOUS
  <2>1. DOMAIN <<>> = {}
    OBVIOUS
  <2>2. JoinsDefined
    BY <2>1 DEF Init, JoinsDefined
  <2> QED BY <2>2 DEF Init, RouteInv, Checked, Scheduled, BarriersTyped, Waits, Started,
                      NotRunYet, NotFoundIsUnchecked, NotRun
<1>2. RouteInv /\ [Next]_vars => RouteInv'
  <2> SUFFICES ASSUME RouteInv, [Next]_vars PROVE RouteInv'
    OBVIOUS
  <2>1. CASE UNCHANGED vars
    BY <2>1, DefinitionKept DEF vars, definition, routing, history, RouteInv, Checked, Scheduled,
       BarriersTyped, Waits, Started, NotRunYet, NotFoundIsUnchecked
  <2> QED BY <2>1, BuildRoute, CompileRoute, InvokeRoute, RunRoute DEF Next, Terminated
<1> QED BY <1>1, <1>2, PTL DEF Spec

\* For every sequence of builder calls, a name the runner does not find was put
\* there by a router, a join's target or an entry that compile did not look up:
\* no static edge leads to it (builder.rs:227).
THEOREM NotFoundSafety == Spec => []NotFoundIsUnchecked
<1>1. RouteInv => NotFoundIsUnchecked
  BY DEF RouteInv
<1> QED BY <1>1, RouteInductive, PTL

\* For every graph, a proper join's target is scheduled at most as often as each
\* of its sources has completed (builder.rs:172, engine.rs:600).
THEOREM JoinsWait == Spec => []ProperJoinWaits
<1>1. RouteInv => ProperJoinWaits
  <2> SUFFICES ASSUME RouteInv, phase \in {"running", "ended"}, NEW j \in DOMAIN fires, Proper(j),
                      NEW s \in ToSet(joins[j].sources)
               PROVE  fires[j] <= done[s]
    BY DEF ProperJoinWaits
  <2>1. fires \in [DOMAIN joins -> Nat] /\ done \in [Name -> Nat]
    BY DEF RouteInv, BarriersTyped, Started
  <2>2. fires[j] + (IF s \in seen[joins[j].channel] THEN 1 ELSE 0) <= done[s]
    BY <2>1 DEF RouteInv, Waits, Started
  <2>3. s \in Name
    BY <2>1, JoinTyped DEF RouteInv, ToSet
  <2> QED BY <2>1, <2>2, <2>3
<1> QED BY <1>1, RouteInductive, PTL
=============================================================================
