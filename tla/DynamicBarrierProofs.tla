------------------------ MODULE DynamicBarrierProofs ------------------------
(***************************************************************************)
(* The two properties of DynamicBarrier for every finite set of nodes and  *)
(* every length and number of batches.                                     *)
(***************************************************************************)
EXTENDS DynamicBarrier, FiniteSetTheorems, TLAPS

\* What seen stands for: the signals since the target set came that it awaits.
SeenInv ==
    /\ signalled \subseteq Name
    /\ \/ names = {} /\ seen = {}
       \/ \E T \in SUBSET Name : names = {T} /\ seen = signalled \cap T

IInv == SeenInv /\ opened \in BOOLEAN /\ OpeningIsVersioned

\* Comparing the sizes is comparing the sets, because seen stays within the
\* target set.
LEMMA SizesSuffice == ASSUME SeenInv PROVE OpenWhenAllArrived
<1>1. CASE names = {}
    BY <1>1 DEF Open, OpenWhenAllArrived
<1>2. CASE \E T \in SUBSET Name : names = {T} /\ seen = signalled \cap T
    <2>1. PICK T \in SUBSET Name : names = {T} /\ seen = signalled \cap T
        BY <1>2
    <2>2. IsFiniteSet(T) /\ seen \subseteq T
        BY <2>1, FS_Subset, BarrierAssumption
    <2>3. /\ Cardinality(seen) \in Nat /\ Cardinality(T) \in Nat
          /\ Cardinality(seen) <= Cardinality(T)
          /\ Cardinality(seen) = Cardinality(T) => seen = T
        BY <2>2, FS_Subset, FS_CardinalityType
    <2>4. Cardinality(seen) >= Cardinality(T) <=> seen = T
        BY <2>3
    <2>5. Open <=> T # {} /\ Cardinality(seen) >= Cardinality(T)
        BY <2>1 DEF Open
    <2>6. seen = T <=> T \subseteq signalled
        BY <2>1
    <2> QED BY <2>1, <2>4, <2>5, <2>6 DEF OpenWhenAllArrived
<1> QED BY <1>1, <1>2 DEF SeenInv

LEMMA InitInv == ASSUME Init PROVE IInv
BY DEF Init, IInv, SeenInv, OpeningIsVersioned, Open

LEMMA MergeInv ==
    ASSUME IInv, NEW batch, Merge(batch) PROVE IInv'
<1>1. SeenInv'
    BY DEF IInv, SeenInv, Merge
<1>2. Open' = Open /\ Open \in BOOLEAN
    BY DEF Merge, Open
<1> QED BY <1>1, <1>2 DEF Merge, IInv, OpeningIsVersioned

LEMMA TakeWaitInv == ASSUME IInv, TakeWait PROVE IInv'
<1>1. PICK T \in SUBSET Name : names' = {T} /\ seen' = {} /\ changed'
    BY DEF TakeWait, Prime, WaitForNames
<1>2. SeenInv'
    BY <1>1 DEF SeenInv, TakeWait
<1>3. opened' \in BOOLEAN /\ OpeningIsVersioned'
    BY <1>1 DEF IInv, TakeWait, OpeningIsVersioned
<1> QED BY <1>2, <1>3 DEF IInv

LEMMA TakeNameInv == ASSUME IInv, TakeName PROVE IInv'
<1>1. PICK n \in Name : Signal(n) /\ signalled' = signalled \cup {n} /\ opened' = opened
    BY DEF TakeName, Completion
<1>2. SeenInv'
    <2>1. CASE names = {}
        BY <1>1, <2>1 DEF IInv, SeenInv, Signal, Awaited
    <2>2. CASE \E T \in SUBSET Name : names = {T} /\ seen = signalled \cap T
        <3>1. PICK T \in SUBSET Name : names = {T} /\ seen = signalled \cap T
            BY <2>2
        <3>2. Awaited(n) <=> n \in T
            BY <3>1 DEF Awaited
        <3>3. names' = {T} /\ seen' = signalled' \cap T
            BY <1>1, <3>1, <3>2 DEF Signal
        <3> QED BY <1>1, <3>3 DEF IInv, SeenInv
    <2> QED BY <2>1, <2>2 DEF IInv, SeenInv
<1>3. CASE seen' = seen
    <2>1. Open' = Open
        BY <1>1, <1>3 DEF Signal, Open
    <2>2. changed => changed'
        BY <1>1 DEF Signal
    <2> QED BY <1>1, <1>2, <2>1, <2>2 DEF IInv, OpeningIsVersioned
<1>4. CASE seen' # seen
    <2>1. Awaited(n) /\ n \notin seen
        BY <1>1, <1>4 DEF Signal
    <2>2. changed'
        BY <1>1, <2>1 DEF Signal
    <2> QED BY <1>1, <1>2, <2>2 DEF IInv, OpeningIsVersioned
<1> QED BY <1>3, <1>4

LEMMA BumpInv == ASSUME IInv, Bump PROVE IInv'
<1>1. SeenInv'
    BY DEF IInv, SeenInv, Bump
<1>2. Open' = Open /\ Open \in BOOLEAN
    BY DEF Bump, Open
<1> QED BY <1>1, <1>2 DEF Bump, IInv, OpeningIsVersioned

LEMMA RestartInv == ASSUME IInv, Restart PROVE IInv'
BY DEF Restart, IInv, SeenInv, OpeningIsVersioned, Open

LEMMA StutterInv == ASSUME IInv, UNCHANGED vars PROVE IInv'
<1>1. SeenInv'
    BY DEF IInv, SeenInv, vars
<1>2. Open' = Open
    BY DEF vars, Open
<1> QED BY <1>1, <1>2 DEF vars, IInv, OpeningIsVersioned

LEMMA InvIsInductive == Spec => []IInv
<1>1. IInv /\ [Next]_vars => IInv'
    BY MergeInv, TakeWaitInv, TakeNameInv, BumpInv, RestartInv, StutterInv DEF Next
<1> QED BY <1>1, InitInv, PTL DEF Spec

\* The barrier opens when, and only when, all the nodes its present target set
\* names have signalled since that set was given, for any finite set of nodes
\* (DynamicBarrierValue::update and get).
THEOREM BarrierOpens == Spec => []OpenWhenAllArrived
<1>1. IInv => OpenWhenAllArrived
    BY SizesSuffice DEF IInv
<1> QED BY <1>1, InvIsInductive, PTL

\* A merge that opens or closes the barrier reports a change
\* (DynamicBarrierValue::update's return value).
THEOREM OpeningCounts == Spec => []OpeningIsVersioned
<1>1. IInv => OpeningIsVersioned
    BY DEF IInv
<1> QED BY <1>1, InvIsInductive, PTL
=============================================================================
