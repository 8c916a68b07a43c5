---------------------------- MODULE DynamicBarrier ----------------------------
(***************************************************************************)
(* DynamicBarrierValue: a channel that opens when every node of a set has  *)
(* signalled, the set itself arriving at run time in a WaitForNames        *)
(* message.  A merge hands update() the batch of a superstep; the loop     *)
(* over the batch is one step per value, so that a new target set may come *)
(* before, between and after the signals.                                  *)
(***************************************************************************)
EXTENDS Naturals, Sequences, FiniteSets, SequencesExt

CONSTANTS
    Name,            \* node names
    MaxBatch,        \* bound on the values one merge writes
    MaxMerges        \* bound on the merges of a behaviour

ASSUME BarrierAssumption ==
    /\ IsFiniteSet(Name)
    /\ MaxBatch \in Nat /\ MaxMerges \in Nat

\* {"__wait_for__": [..]}, or a node's name; update() passes over the rest.
WaitForNames == [wait : SUBSET Name]
Completion == [name : Name]
Message == WaitForNames \cup Completion

VARIABLES
    names,           \* {} for None, {T} for Some(T)
    seen,
    values,          \* what is left of the batch being merged
    changed,         \* update()'s local, FALSE between merges
    version,         \* the channel's entry in channel_versions
    merges,
    signalled,       \* history: names sent since the last WaitForNames
    opened           \* history: whether get() gave Some when the merge began

vars == <<names, seen, values, changed, version, merges, signalled, opened>>

\* get(): the sizes of the two sets are compared, not the sets.
Open == \E T \in names : T # {} /\ Cardinality(seen) >= Cardinality(T)

-----------------------------------------------------------------------------

Init ==
    /\ names = {} /\ seen = {} /\ signalled = {}
    /\ values = <<>> /\ changed = FALSE /\ version = 0 /\ merges = 0
    /\ opened = FALSE

\* apply_grouped_updates reaches the channel.
Merge(batch) ==
    /\ values = <<>> /\ ~changed /\ merges < MaxMerges
    /\ values' = batch /\ merges' = merges + 1
    /\ opened' = Open
    /\ UNCHANGED <<names, seen, changed, version, signalled>>

\* Mutant of Prime: what was seen for the last target set is kept.
PrimeKeepingSeen(T) == names' = {T} /\ changed' = TRUE /\ UNCHANGED seen
\* A WaitForNames value replaces the target set, whatever state it finds.
Prime(T) == names' = {T} /\ seen' = {} /\ changed' = TRUE

\* A name counts when the present target set awaits it and it is new.
Awaited(n) == \E T \in names : n \in T

\* Mutant of Signal: update() says nothing of it.
SignalUnchanged(n) ==
    /\ seen' = IF Awaited(n) THEN seen \cup {n} ELSE seen
    /\ UNCHANGED <<names, changed>>
Signal(n) ==
    /\ seen' = IF Awaited(n) THEN seen \cup {n} ELSE seen
    /\ changed' = (changed \/ (Awaited(n) /\ n \notin seen))
    /\ UNCHANGED names

\* One value of the batch: WaitForNames ...
TakeWait ==
    /\ values # <<>> /\ Head(values) \in WaitForNames
    /\ Prime(Head(values).wait)
    /\ signalled' = {}
    /\ values' = Tail(values) /\ UNCHANGED <<version, merges, opened>>

\* ... or a node's completion.
TakeName ==
    /\ values # <<>> /\ Head(values) \in Completion
    /\ Signal(Head(values).name)
    /\ signalled' = signalled \cup {Head(values).name}
    /\ values' = Tail(values) /\ UNCHANGED <<version, merges, opened>>

\* update() returned true.
Bump ==
    /\ values = <<>> /\ changed
    /\ version' = version + 1 /\ changed' = FALSE
    /\ opened' = Open
    /\ UNCHANGED <<names, seen, values, merges, signalled>>

\* The next call on the thread: checkpoint() gave nothing to the snapshot, so
\* from_checkpoint makes a barrier in its priming phase.  The versions are kept.
Restart ==
    /\ values = <<>> /\ ~changed
    /\ names' = {} /\ seen' = {} /\ signalled' = {} /\ opened' = FALSE
    /\ UNCHANGED <<values, changed, version, merges>>

Next == \/ \E batch \in BoundedSeq(Message, MaxBatch) : batch # <<>> /\ Merge(batch)
        \/ TakeWait \/ TakeName \/ Bump \/ Restart

Spec == Init /\ [][Next]_vars

-----------------------------------------------------------------------------
(* Properties.                                                             *)

\* The barrier is open exactly when it waits for someone and all of them have
\* signalled since the target set was given: signals sent before it do not
\* count, names nobody awaits do not fill it, and a repeated name counts once
\* (update's contains and insert, get's comparison of two sizes).
OpenWhenAllArrived ==
    Open <=> \E T \in names : T # {} /\ T \subseteq signalled

\* A merge after which get() answers differently than before it has reported a
\* change, so the version rises: nobody who compares versions misses a barrier
\* that opened, or one that a new target set closed.
OpeningIsVersioned == Open # opened => changed
=============================================================================
