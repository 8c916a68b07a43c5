------------------------- MODULE MemorySaverProofs -------------------------
(***************************************************************************)
(* What holds of MemorySaver for any number of callers and of checkpoints: *)
(* its types and its mutex, the forest of parents, and that it implements  *)
(* CheckpointStore.                                                        *)
(***************************************************************************)
EXTENDS MemorySaver, TLAPS

\* Next, one disjunct per action.
Acts(u) ==
    \/ LoadNothing(u) \/ FindEntry(u) \/ ReadWrites(u)
    \/ SaveSync(u) \/ SaveAsync(u) \/ SkipSave(u) \/ FinalSave(u) \/ Stamp(u) \/ Put(u)
    \/ PutWrites(u) \/ End(u) \/ DeleteFirst(u) \/ DeleteSecond(u)

LEMMA NextSplit == ASSUME Next PROVE \E u \in Caller : Acts(u)
BY DEF Next, Loads, Saves, Leaves, Deletes, Acts

-----------------------------------------------------------------------------
(* Types.                                                                  *)

\* The one checkpoint of a singleton.
LEMMA TheOnly == ASSUME NEW c PROVE (CHOOSE x \in {c} : TRUE) = c
OBVIOUS

\* The mutex of storage has one holder at most, who has found an entry that
\* answers its request.
Entries ==
    /\ \A u, v \in Caller : phase[u] = "entry" /\ phase[v] = "entry" => u = v
    /\ \A u \in Caller : phase[u] = "entry" =>
         \E c \in Candidates(entry[u].ask) : entry[u].found = {c}

\* The saves draw ids of their own.
Distinct ==
    /\ storage \subseteq ever
    /\ \A c \in ever : c.id <= uuids
    /\ \A s \in saving : s.of.id <= uuids
    /\ \A s \in saving, c \in ever : s.of.id # c.id
    /\ \A s, t \in saving : s.of.id = t.of.id => s = t

IInv == SaverTypeOK /\ Entries /\ Distinct

USE SaverAssumption

LEMMA InitIInv == ASSUME Init PROVE IInv
BY DEF Init, IInv, SaverTypeOK, Entries, Distinct, Answer, NoAnswer, Phases

\* What the call stands on after a load keeps its type.
LEMMA StartsTyped ==
    ASSUME SaverTypeOK, NEW u \in Caller, NEW found, Starts(u, found),
           found = {} \/ \E c \in Checkpoint : found = {c}
    PROVE  /\ phase' \in [Caller -> Phases]
           /\ base' \in [Caller -> 0 .. MaxCheckpoints] /\ step' \in [Caller -> Nat]
           /\ alone' \in [Caller -> BOOLEAN]
           /\ expect' \in [Caller -> 0 .. MaxCheckpoints]
<1>1. CASE found = {}
  BY <1>1 DEF Starts, SaverTypeOK, Phases
<1>2. ASSUME NEW c \in Checkpoint, found = {c}
      PROVE  /\ base' \in [Caller -> 0 .. MaxCheckpoints] /\ step' \in [Caller -> Nat]
  <2>1. (CHOOSE x \in found : TRUE) = c
    BY <1>2, TheOnly
  <2>2. base' = [base EXCEPT ![u] = c.id] /\ step' = [step EXCEPT ![u] = c.step + 1]
    BY <1>2, <2>1 DEF Starts
  <2> QED BY <2>2 DEF SaverTypeOK, Checkpoint, Id
<1> QED BY <1>1, <1>2 DEF Starts, SaverTypeOK, Phases

\* A save that is drawn has the type of one.
LEMMA DrawTyped ==
    ASSUME SaverTypeOK, NEW u \in Caller, NEW parent \in 0 .. MaxCheckpoints,
           NEW ts \in 0 .. MaxClock, Draw(u, parent, ts)
    PROVE  /\ saving' \subseteq Save /\ uuids' \in 0 .. MaxCheckpoints
           /\ base' \in [Caller -> 0 .. MaxCheckpoints] /\ step' \in [Caller -> Nat]
           /\ answer' \in [Caller -> Answer]
<1>1. uuids + 1 \in Id
  BY DEF Draw, SaverTypeOK, Id
<1>2. step[u] \in Nat
  BY DEF SaverTypeOK
<1>3. [of |-> [id |-> uuids + 1, parent |-> parent, step |-> step[u], ts |-> ts],
       by |-> u, awaited |-> ts # 0] \in Save
  BY <1>1, <1>2 DEF Save, Checkpoint
<1>4. NoAnswer \in Answer
  BY DEF NoAnswer, Answer
<1> QED BY <1>1, <1>2, <1>3, <1>4 DEF Draw, Used, SaverTypeOK, Id

LEMMA NextTyped ==
    ASSUME SaverTypeOK, Entries, NEW u \in Caller,
           Acts(u)
    PROVE  SaverTypeOK'
<1>0. NoAnswer \in Answer
  BY DEF NoAnswer, Answer
<1>1. CASE LoadNothing(u)
  <2>1. Starts(u, {}) BY <1>1 DEF LoadNothing
  <2>2. answer' \in [Caller -> Answer]
    BY <1>1 DEF LoadNothing, SaverTypeOK, Answer
  <2>3. locked' = {v \in Caller : phase'[v] = "entry"}
    BY <1>1 DEF LoadNothing, Starts, SaverTypeOK, maps
  <2> QED BY <1>1, <2>1, <2>2, <2>3, StartsTyped DEF LoadNothing, SaverTypeOK, maps, drawn
<1>2. CASE FindEntry(u)
  <2>1. entry' \in [Caller -> Answer]
    BY <1>2 DEF FindEntry, Candidates, Newest, SaverTypeOK, Answer
  <2>2. locked' = {v \in Caller : phase'[v] = "entry"}
    BY <1>2 DEF FindEntry, Free, SaverTypeOK
  <2> QED BY <1>2, <2>1, <2>2 DEF FindEntry, Joins, SaverTypeOK, Phases, drawn
<1>3. CASE ReadWrites(u)
  <2>1. Starts(u, entry[u].found) BY <1>3 DEF ReadWrites
  <2>2. \E c \in Checkpoint : entry[u].found = {c}
    BY <1>3 DEF ReadWrites, Entries, Candidates, Newest, SaverTypeOK
  <2>3. \A S \in SUBSET writes : [entry[u] EXCEPT !.notes = S] \in Answer
    BY DEF SaverTypeOK, Answer
  <2>4. answer' \in [Caller -> Answer] /\ entry' \in [Caller -> Answer]
    BY <1>0, <1>3, <2>3 DEF ReadWrites, SaverTypeOK
  <2>5. locked' = {v \in Caller : phase'[v] = "entry"}
    BY <1>3 DEF ReadWrites, Starts, Entries, SaverTypeOK
  <2> QED BY <1>3, <2>1, <2>2, <2>4, <2>5, StartsTyped DEF ReadWrites, SaverTypeOK, drawn
<1>4. CASE SaveSync(u) \/ FinalSave(u)
  <2>1. PICK now \in Now : clock' = now /\ Draw(u, base[u], now) BY <1>4 DEF SaveSync, FinalSave
  <2>2. now \in 1 .. MaxClock /\ base[u] \in 0 .. MaxCheckpoints BY DEF Now, SaverTypeOK
  <2>3. locked' = {v \in Caller : phase'[v] = "entry"} /\ phase' \in [Caller -> Phases]
    BY <1>4 DEF SaveSync, FinalSave, SaverTypeOK, Phases, maps
  <2>4. UNCHANGED <<maps, entry, skipped, history>>
    BY <1>4 DEF SaveSync, FinalSave
  <2> QED BY <2>1, <2>2, <2>3, <2>4, DrawTyped DEF SaverTypeOK, maps, history
<1>5. CASE SaveAsync(u)
  <2>1. Draw(u, uuids + 1, 0) BY <1>5 DEF SaveAsync
  <2>2. uuids + 1 \in 0 .. MaxCheckpoints /\ 0 \in 0 .. MaxClock
    BY <2>1 DEF Draw, SaverTypeOK
  <2>3. locked' = {v \in Caller : phase'[v] = "entry"}
    BY <1>5 DEF SaveAsync, SaverTypeOK, maps
  <2> QED BY <1>5, <2>1, <2>2, <2>3, DrawTyped DEF SaveAsync, SaverTypeOK, Phases, maps
<1>6. CASE Stamp(u)
  <2>1. PICK s \in saving, now \in Now :
          clock' = now /\ saving' = (saving \ {s}) \cup {[s EXCEPT !.of.ts = now]}
    BY <1>6 DEF Stamp, Unstamped
  <2>2. now \in 1 .. MaxClock BY DEF Now, SaverTypeOK
  <2>3. [s EXCEPT !.of.ts = now] \in Save
    BY <2>2 DEF SaverTypeOK, Save, Checkpoint
  <2> QED BY <1>6, <2>1, <2>2, <2>3 DEF Stamp, SaverTypeOK, maps, calls, history
<1>7. CASE Put(u)
  <2>1. PICK s \in saving :
          /\ storage' = {c \in storage : c.id # s.of.id} \cup {s.of}
          /\ saving' = saving \ {s} /\ ever' = ever \cup {s.of}
          /\ phase' = [phase EXCEPT ![u] = IF s.awaited THEN Resumed(@) ELSE @]
    BY <1>7 DEF Put, Stamped
  <2>2. s.of \in Checkpoint BY DEF SaverTypeOK, Save
  <2>3. phase' \in [Caller -> Phases] BY <2>1 DEF SaverTypeOK, Phases, Resumed
  <2>4. locked' = {v \in Caller : phase'[v] = "entry"}
    BY <1>7, <2>1 DEF Put, Free, Resumed, SaverTypeOK
  <2> QED BY <1>7, <2>1, <2>2, <2>3, <2>4 DEF Put, SaverTypeOK
<1>8. CASE PutWrites(u)
  <2>1. [ckpt |-> base[u]] \in Write BY <1>8 DEF PutWrites, SaverTypeOK, Write, Id
  <2>2. phase' \in [Caller -> Phases] /\ expect' \in [Caller -> 0 .. MaxCheckpoints]
    BY <1>8 DEF PutWrites, SaverTypeOK, Phases
  <2>3. locked' = {v \in Caller : phase'[v] = "entry"}
    BY <1>8 DEF PutWrites, InCall, SaverTypeOK
  <2> QED BY <1>0, <1>8, <2>1, <2>2, <2>3 DEF PutWrites, Used, SaverTypeOK, drawn
<1>9. CASE End(u)
  <2>1. locked' = {v \in Caller : phase'[v] = "entry"}
    BY <1>9 DEF End, InCall, SaverTypeOK, maps
  <2> QED BY <1>0, <1>9, <2>1 DEF End, Used, SaverTypeOK, Phases, maps, drawn
<1>10. CASE DeleteFirst(u)
  <2>1. locked' = {v \in Caller : phase'[v] = "entry"}
    BY <1>10 DEF DeleteFirst, Free, SaverTypeOK
  <2> QED BY <1>10, <2>1 DEF DeleteFirst, SaverTypeOK, Phases, drawn
<1>11. CASE DeleteSecond(u)
  <2>1. locked' = {v \in Caller : phase'[v] = "entry"}
    BY <1>11 DEF DeleteSecond, SaverTypeOK
  <2> QED BY <1>11, <2>1 DEF DeleteSecond, SaverTypeOK, Phases, drawn, history
<1>12. CASE SkipSave(u)
  <2>1. [id |-> uuids + 1, parent |-> base[u], step |-> step[u], ts |-> 0] \in Checkpoint
    BY <1>12 DEF SkipSave, SaverTypeOK, Checkpoint, Id
  <2>2. /\ skipped' \subseteq Checkpoint /\ uuids' \in 0 .. MaxCheckpoints
        /\ base' \in [Caller -> 0 .. MaxCheckpoints] /\ step' \in [Caller -> Nat]
    BY <1>12, <2>1 DEF SkipSave, SaverTypeOK
  <2>3. locked' = {v \in Caller : phase'[v] = "entry"} /\ phase' \in [Caller -> Phases]
    BY <1>12 DEF SkipSave, SaverTypeOK, Phases, maps
  <2> QED BY <1>0, <1>12, <2>2, <2>3 DEF SkipSave, Used, SaverTypeOK, maps
<1> QED
  BY <1>1, <1>2, <1>3, <1>4, <1>5, <1>6, <1>7, <1>8, <1>9, <1>10, <1>11, <1>12 DEF Acts

-----------------------------------------------------------------------------
(* The mutex and the ids.                                                  *)

\* Whoever holds the mutex keeps its entry right: the others cannot reach
\* storage.
LEMMA NextEntries ==
    ASSUME SaverTypeOK, Entries, NEW u \in Caller,
           Acts(u)
    PROVE  Entries'
<1> USE DEF SaverTypeOK, Entries
<1>1. CASE LoadNothing(u)
  BY <1>1 DEF LoadNothing, Free, Starts, maps
<1>2. CASE FindEntry(u)
  <2>0. PICK a \in Asked : \E c \in Candidates(a) :
          entry' = [entry EXCEPT ![u] = [ask |-> a, found |-> {c}, notes |-> {}]]
    BY <1>2 DEF FindEntry
  <2>1. PICK c \in Candidates(a) :
          entry' = [entry EXCEPT ![u] = [ask |-> a, found |-> {c}, notes |-> {}]]
    BY <2>0
  <2>2. entry'[u].ask = a /\ entry'[u].found = {c}
    BY <2>1
  <2>3. \A b : Candidates(b)' = Candidates(b)
    BY <1>2 DEF FindEntry, Candidates, Newest
  <2>4. \A v \in Caller : phase'[v] = "entry" => v = u
    BY <1>2 DEF FindEntry, Free
  <2> QED BY <2>1, <2>2, <2>3, <2>4
<1>3. CASE ReadWrites(u)
  BY <1>3 DEF ReadWrites, Starts
<1>4. ASSUME UNCHANGED <<storage, entry>>,
             \A v \in Caller : phase'[v] = "entry" => phase[v] = "entry"
      PROVE  Entries'
  BY <1>4 DEF Candidates, Newest
<1>5. CASE SaveSync(u) \/ SaveAsync(u) \/ SkipSave(u) \/ FinalSave(u) \/ Stamp(u)
  BY <1>4, <1>5 DEF SaveSync, SaveAsync, SkipSave, FinalSave, Stamp, maps, calls
<1>6. CASE PutWrites(u) \/ End(u) \/ DeleteSecond(u)
  BY <1>4, <1>6 DEF PutWrites, End, DeleteSecond, maps
<1>7. CASE Put(u) \/ DeleteFirst(u)
  BY <1>7 DEF Put, DeleteFirst, Free, Resumed
<1> QED BY <1>1, <1>2, <1>3, <1>5, <1>6, <1>7 DEF Acts

LEMMA NextDistinct ==
    ASSUME SaverTypeOK, Distinct, NEW u \in Caller,
           Acts(u)
    PROVE  Distinct'
<1>1. ASSUME UNCHANGED <<ever, saving, uuids>>, storage' \subseteq storage
      PROVE  Distinct'
  BY <1>1 DEF Distinct
<1>2. CASE LoadNothing(u) \/ FindEntry(u) \/ ReadWrites(u) \/ PutWrites(u) \/ End(u)
           \/ DeleteFirst(u) \/ DeleteSecond(u)
  BY <1>1, <1>2 DEF LoadNothing, FindEntry, ReadWrites, PutWrites, End, DeleteFirst,
                    DeleteSecond, maps, drawn, history
<1>3. ASSUME NEW parent, NEW ts, Draw(u, parent, ts), UNCHANGED <<storage, ever>>
      PROVE  Distinct'
  <2> DEFINE s == [of |-> [id |-> uuids + 1, parent |-> parent, step |-> step[u], ts |-> ts],
                   by |-> u, awaited |-> ts # 0]
  <2>1. saving' = saving \cup {s} /\ s.of.id = uuids + 1
    BY <1>3 DEF Draw
  <2> HIDE DEF s
  <2>2. uuids' = uuids + 1 /\ uuids \in Nat
    BY <1>3 DEF Draw, SaverTypeOK
  <2>3. \A c \in ever : c.id \in Nat
    BY DEF SaverTypeOK, Checkpoint, Id
  <2>4. \A t \in saving : t.of.id \in Nat
    BY DEF SaverTypeOK, Save, Checkpoint, Id
  <2> QED BY <1>3, <2>1, <2>2, <2>3, <2>4 DEF Distinct
<1>4. CASE SaveSync(u) \/ SaveAsync(u) \/ FinalSave(u)
  BY <1>3, <1>4 DEF SaveSync, SaveAsync, FinalSave, maps, history
<1>7. CASE SkipSave(u)
  BY <1>7 DEF SkipSave, Distinct, SaverTypeOK, Checkpoint, Save, Id, maps
<1>5. CASE Stamp(u)
  <2>1. PICK s \in saving, now \in Now : saving' = (saving \ {s}) \cup {[s EXCEPT !.of.ts = now]}
    BY <1>5 DEF Stamp, Unstamped
  <2> DEFINE r == [s EXCEPT !.of.ts = now]
  <2>2. saving' = (saving \ {s}) \cup {r} /\ r.of.id = s.of.id
    BY <2>1 DEF SaverTypeOK, Save, Checkpoint
  <2> HIDE DEF r
  <2>3. UNCHANGED <<storage, ever, uuids>>
    BY <1>5 DEF Stamp, maps, history
  <2> QED BY <2>2, <2>3 DEF Distinct
<1>6. CASE Put(u)
  <2>1. PICK s \in saving :
          /\ storage' = {c \in storage : c.id # s.of.id} \cup {s.of}
          /\ saving' = saving \ {s} /\ ever' = ever \cup {s.of}
    BY <1>6 DEF Put, Stamped
  <2> QED BY <1>6, <2>1 DEF Put, Distinct
<1> QED BY <1>2, <1>4, <1>5, <1>6, <1>7 DEF Acts

\* The inductive invariant.
LEMMA Inductive == Spec => []IInv
<1>1. Init => IInv
  BY InitIInv
<1>2. IInv /\ [Next]_vars => IInv'
  <2> SUFFICES ASSUME IInv, [Next]_vars PROVE IInv'
    OBVIOUS
  <2>1. CASE Next
    BY <2>1, NextSplit, NextTyped, NextEntries, NextDistinct DEF IInv
  <2>2. CASE UNCHANGED vars
    BY <2>2 DEF IInv, SaverTypeOK, Entries, Distinct, Candidates, Newest, vars, maps, calls,
                drawn, history
  <2> QED BY <2>1, <2>2
<1> QED BY <1>1, <1>2, PTL DEF Spec

\* However calls and deletions overlap, the mutex of storage is held by the one
\* caller that has found its entry (memory.rs:44), and ids, saves and answers
\* keep their types.
THEOREM SaverTyped == Spec => []SaverTypeOK
BY Inductive, PTL DEF IInv

-----------------------------------------------------------------------------
(* The contract.                                                           *)

\* The candidates of the contract are those of the code.
LEMMA RightAnswer ==
    ASSUME NEW r
    PROVE  Contract!Right(r) <=>
             IF Candidates(r.ask) = {}
             THEN r.found = {} /\ r.notes = {}
             ELSE \E c \in Candidates(r.ask) :
                    r.found = {c} /\ r.notes = {w \in writes : w.ckpt = c.id}
<1>1. Candidates(r.ask) = {c \in storage : IF r.ask = 0 THEN \A d \in storage : d.ts <= c.ts
                                                        ELSE c.id = r.ask}
  BY DEF Candidates, Newest
<1> QED BY <1>1 DEF Contract!Right

LEMMA NextContract ==
    ASSUME IInv, NEW u \in Caller,
           Acts(u)
    PROVE  [Contract!Next]_Contract!vars
<1> USE DEF IInv
<1>0. DOMAIN answer = Caller
  BY DEF SaverTypeOK
<1>1. ASSUME NEW r, answer' = [answer EXCEPT ![u] = r], Contract!Right(r), UNCHANGED <<storage, writes>>
      PROVE  Contract!Get
  <2>1. answer'[u] = r
    BY <1>0, <1>1
  <2> QED BY <1>0, <1>1, <2>1 DEF Contract!Get
<1>2. ASSUME Used(u) PROVE Contract!Drop
  BY <1>0, <1>2 DEF Used, NoAnswer, Contract!Drop
<1>3. CASE LoadNothing(u)
  <2>1. PICK a \in Asked :
          /\ Candidates(a) = {}
          /\ answer' = [answer EXCEPT ![u] = [ask |-> a, found |-> {}, notes |-> {}]]
    BY <1>3 DEF LoadNothing
  <2>2. Contract!Right([ask |-> a, found |-> {}, notes |-> {}])
    BY <2>1, RightAnswer
  <2> QED BY <1>1, <1>3, <2>1, <2>2 DEF LoadNothing, maps, Contract!Next
<1>4. CASE FindEntry(u)
  BY <1>4 DEF FindEntry, Contract!vars
<1>5. CASE ReadWrites(u)
  <2>1. PICK c \in Candidates(entry[u].ask) : entry[u].found = {c}
    BY <1>5 DEF ReadWrites, Entries
  <2>2. (CHOOSE x \in entry[u].found : TRUE) = c
    BY <2>1, TheOnly
  <2> DEFINE r == [entry[u] EXCEPT !.notes = {w \in writes : w.ckpt = c.id}]
  <2>3. answer' = [answer EXCEPT ![u] = r]
    BY <1>5, <2>2 DEF ReadWrites
  <2>4. entry[u] \in Answer
    BY DEF SaverTypeOK
  <2>5. r.ask = entry[u].ask /\ r.found = {c} /\ r.notes = {w \in writes : w.ckpt = c.id}
    BY <2>1, <2>4 DEF Answer
  <2>6. Contract!Right(r)
    BY <2>1, <2>5, RightAnswer
  <2> QED BY <1>1, <1>5, <2>3, <2>6 DEF ReadWrites, Contract!Next
<1>6. CASE SaveSync(u) \/ SaveAsync(u) \/ SkipSave(u) \/ FinalSave(u)
  BY <1>2, <1>6 DEF SaveSync, SaveAsync, SkipSave, FinalSave, Draw, maps, Contract!Next
<1>7. CASE Stamp(u)
  BY <1>7 DEF Stamp, maps, calls, Contract!vars
<1>8. CASE Put(u)
  <2>1. PICK s \in saving : storage' = {c \in storage : c.id # s.of.id} \cup {s.of}
    BY <1>8 DEF Put, Stamped
  <2>2. storage' = storage \cup {s.of} /\ s.of \notin storage
    BY <2>1 DEF Distinct
  <2> QED BY <1>8, <2>2 DEF Put, Contract!Put, Contract!Next
<1>9. CASE PutWrites(u)
  BY <1>2, <1>9 DEF PutWrites, Contract!Note, Contract!Next
<1>10. CASE End(u)
  BY <1>2, <1>10 DEF End, maps, Contract!Next
<1>11. CASE DeleteFirst(u) \/ DeleteSecond(u)
  BY <1>11 DEF DeleteFirst, DeleteSecond, Contract!Forget, Contract!ForgetNotes, Contract!Next
<1> QED BY <1>3, <1>4, <1>5, <1>6, <1>7, <1>8, <1>9, <1>10, <1>11 DEF Acts

\* MemorySaver implements CheckpointStore: for any number of callers, each
\* get_tuple, put and put_writes takes effect at one instant (memory.rs:44).
THEOREM StoreContract == Spec => KeepsPromise
<1>1. Init => Contract!Init
  BY DEF Init, NoAnswer, Contract!Init
<1>2. IInv /\ [Next]_vars => [Contract!Next]_Contract!vars
  <2> SUFFICES ASSUME IInv, [Next]_vars PROVE [Contract!Next]_Contract!vars
    OBVIOUS
  <2>1. CASE Next
    BY <2>1, NextSplit, NextContract
  <2>2. CASE UNCHANGED vars
    BY <2>2 DEF vars, maps, calls, Contract!vars
  <2> QED BY <2>1, <2>2
<1> QED BY <1>1, <1>2, Inductive, PTL DEF Spec, KeepsPromise, Contract!Spec

-----------------------------------------------------------------------------
(* The forest.                                                             *)

\* c stands on a checkpoint that was stored or put off before, or on none, or
\* is its own.
Rooted(c) ==
    \/ c.parent \in {0, c.id}
    \/ \E p \in ever \cup skipped : p.id = c.parent /\ c.step = p.step + 1

\* The call stands one step after p.
Stands(u, p) == p.id = base[u] /\ step[u] = p.step + 1

\* A call that may save stands on a stored checkpoint, or on the last one it
\* put off; while it awaits a save it stands on what that save is about to
\* store.
Footing ==
    /\ \A c \in ever \cup skipped : Rooted(c)
    /\ \A s \in saving : Rooted(s.of)
    /\ \A u \in Caller : phase[u] = "running" =>
         base[u] = 0 \/ \E p \in ever : Stands(u, p)
    /\ \A u \in Caller : phase[u] = "deferring" => \E p \in skipped : Stands(u, p)
    /\ \A s \in saving : s.awaited =>
         /\ phase[s.by] \in {"saving", "closing"}
         /\ s.of.id = base[s.by] /\ step[s.by] = s.of.step + 1

\* The caller waits for a save of its own.
Waiting(u) == phase[u] \in {"saving", "closing"}

LEMMA NextFooting ==
    ASSUME IInv, Footing, NEW u \in Caller, Acts(u)
    PROVE  Footing'
<1> USE DEF IInv
<1>0. \A s \in saving : s.by \in Caller
  BY DEF SaverTypeOK, Save
<1>1. ASSUME UNCHANGED <<ever, skipped, saving>>, ~Waiting(u),
             phase'[u] \notin {"running", "deferring"},
             \A v \in Caller \ {u} : phase'[v] = phase[v] /\ base'[v] = base[v] /\ step'[v] = step[v]
      PROVE  Footing'
  BY <1>0, <1>1 DEF Footing, Rooted, Stands, Waiting
<1>2. CASE FindEntry(u) \/ PutWrites(u) \/ End(u) \/ DeleteFirst(u) \/ DeleteSecond(u)
  BY <1>1, <1>2 DEF FindEntry, PutWrites, End, InCall, DeleteFirst, DeleteSecond, SaverTypeOK,
                    Phases, Waiting, maps, drawn, history
<1>3. ASSUME NEW found, Starts(u, found), UNCHANGED <<ever, skipped, saving>>, ~Waiting(u),
             found = {} \/ \E c \in ever : found = {c}
      PROVE  Footing'
  <2>1. base'[u] = 0 \/ \E p \in ever : p.id = base'[u] /\ step'[u] = p.step + 1
    BY <1>3, TheOnly DEF Starts, SaverTypeOK
  <2>2. \A v \in Caller \ {u} : phase'[v] = phase[v] /\ base'[v] = base[v] /\ step'[v] = step[v]
    BY <1>3 DEF Starts, SaverTypeOK
  <2>3. phase'[u] = "running"
    BY <1>3 DEF Starts, SaverTypeOK
  <2> QED BY <1>0, <1>3, <2>1, <2>2, <2>3 DEF Footing, Rooted, Stands, Waiting
<1>4. CASE LoadNothing(u)
  BY <1>3, <1>4 DEF LoadNothing, Waiting, drawn
<1>5. CASE ReadWrites(u)
  <2>1. \E c \in ever : entry[u].found = {c}
    BY <1>5 DEF ReadWrites, Entries, Distinct, Candidates, Newest
  <2> QED BY <1>3, <1>5, <2>1 DEF ReadWrites, Waiting, drawn
<1>6. ASSUME NEW parent, NEW ts, NEW place, Draw(u, parent, ts), UNCHANGED <<ever, skipped>>,
             ~Waiting(u), phase' = [phase EXCEPT ![u] = place],
             place \in IF ts = 0 THEN {"background"} ELSE {"saving", "closing"},
             \/ parent \in {0, uuids + 1}
             \/ \E p \in ever \cup skipped : p.id = parent /\ step[u] = p.step + 1
      PROVE  Footing'
  <2>0. PICK s : s = [of |-> [id |-> uuids + 1, parent |-> parent, step |-> step[u], ts |-> ts],
                      by |-> u, awaited |-> ts # 0]
    OBVIOUS
  <2>1. /\ saving' = saving \cup {s}
        /\ s.of.id = uuids + 1 /\ s.of.parent = parent /\ s.of.step = step[u]
        /\ s.by = u /\ s.awaited = (ts # 0)
    BY <1>6, <2>0 DEF Draw
  <2>2. Rooted(s.of)
    BY <1>6, <2>1 DEF Rooted
  <2>3. base'[u] = uuids + 1 /\ step'[u] = step[u] + 1
    BY <1>6 DEF Draw, SaverTypeOK
  <2>4. \A v \in Caller \ {u} : phase'[v] = phase[v] /\ base'[v] = base[v] /\ step'[v] = step[v]
    BY <1>6 DEF Draw, SaverTypeOK
  <2>5. \A t \in saving : t.awaited => t.by # u
    BY <1>6 DEF Footing, Waiting
  <2>6. phase'[u] = place /\ place \notin {"running", "deferring"}
        /\ (ts # 0 => place \in {"saving", "closing"})
    BY <1>6 DEF SaverTypeOK
  <2>7. \A c : Rooted(c) => Rooted(c)'
    BY <1>6 DEF Rooted
  <2>8. (\A c \in ever \cup skipped : Rooted(c))' /\ (\A t \in saving : Rooted(t.of))'
    BY <1>6, <2>1, <2>2, <2>7 DEF Footing
  <2>9. /\ (\A v \in Caller : phase[v] = "running" =>
               base[v] = 0 \/ \E p \in ever : Stands(v, p))'
        /\ (\A v \in Caller : phase[v] = "deferring" => \E p \in skipped : Stands(v, p))'
    BY <1>6, <2>4, <2>6 DEF Footing, Stands
  <2>10. ASSUME NEW t \in saving', t.awaited
         PROVE  /\ phase'[t.by] \in {"saving", "closing"}
                /\ t.of.id = base'[t.by] /\ step'[t.by] = t.of.step + 1
    <3>1. CASE t \in saving
      BY <1>0, <2>4, <2>5, <2>10, <3>1 DEF Footing
    <3>2. CASE t = s
      BY <2>1, <2>3, <2>6, <2>10, <3>2
    <3> QED BY <2>1, <3>1, <3>2
  <2> QED BY <2>8, <2>9, <2>10 DEF Footing
<1>7. CASE SaveSync(u)
  <2>1. PICK now \in Now : Draw(u, base[u], now)
    BY <1>7 DEF SaveSync
  <2>2. now # 0
    BY DEF Now, SaverTypeOK
  <2>3. base[u] = 0 \/ \E p \in ever : Stands(u, p)
    BY <1>7 DEF SaveSync, Footing
  <2>4. phase[u] = "running" /\ phase' = [phase EXCEPT ![u] = "saving"]
        /\ UNCHANGED <<ever, skipped>>
    BY <1>7 DEF SaveSync, history
  <2> QED BY <1>6, <2>1, <2>2, <2>3, <2>4 DEF Stands, Waiting
<1>8. CASE SaveAsync(u)
  BY <1>6, <1>8 DEF SaveAsync, Waiting
<1>9. CASE FinalSave(u)
  <2>1. PICK now \in Now : Draw(u, base[u], now)
    BY <1>9 DEF FinalSave
  <2>2. now # 0
    BY DEF Now, SaverTypeOK
  <2>3. \E p \in skipped : Stands(u, p)
    BY <1>9 DEF FinalSave, Footing
  <2>4. phase[u] = "deferring" /\ phase' = [phase EXCEPT ![u] = "closing"]
        /\ UNCHANGED <<ever, skipped>>
    BY <1>9 DEF FinalSave, history
  <2> QED BY <1>6, <2>1, <2>2, <2>3, <2>4 DEF Stands, Waiting
<1>10. CASE SkipSave(u)
  <2>0. PICK r : r = [id |-> uuids + 1, parent |-> base[u], step |-> step[u], ts |-> 0]
    OBVIOUS
  <2>1. /\ skipped' = skipped \cup {r} /\ UNCHANGED <<ever, saving>>
        /\ r.id = uuids + 1 /\ r.parent = base[u] /\ r.step = step[u]
    BY <1>10, <2>0 DEF SkipSave
  <2>2. base[u] = 0 \/ \E p \in ever \cup skipped : Stands(u, p)
    BY <1>10 DEF SkipSave, Footing
  <2>3. Rooted(r)
    BY <2>1, <2>2 DEF Rooted, Stands
  <2>4. \A c : Rooted(c) => Rooted(c)'
    BY <2>1 DEF Rooted
  <2>5. phase'[u] = "deferring" /\ base'[u] = r.id /\ step'[u] = r.step + 1
    BY <1>10, <2>1 DEF SkipSave, SaverTypeOK
  <2>6. \A v \in Caller \ {u} : phase'[v] = phase[v] /\ base'[v] = base[v] /\ step'[v] = step[v]
    BY <1>10 DEF SkipSave, SaverTypeOK
  <2>7. phase[u] \in {"running", "deferring"}
    BY <1>10 DEF SkipSave
  <2>8. \A t \in saving : t.awaited => t.by # u
    BY <2>7 DEF Footing
  <2>9. (\A c \in ever \cup skipped : Rooted(c))' /\ (\A t \in saving : Rooted(t.of))'
    BY <2>1, <2>3, <2>4 DEF Footing
  <2>10. /\ (\A v \in Caller : phase[v] = "running" =>
                base[v] = 0 \/ \E p \in ever : Stands(v, p))'
         /\ (\A v \in Caller : phase[v] = "deferring" => \E p \in skipped : Stands(v, p))'
    BY <2>1, <2>5, <2>6 DEF Footing, Stands
  <2> QED BY <1>0, <2>1, <2>6, <2>8, <2>9, <2>10 DEF Footing
<1>11. CASE Stamp(u)
  <2>1. PICK s \in saving, now \in Now : saving' = (saving \ {s}) \cup {[s EXCEPT !.of.ts = now]}
    BY <1>11 DEF Stamp, Unstamped
  <2> DEFINE r == [s EXCEPT !.of.ts = now]
  <2>2. /\ r.of.id = s.of.id /\ r.of.parent = s.of.parent /\ r.of.step = s.of.step
        /\ r.by = s.by /\ r.awaited = s.awaited
    BY DEF SaverTypeOK, Save, Checkpoint
  <2>3. saving' = (saving \ {s}) \cup {r}
    BY <2>1
  <2> HIDE DEF r
  <2>4. UNCHANGED <<ever, skipped, phase, base, step>>
    BY <1>11 DEF Stamp, calls, history
  <2> QED BY <2>2, <2>3, <2>4 DEF Footing, Rooted, Stands
<1>12. CASE Put(u)
  <2>1. PICK s \in saving :
          /\ s.by = u
          /\ saving' = saving \ {s} /\ ever' = ever \cup {s.of}
          /\ phase' = [phase EXCEPT ![u] = IF s.awaited THEN Resumed(@) ELSE @]
    BY <1>12 DEF Put, Stamped
  <2>2. UNCHANGED <<base, step, skipped>>
    BY <1>12 DEF Put
  <2>3. \A c : Rooted(c) => Rooted(c)'
    BY <2>1, <2>2 DEF Rooted
  <2>4. \A v \in Caller \ {u} : phase'[v] = phase[v]
    BY <2>1 DEF SaverTypeOK
  <2>5. s.awaited => /\ phase'[u] \in {"running", "leaving"}
                     /\ Stands(u, s.of)
    BY <2>1 DEF Footing, Stands, Resumed, SaverTypeOK
  <2>6. ~s.awaited => phase'[u] = phase[u]
    BY <2>1 DEF SaverTypeOK
  <2>7. \A t \in saving \ {s} : t.awaited /\ s.awaited => t.by # u
    BY <2>1 DEF Footing, Distinct
  <2>8. (\A c \in ever \cup skipped : Rooted(c))' /\ (\A t \in saving : Rooted(t.of))'
    BY <2>1, <2>2, <2>3 DEF Footing
  <2>9. /\ (\A v \in Caller : phase[v] = "running" =>
               base[v] = 0 \/ \E p \in ever : Stands(v, p))'
        /\ (\A v \in Caller : phase[v] = "deferring" => \E p \in skipped : Stands(v, p))'
    BY <2>1, <2>2, <2>4, <2>5, <2>6 DEF Footing, Stands
  <2> QED BY <1>0, <2>1, <2>2, <2>4, <2>6, <2>7, <2>8, <2>9 DEF Footing
<1> QED
  BY <1>2, <1>4, <1>5, <1>7, <1>8, <1>9, <1>10, <1>11, <1>12 DEF Acts

LEMMA FootingInductive == Spec => [](IInv /\ Footing)
<1>1. Init => Footing
  BY DEF Init, Footing
<1>2. IInv /\ Footing /\ [Next]_vars => Footing'
  <2> SUFFICES ASSUME IInv, Footing, [Next]_vars PROVE Footing'
    OBVIOUS
  <2>1. CASE Next
    BY <2>1, NextSplit, NextFooting
  <2>2. CASE UNCHANGED vars
    BY <2>2 DEF Footing, Rooted, Stands, vars, maps, calls, drawn, history
  <2> QED BY <2>1, <2>2
<1> QED BY <1>1, <1>2, Inductive, PTL DEF Spec

\* Whatever calls race on the thread, with whatever durability, and whatever
\* is deleted, every checkpoint put follows its parent by one step, and only
\* the ids that Exit puts off stand in the chain without a checkpoint
\* (engine.rs:375, 521).
THEOREM ForestSafety == Spec => []ForestDespiteRaces
<1>1. Footing => ForestDespiteRaces
  BY DEF Footing, Rooted, ForestDespiteRaces
<1> QED BY <1>1, FootingInductive, PTL

-----------------------------------------------------------------------------
(* The interrupt of a caller who is alone with the thread.                 *)

\* The clock is not set back.
ClockInv ==
    /\ \A c \in storage : c.ts <= clock
    /\ \A s \in saving : s.of.ts <= clock

\* Nobody else is in a call.
OthersIdle(u) == \A v \in Caller \ {u} : phase[v] = "idle"

\* A call that is alone stands on the newest checkpoint; the one save that may
\* be under way is its own, awaited, and newer than all that is stored.
Undisturbed(u) ==
    /\ phase[u] \in {"running", "saving", "leaving"}
    /\ OthersIdle(u)
    /\ phase[u] # "saving" => saving = {}
    /\ \A s \in saving : /\ s.by = u /\ s.awaited /\ s.of.ts # 0
                         /\ \A c \in storage : c.ts <= s.of.ts
    /\ phase[u] = "running" /\ base[u] # 0 => \E c \in Newest : c.id = base[u]

\* An interrupt left by such a call is the newest checkpoint's, and its entry
\* is there.
Findable(u) ==
    /\ phase[u] \in {"leaving", "idle", "entry"}
    /\ OthersIdle(u)
    /\ saving = {}
    /\ \E c \in Newest : c.id = expect[u]
    /\ [ckpt |-> expect[u]] \in writes

AloneInv == \A u \in Caller : /\ alone[u] => Undisturbed(u)
                              /\ expect[u] # 0 => Findable(u)

LEMMA NextClock ==
    ASSUME IInv, ClockInv, NEW u \in Caller,
           Acts(u)
    PROVE  ClockInv'
<1>0. /\ clock \in Nat /\ \A now \in Now : now \in Nat /\ clock <= now
      /\ \A c \in storage : c.ts \in Nat
      /\ \A s \in saving : s.of.ts \in Nat
  BY DEF IInv, SaverTypeOK, Checkpoint, Save, Now
<1>1. CASE LoadNothing(u) \/ FindEntry(u) \/ ReadWrites(u) \/ PutWrites(u) \/ End(u)
           \/ DeleteFirst(u) \/ DeleteSecond(u)
  BY <1>1 DEF ClockInv, LoadNothing, FindEntry, ReadWrites, PutWrites, End, DeleteFirst,
              DeleteSecond, maps, drawn
<1>2. ASSUME NEW ts \in Nat, NEW parent, Draw(u, parent, ts), clock' \in Nat,
             clock <= clock', ts <= clock', storage' = storage
      PROVE  ClockInv'
  <2> DEFINE s == [of |-> [id |-> uuids + 1, parent |-> parent, step |-> step[u], ts |-> ts],
                   by |-> u, awaited |-> ts # 0]
  <2>1. saving' = saving \cup {s} /\ s.of.ts = ts
    BY <1>2 DEF Draw
  <2> HIDE DEF s
  <2> QED BY <1>0, <1>2, <2>1 DEF ClockInv
<1>3. CASE SaveSync(u) \/ FinalSave(u)
  BY <1>0, <1>2, <1>3 DEF SaveSync, FinalSave, maps
<1>4. CASE SaveAsync(u)
  BY <1>0, <1>2, <1>4 DEF SaveAsync, maps
<1>7. CASE SkipSave(u)
  BY <1>7 DEF SkipSave, ClockInv, maps
<1>5. CASE Stamp(u)
  <2>1. PICK s \in saving, now \in Now :
            clock' = now /\ saving' = (saving \ {s}) \cup {[s EXCEPT !.of.ts = now]}
    BY <1>5 DEF Stamp, Unstamped
  <2> DEFINE r == [s EXCEPT !.of.ts = now]
  <2>2. r.of.ts = now
    BY DEF IInv, SaverTypeOK, Save, Checkpoint
  <2> HIDE DEF r
  <2>3. saving' = (saving \ {s}) \cup {r} /\ storage' = storage
    BY <1>5, <2>1 DEF r, Stamp, maps
  <2> QED BY <1>0, <2>1, <2>2, <2>3 DEF ClockInv
<1>6. CASE Put(u)
  BY <1>0, <1>6 DEF ClockInv, Put, Stamped
<1> QED BY <1>1, <1>3, <1>4, <1>5, <1>6, <1>7 DEF Acts

\* A caller who acts disturbs all the others.
LEMMA Disturbs ==
    ASSUME IInv, AloneInv, NEW u \in Caller,
           Acts(u)
    PROVE  \A v \in Caller \ {u} : ~alone'[v] /\ expect'[v] = 0
<1> SUFFICES ASSUME NEW v \in Caller \ {u} PROVE ~alone'[v] /\ expect'[v] = 0
  OBVIOUS
<1>0. alone \in [Caller -> BOOLEAN] /\ expect \in [Caller -> 0 .. MaxCheckpoints]
  BY DEF IInv, SaverTypeOK
<1>1. CASE LoadNothing(u) \/ FindEntry(u) \/ ReadWrites(u) \/ DeleteFirst(u)
  BY <1>1 DEF LoadNothing, FindEntry, ReadWrites, DeleteFirst, Starts, Joins
<1>2. ASSUME phase[u] # "idle" \/ \E s \in saving : s.by = u
      PROVE  ~alone[v] /\ expect[v] = 0
  BY <1>2 DEF AloneInv, Undisturbed, Findable, OthersIdle
<1>3. CASE \/ SaveSync(u) \/ SaveAsync(u) \/ SkipSave(u) \/ FinalSave(u)
           \/ PutWrites(u) \/ End(u) \/ DeleteSecond(u)
  <2>1. phase[u] # "idle"
    BY <1>3 DEF SaveSync, SaveAsync, SkipSave, FinalSave, PutWrites, End, DeleteSecond, InCall
  <2>2. alone'[v] = alone[v] /\ expect'[v] = expect[v]
    BY <1>0, <1>3 DEF SaveSync, SaveAsync, SkipSave, FinalSave, PutWrites, End, DeleteSecond,
                      history
  <2> QED BY <1>2, <2>1, <2>2
<1>4. CASE Stamp(u) \/ Put(u)
  <2>1. \E s \in saving : s.by = u
    BY <1>4 DEF Stamp, Unstamped, Put, Stamped
  <2>2. UNCHANGED <<alone, expect>>
    BY <1>4 DEF Stamp, Put, history
  <2> QED BY <1>2, <2>1, <2>2
<1> QED BY <1>1, <1>3, <1>4 DEF Acts

LEMMA NextAlone ==
    ASSUME IInv, Footing, ClockInv, AloneInv, NEW u \in Caller,
           Acts(u)
    PROVE  AloneInv'
<1>0. /\ phase \in [Caller -> Phases] /\ base \in [Caller -> 0 .. MaxCheckpoints]
      /\ alone \in [Caller -> BOOLEAN] /\ expect \in [Caller -> 0 .. MaxCheckpoints]
      /\ clock \in Nat /\ \A c \in storage : c.ts \in Nat
      /\ \A s \in saving : s.of.ts \in Nat
  BY DEF IInv, SaverTypeOK, Checkpoint, Save
<1>1. SUFFICES (alone'[u] => Undisturbed(u)') /\ (expect'[u] # 0 => Findable(u)')
  BY Disturbs DEF AloneInv
<1>2. (alone[u] => Undisturbed(u)) /\ (expect[u] # 0 => Findable(u))
  BY DEF AloneInv
<1>3. CASE LoadNothing(u)
  <2>1. expect'[u] = 0 /\ phase'[u] = "running" /\ base'[u] = 0 /\ saving' = saving
    BY <1>0, <1>3 DEF LoadNothing, Starts, drawn
  <2>2. alone'[u] => saving = {} /\ OthersIdle(u)'
    BY <1>0, <1>3 DEF LoadNothing, Starts, OthersIdle
  <2> QED BY <2>1, <2>2 DEF Undisturbed
<1>4. CASE FindEntry(u)
  <2>1. /\ alone'[u] = alone[u] /\ expect'[u] = expect[u] /\ phase[u] = "idle"
        /\ phase'[u] = "entry" /\ UNCHANGED <<storage, writes, saving>>
        /\ \A v \in Caller \ {u} : phase'[v] = phase[v]
    BY <1>0, <1>4 DEF FindEntry, Joins, drawn
  <2> QED BY <1>2, <2>1 DEF Undisturbed, Findable, OthersIdle, Newest
<1>5. CASE ReadWrites(u)
  <2>1. PICK c \in Candidates(entry[u].ask) : entry[u].found = {c}
    BY <1>5 DEF ReadWrites, IInv, Entries
  <2>2. /\ expect'[u] = 0 /\ phase'[u] = "running" /\ base'[u] = c.id
        /\ UNCHANGED <<storage, saving>>
    BY <1>0, <1>5, <2>1, TheOnly DEF ReadWrites, Starts, drawn
  <2>3. answer'[u].ask = entry[u].ask
    BY <1>5 DEF ReadWrites, IInv, SaverTypeOK, Answer
  <2>4. alone'[u] => entry[u].ask = 0 /\ saving = {} /\ OthersIdle(u)'
    BY <1>0, <1>5, <2>3 DEF ReadWrites, Starts, OthersIdle
  <2>5. alone'[u] => \E d \in Newest' : d.id = base'[u]
    BY <2>1, <2>2, <2>4 DEF Candidates, Newest
  <2> QED BY <2>2, <2>4, <2>5 DEF Undisturbed
<1>6. CASE SaveSync(u)
  <2>1. PICK now \in Now : clock' = now /\ Draw(u, base[u], now)
    BY <1>6 DEF SaveSync
  <2> DEFINE s == [of |-> [id |-> uuids + 1, parent |-> base[u], step |-> step[u], ts |-> now],
                   by |-> u, awaited |-> now # 0]
  <2>2. saving' = saving \cup {s} /\ s.by = u /\ s.of.ts = now /\ s.awaited = (now # 0)
    BY <2>1 DEF Draw
  <2> HIDE DEF s
  <2>3. now \in Nat /\ now # 0 /\ clock <= now
    BY <1>0 DEF Now, IInv, SaverTypeOK
  <2>4. /\ phase[u] = "running" /\ phase'[u] = "saving" /\ storage' = storage
        /\ alone'[u] = alone[u] /\ expect'[u] = expect[u]
        /\ \A v \in Caller \ {u} : phase'[v] = phase[v]
    BY <1>0, <1>6 DEF SaveSync, maps, history
  <2>5. alone[u] => saving = {} /\ OthersIdle(u)
    BY <1>2, <2>4 DEF Undisturbed
  <2>6. \A c \in storage : c.ts <= now
    BY <1>0, <2>3 DEF ClockInv
  <2>7. expect[u] = 0
    BY <1>2, <2>4 DEF Findable
  <2> QED BY <2>2, <2>3, <2>4, <2>5, <2>6, <2>7 DEF Undisturbed, OthersIdle
<1>7. CASE SaveAsync(u) \/ SkipSave(u)
  <2>1. /\ ~alone'[u] /\ expect'[u] = expect[u]
        /\ phase[u] \in {"running", "background", "deferring"}
    BY <1>0, <1>7 DEF SaveAsync, SkipSave
  <2> QED BY <1>2, <2>1 DEF Findable
<1>14. CASE FinalSave(u)
  <2>1. phase[u] = "deferring" /\ UNCHANGED <<alone, expect>>
    BY <1>14 DEF FinalSave, history
  <2> QED BY <1>2, <2>1 DEF Undisturbed, Findable
<1>8. CASE Stamp(u)
  <2>1. \E s \in saving : s.of.ts = 0
    BY <1>8 DEF Stamp, Unstamped
  <2>2. UNCHANGED <<alone, expect>>
    BY <1>8 DEF Stamp, history
  <2> QED BY <1>2, <2>1, <2>2 DEF Undisturbed, Findable
<1>9. CASE Put(u)
  <2>1. PICK s \in saving :
          /\ s.by = u
          /\ storage' = {c \in storage : c.id # s.of.id} \cup {s.of}
          /\ saving' = saving \ {s}
          /\ phase' = [phase EXCEPT ![u] = IF s.awaited THEN Resumed(@) ELSE @]
    BY <1>9 DEF Put, Stamped
  <2>2. UNCHANGED <<alone, expect, base>>
    BY <1>9 DEF Put
  <2>3. expect[u] = 0
    BY <1>2, <2>1 DEF Findable
  <2>4. ASSUME alone[u] PROVE Undisturbed(u)'
    <3>1. Undisturbed(u) /\ s.awaited /\ s.of.id = base[u]
      BY <1>2, <2>1, <2>4 DEF Undisturbed, Footing
    <3>2. \A t \in saving : t = s
      BY <2>1, <3>1 DEF Undisturbed, Footing, IInv, Distinct
    <3>3. saving' = {} /\ phase'[u] = "running" /\ OthersIdle(u)'
      BY <1>0, <2>1, <3>1, <3>2 DEF Undisturbed, OthersIdle, Resumed
    <3>4. s.of \in Newest'
      BY <1>0, <2>1, <3>1 DEF Undisturbed, Newest
    <3> QED BY <2>2, <3>1, <3>3, <3>4 DEF Undisturbed
  <2> QED BY <2>2, <2>3, <2>4
<1>10. CASE PutWrites(u)
  <2>1. /\ phase[u] \in {"running", "background", "deferring"} /\ phase'[u] = "leaving"
        /\ base[u] # 0
        /\ alone'[u] = alone[u] /\ expect'[u] = (IF alone[u] THEN base[u] ELSE 0)
        /\ [ckpt |-> base[u]] \in writes' /\ UNCHANGED <<storage, saving>>
        /\ \A v \in Caller \ {u} : phase'[v] = phase[v]
    BY <1>0, <1>10 DEF PutWrites, InCall, drawn
  <2>2. alone[u] => /\ saving = {} /\ OthersIdle(u)
                    /\ \E c \in Newest : c.id = base[u]
    BY <1>2, <2>1 DEF Undisturbed
  <2> QED BY <2>1, <2>2 DEF Undisturbed, Findable, OthersIdle, Newest
<1>11. CASE End(u)
  <2>1. /\ ~alone'[u] /\ expect'[u] = expect[u] /\ phase'[u] = "idle"
        /\ UNCHANGED <<storage, writes, saving>>
        /\ \A v \in Caller \ {u} : phase'[v] = phase[v]
    BY <1>0, <1>11 DEF End, maps, drawn
  <2> QED BY <1>2, <2>1 DEF Findable, OthersIdle, Newest
<1>12. CASE DeleteFirst(u)
  BY <1>12 DEF DeleteFirst
<1>13. CASE DeleteSecond(u)
  <2>1. phase[u] = "deleting" /\ UNCHANGED <<alone, expect>>
    BY <1>13 DEF DeleteSecond, history
  <2> QED BY <1>2, <2>1 DEF Undisturbed, Findable
<1> QED
  BY <1>3, <1>4, <1>5, <1>6, <1>7, <1>8, <1>9, <1>10, <1>11, <1>12, <1>13, <1>14 DEF Acts

LEMMA AloneInductive == Spec => [](IInv /\ Footing /\ ClockInv /\ AloneInv)
<1>1. Init => ClockInv /\ AloneInv
  BY DEF Init, ClockInv, AloneInv
<1>2. IInv /\ Footing /\ ClockInv /\ AloneInv /\ [Next]_vars => ClockInv' /\ AloneInv'
  <2> SUFFICES ASSUME IInv, Footing, ClockInv, AloneInv, [Next]_vars
               PROVE  ClockInv' /\ AloneInv'
    OBVIOUS
  <2>1. CASE Next
    BY <2>1, NextSplit, NextClock, NextAlone
  <2>2. CASE UNCHANGED vars
    BY <2>2 DEF ClockInv, AloneInv, Undisturbed, Findable, OthersIdle, Newest, vars, maps,
                calls, drawn, history
  <2> QED BY <2>1, <2>2
<1> QED BY <1>1, <1>2, FootingInductive, PTL DEF Spec

\* The only steps that answer u are its own, and they answer from the maps.
LEMMA WhoAnswers ==
    ASSUME IInv, Footing, NEW u \in Caller, Answers(u), NEW v \in Caller,
           Acts(v)
    PROVE  LoadNothing(u) \/ ReadWrites(u)
<1>0. phase \in [Caller -> Phases]
  BY DEF IInv, SaverTypeOK
<1>1. phase'[u] # phase[u] /\ phase'[u] = "running" /\ phase[u] \in {"idle", "entry"}
  BY DEF Answers
<1>2. CASE LoadNothing(v) \/ ReadWrites(v)
  <2>1. phase' = [phase EXCEPT ![v] = "running"]
    BY <1>2 DEF LoadNothing, ReadWrites, Starts
  <2>2. u = v
    BY <1>0, <1>1, <2>1
  <2> QED BY <1>2, <2>2
<1>3. CASE Put(v)
  <2>1. PICK s \in saving :
          s.by = v /\ phase' = [phase EXCEPT ![v] = IF s.awaited THEN Resumed(@) ELSE @]
    BY <1>3 DEF Put, Stamped
  <2>2. s.awaited => phase[v] \in {"saving", "closing"}
    BY <2>1 DEF Footing
  <2> QED BY <1>0, <1>1, <2>1, <2>2
<1>4. CASE \/ FindEntry(v) \/ SaveSync(v) \/ SaveAsync(v) \/ SkipSave(v) \/ FinalSave(v)
           \/ Stamp(v) \/ PutWrites(v) \/ End(v) \/ DeleteFirst(v) \/ DeleteSecond(v)
  BY <1>0, <1>1, <1>4 DEF FindEntry, SaveSync, SaveAsync, SkipSave, FinalSave, Stamp, PutWrites,
                          End, DeleteFirst, DeleteSecond, calls
<1> QED BY <1>2, <1>3, <1>4 DEF Acts

\* An interrupt is found again by the caller who left it, waited for each of
\* its saves and has been alone on the thread, for any number of callers
\* (engine.rs:222, memory.rs:57).
THEOREM InterruptSafety == Spec => InterruptFound
<1>1. ASSUME IInv, Footing, AloneInv, [Next]_vars, NEW u \in Caller,
             Answers(u), answer'[u].ask = 0, expect[u] # 0, Untied(expect[u])
      PROVE  /\ \E c \in storage : answer'[u].found = {c} /\ c.id = expect[u]
             /\ answer'[u].notes # {}
  <2>1. Next
    BY <1>1 DEF Answers, vars, calls
  <2>2. LoadNothing(u) \/ ReadWrites(u)
    BY <1>1, <2>1, NextSplit, WhoAnswers
  <2>3. PICK e \in Newest : e.id = expect[u]
    BY <1>1 DEF AloneInv, Findable
  <2>4. [ckpt |-> expect[u]] \in writes
    BY <1>1 DEF AloneInv, Findable
  <2>5. DOMAIN answer = Caller
    BY <1>1 DEF IInv, SaverTypeOK
  <2>6. ~LoadNothing(u)
    BY <1>1, <2>3, <2>5 DEF LoadNothing, Candidates
  <2>7. PICK c \in Candidates(entry[u].ask) : entry[u].found = {c}
    BY <1>1, <2>2, <2>6 DEF ReadWrites, IInv, Entries
  <2>8. /\ answer'[u].ask = entry[u].ask /\ answer'[u].found = {c}
        /\ answer'[u].notes = {w \in writes : w.ckpt = c.id}
    <3>1. (CHOOSE x \in entry[u].found : TRUE) = c
      BY <2>7, TheOnly
    <3>2. answer'[u] = [entry[u] EXCEPT !.notes = {w \in writes : w.ckpt = c.id}]
      BY <2>2, <2>5, <2>6, <3>1 DEF ReadWrites
    <3>3. entry[u] \in Answer
      BY <1>1 DEF IInv, SaverTypeOK
    <3> QED BY <2>7, <3>2, <3>3 DEF Answer
  <2>9. c \in Newest
    BY <1>1, <2>7, <2>8 DEF Candidates
  <2>10. c.ts \in Nat /\ e.ts \in Nat
    BY <1>1, <2>3, <2>9 DEF Newest, IInv, SaverTypeOK, Checkpoint
  <2>11. c = e
    BY <1>1, <2>3, <2>9, <2>10 DEF Newest, Untied
  <2> QED BY <2>3, <2>4, <2>8, <2>9, <2>11 DEF Newest
<1>2. IInv /\ Footing /\ AloneInv /\ [Next]_vars
      => [\A u \in Caller :
            Answers(u) /\ answer'[u].ask = 0 /\ expect[u] # 0 /\ Untied(expect[u])
            => /\ \E c \in storage : answer'[u].found = {c} /\ c.id = expect[u]
               /\ answer'[u].notes # {}]_vars
  BY <1>1
<1> QED BY <1>2, AloneInductive, PTL DEF Spec, InterruptFound
=============================================================================
