---------------------------- MODULE MemorySaver ----------------------------
(***************************************************************************)
(* MemorySaver under concurrent calls on one thread_id.                    *)
(*                                                                         *)
(* The saver is two mutexes: storage maps checkpoint ids to checkpoints,   *)
(* writes maps them to pending writes.  get_tuple holds the first while it *)
(* takes the second, delete_thread takes one after the other, put and      *)
(* put_writes take one.  The callers are invoke, resume, get_state and     *)
(* update_state, reduced to what they do to the saver: load, save one      *)
(* checkpoint per superstep (awaited, spawned with Durability::Async, or   *)
(* put off to the end with Durability::Exit), and on an interrupt          *)
(* put_writes under the last id.                                           *)
(***************************************************************************)
EXTENDS Naturals, FiniteSets

CONSTANTS
    Caller,          \* the concurrent users of the thread
    Spawner,         \* those who may call with Durability::Async
    Deferrer,        \* those who may call with Durability::Exit
    Deleter,         \* those who may delete the thread
    Asked,           \* the checkpoint ids calls ask for; 0 is None, the latest
    MaxCheckpoints,  \* bound on the uuids drawn
    MaxClock         \* bound on Utc::now()

ASSUME SaverAssumption ==
    /\ Spawner \subseteq Caller /\ Deferrer \subseteq Caller /\ Deleter \subseteq Caller
    /\ Asked \subseteq 0 .. MaxCheckpoints
    /\ MaxCheckpoints \in Nat /\ MaxClock \in Nat \ {0}

VARIABLES
    storage,         \* MemorySaver.storage, of one thread
    writes,          \* MemorySaver.writes, of one thread
    locked,          \* the callers that hold the mutex of storage
    phase,           \* where each caller is
    entry,           \* get_tuple: the entry found, the mutex still held
    answer,          \* what get_tuple returned last
    base, step,      \* last_ckpt_id (0 is none) and step of the call
    saving,          \* checkpoints on their way to put; ts 0 before the stamp
    clock, uuids,
    skipped,         \* history: what Exit drew an id for and never put
    ever,            \* history: every checkpoint ever put
    alone,           \* history: the call began with the latest checkpoint, it
                     \* waited for each save and put off none, and nobody
                     \* else has used the thread
    expect           \* history: where a caller that stayed alone left its
                     \* interrupt, 0 for nowhere

maps == <<storage, writes, locked>>
calls == <<phase, entry, answer, base, step>>
drawn == <<saving, clock, uuids, skipped>>
history == <<ever, alone, expect>>
vars == <<maps, calls, drawn, history>>

Phases == {"idle", "entry", "running", "background", "deferring", "saving", "closing",
           "leaving", "deleting"}

Id == 1 .. MaxCheckpoints

Checkpoint == [id : Id, parent : 0 .. MaxCheckpoints, step : Nat, ts : 0 .. MaxClock]
Write == [ckpt : Id]
Save == [of : Checkpoint, by : Caller, awaited : BOOLEAN]
Answer == [ask : 0 .. MaxCheckpoints, found : SUBSET Checkpoint, notes : SUBSET Write]

NoAnswer == [ask |-> 0, found |-> {}, notes |-> {}]

\* Mutant of Newest: the oldest timestamp.
Oldest == {c \in storage : \A d \in storage : c.ts <= d.ts}

\* max_by_key over a HashMap: of equal timestamps any one.
Newest == {c \in storage : \A d \in storage : d.ts <= c.ts}

Candidates(ask) == IF ask = 0 THEN Newest ELSE {c \in storage : c.id = ask}

Free == locked = {}

-----------------------------------------------------------------------------
(* Loading.                                                                *)

\* u uses the thread: the others are no longer alone with it.
Joins(u) ==
    /\ alone' = [v \in Caller |-> v = u /\ alone[u]]
    /\ expect' = [v \in Caller |-> IF v = u THEN expect[u] ELSE 0]

\* get_tuple has returned found: the call stands on it, or starts afresh.
Starts(u, found) ==
    /\ phase' = [phase EXCEPT ![u] = "running"]
    /\ base' = [base EXCEPT ![u] = IF found = {} THEN 0 ELSE (CHOOSE c \in found : TRUE).id]
    /\ step' = [step EXCEPT ![u] = IF found = {} THEN 0 ELSE (CHOOSE c \in found : TRUE).step + 1]
    /\ alone' = [v \in Caller |-> v = u /\ answer'[u].ask = 0 /\ saving = {}
                                  /\ \A w \in Caller \ {u} : phase[w] = "idle"]
    /\ expect' = [v \in Caller |-> 0]

\* The thread or the id is not there: get_tuple returns at once.
LoadNothing(u) ==
    /\ phase[u] = "idle" /\ Free
    /\ \E ask \in Asked :
         /\ Candidates(ask) = {}
         /\ answer' = [answer EXCEPT ![u] = [ask |-> ask, found |-> {}, notes |-> {}]]
    /\ Starts(u, {})
    /\ UNCHANGED <<maps, entry, drawn, ever>>

\* Mutant of FindEntry: the mutex of storage is dropped before the writes
\* are read.
FindEntryUnlocked(u) ==
    /\ phase[u] = "idle" /\ Free
    /\ \E ask \in Asked : \E c \in Candidates(ask) :
         entry' = [entry EXCEPT ![u] = [ask |-> ask, found |-> {c}, notes |-> {}]]
    /\ phase' = [phase EXCEPT ![u] = "entry"]
    /\ Joins(u)
    /\ UNCHANGED <<maps, answer, base, step, drawn, ever>>

\* get_tuple has found its entry and goes for the mutex of writes with that
\* of storage in hand.
FindEntry(u) ==
    /\ phase[u] = "idle" /\ Free
    /\ \E ask \in Asked : \E c \in Candidates(ask) :
         entry' = [entry EXCEPT ![u] = [ask |-> ask, found |-> {c}, notes |-> {}]]
    /\ locked' = {u}
    /\ phase' = [phase EXCEPT ![u] = "entry"]
    /\ Joins(u)
    /\ UNCHANGED <<storage, writes, answer, base, step, drawn, ever>>

\* Mutant of ReadWrites: the mutex of storage is not given back.
ReadWritesKeepsLock(u) ==
    /\ phase[u] = "entry"
    /\ LET c == CHOOSE x \in entry[u].found : TRUE IN
         answer' = [answer EXCEPT ![u] =
                      [entry[u] EXCEPT !.notes = {w \in writes : w.ckpt = c.id}]]
    /\ entry' = [entry EXCEPT ![u] = NoAnswer]
    /\ Starts(u, entry[u].found)
    /\ UNCHANGED <<maps, drawn, ever>>

\* It reads the pending writes of that entry, drops both mutexes and returns.
ReadWrites(u) ==
    /\ phase[u] = "entry"
    /\ LET c == CHOOSE x \in entry[u].found : TRUE IN
         answer' = [answer EXCEPT ![u] =
                      [entry[u] EXCEPT !.notes = {w \in writes : w.ckpt = c.id}]]
    /\ locked' = {}
    /\ entry' = [entry EXCEPT ![u] = NoAnswer]
    /\ Starts(u, entry[u].found)
    /\ UNCHANGED <<storage, writes, drawn, ever>>

\* The loaded tuple has been taken apart.
Used(u) == answer' = [answer EXCEPT ![u] = NoAnswer]

-----------------------------------------------------------------------------
(* Saving.                                                                 *)

\* Mutant of Draw: the parent is the id drawn last, by whichever call.
DrawShared(u, parent, ts) ==
    /\ uuids < MaxCheckpoints
    /\ uuids' = uuids + 1
    /\ saving' = saving \cup
         {[of |-> [id |-> uuids + 1, parent |-> uuids, step |-> step[u], ts |-> ts],
           by |-> u, awaited |-> ts # 0]}
    /\ base' = [base EXCEPT ![u] = uuids + 1]
    /\ step' = [step EXCEPT ![u] = @ + 1]
    /\ Used(u)

\* The call's next checkpoint: a new id, its parent and step.
Draw(u, parent, ts) ==
    /\ uuids < MaxCheckpoints
    /\ uuids' = uuids + 1
    /\ saving' = saving \cup
         {[of |-> [id |-> uuids + 1, parent |-> parent, step |-> step[u], ts |-> ts],
           by |-> u, awaited |-> ts # 0]}
    /\ base' = [base EXCEPT ![u] = uuids + 1]
    /\ step' = [step EXCEPT ![u] = @ + 1]
    /\ Used(u)

\* Utc::now(): two readings may be equal; the clock is not set back.
Now == {t \in {clock, clock + 1} : t <= MaxClock}

\* save_checkpoint: stamped at once, and the call waits for the put.
SaveSync(u) ==
    /\ phase[u] = "running"
    /\ \E now \in Now : clock' = now /\ Draw(u, base[u], now)
    /\ phase' = [phase EXCEPT ![u] = "saving"]
    /\ UNCHANGED <<maps, entry, skipped, history>>

\* Durability::Async: the save is spawned, with itself as parent, and the
\* call goes on; it saves no other way from here.
SaveAsync(u) ==
    /\ u \in Spawner /\ phase[u] \in {"running", "background"}
    /\ Draw(u, uuids + 1, 0)
    /\ phase' = [phase EXCEPT ![u] = "background"]
    /\ alone' = [alone EXCEPT ![u] = FALSE]
    /\ UNCHANGED <<maps, entry, clock, skipped, ever, expect>>

\* Durability::Exit: a superstep only draws the id, which no checkpoint will
\* ever have; last_ckpt_id names it all the same.
SkipSave(u) ==
    /\ u \in Deferrer /\ phase[u] \in {"running", "deferring"}
    /\ uuids < MaxCheckpoints /\ uuids' = uuids + 1
    /\ skipped' = skipped \cup
         {[id |-> uuids + 1, parent |-> base[u], step |-> step[u], ts |-> 0]}
    /\ base' = [base EXCEPT ![u] = uuids + 1]
    /\ step' = [step EXCEPT ![u] = @ + 1]
    /\ phase' = [phase EXCEPT ![u] = "deferring"]
    /\ alone' = [alone EXCEPT ![u] = FALSE]
    /\ Used(u)
    /\ UNCHANGED <<maps, entry, saving, clock, ever, expect>>

\* No tasks are left: the one checkpoint of the call, after which it returns.
FinalSave(u) ==
    /\ phase[u] = "deferring"
    /\ \E now \in Now : clock' = now /\ Draw(u, base[u], now)
    /\ phase' = [phase EXCEPT ![u] = "closing"]
    /\ UNCHANGED <<maps, entry, skipped, history>>

\* The saves of u that await their timestamp, and those that await the mutex.
Unstamped(u) == {s \in saving : s.by = u /\ s.of.ts = 0}
Stamped(u) == {s \in saving : s.by = u /\ s.of.ts # 0}

\* The spawned task runs: only now it stamps its checkpoint.
Stamp(u) ==
    /\ \E s \in Unstamped(u), now \in Now :
         /\ clock' = now
         /\ saving' = (saving \ {s}) \cup {[s EXCEPT !.of.ts = now]}
    /\ UNCHANGED <<maps, calls, uuids, skipped, history>>

\* Where an awaited put lets the call go on.
Resumed(place) == IF place = "closing" THEN "leaving" ELSE "running"

\* put: insert replaces an entry of the same id.
Put(u) ==
    /\ Free
    /\ \E s \in Stamped(u) :
         /\ storage' = {c \in storage : c.id # s.of.id} \cup {s.of}
         /\ saving' = saving \ {s}
         /\ ever' = ever \cup {s.of}
         /\ phase' = [phase EXCEPT ![u] = IF s.awaited THEN Resumed(@) ELSE @]
    /\ UNCHANGED <<writes, locked, entry, answer, base, step, clock, uuids, skipped,
                   alone, expect>>

-----------------------------------------------------------------------------
(* The end of a call, and the end of the thread.                           *)

InCall(u) == phase[u] \in {"running", "background", "deferring"}

\* The call is interrupted: put_writes under the last id.
PutWrites(u) ==
    /\ InCall(u) /\ base[u] # 0
    /\ writes' = writes \cup {[ckpt |-> base[u]]}
    /\ phase' = [phase EXCEPT ![u] = "leaving"]
    /\ expect' = [expect EXCEPT ![u] = IF alone[u] THEN base[u] ELSE 0]
    /\ Used(u)
    /\ UNCHANGED <<storage, locked, entry, base, step, drawn, ever, alone>>

\* The call returns: interrupted, done, cancelled, failed, or it only read.
End(u) ==
    /\ InCall(u) \/ phase[u] = "leaving"
    /\ phase' = [phase EXCEPT ![u] = "idle"]
    /\ Used(u)
    /\ base' = [base EXCEPT ![u] = 0] /\ step' = [step EXCEPT ![u] = 0]
    /\ alone' = [alone EXCEPT ![u] = FALSE]
    /\ UNCHANGED <<maps, entry, drawn, ever, expect>>

\* delete_thread: storage first, and its mutex is free again before the
\* other one is taken.
DeleteFirst(u) ==
    /\ u \in Deleter /\ phase[u] = "idle" /\ Free
    /\ storage' = {}
    /\ phase' = [phase EXCEPT ![u] = "deleting"]
    /\ alone' = [v \in Caller |-> FALSE] /\ expect' = [v \in Caller |-> 0]
    /\ UNCHANGED <<writes, locked, entry, answer, base, step, drawn, ever>>

DeleteSecond(u) ==
    /\ phase[u] = "deleting"
    /\ writes' = {}
    /\ phase' = [phase EXCEPT ![u] = "idle"]
    /\ UNCHANGED <<storage, locked, entry, answer, base, step, drawn, history>>

-----------------------------------------------------------------------------

Init ==
    /\ storage = {} /\ writes = {} /\ locked = {}
    /\ phase = [u \in Caller |-> "idle"]
    /\ entry = [u \in Caller |-> NoAnswer] /\ answer = [u \in Caller |-> NoAnswer]
    /\ base = [u \in Caller |-> 0] /\ step = [u \in Caller |-> 0]
    /\ saving = {} /\ clock = 1 /\ uuids = 0 /\ skipped = {}
    /\ ever = {}
    /\ alone = [u \in Caller |-> FALSE] /\ expect = [u \in Caller |-> 0]

Loads == \E u \in Caller : LoadNothing(u) \/ FindEntry(u) \/ ReadWrites(u)
Saves == \E u \in Caller : \/ SaveSync(u) \/ SaveAsync(u) \/ SkipSave(u) \/ FinalSave(u)
                          \/ Stamp(u) \/ Put(u)
Leaves == \E u \in Caller : PutWrites(u) \/ End(u)
Deletes == \E u \in Caller : DeleteFirst(u) \/ DeleteSecond(u)

Next == Loads \/ Saves \/ Leaves \/ Deletes

Spec == Init /\ [][Next]_vars

-----------------------------------------------------------------------------
(* Properties.                                                             *)

\* Ids are drawn once; a save is under way for as long as its awaited caller
\* waits; the mutex of storage is held by the caller between an entry and its
\* pending writes, and by nobody else.
SaverTypeOK ==
    /\ storage \subseteq Checkpoint /\ ever \subseteq Checkpoint /\ skipped \subseteq Checkpoint
    /\ writes \subseteq Write
    /\ phase \in [Caller -> Phases]
    /\ entry \in [Caller -> Answer] /\ answer \in [Caller -> Answer]
    /\ base \in [Caller -> 0 .. MaxCheckpoints] /\ step \in [Caller -> Nat]
    /\ saving \subseteq Save
    /\ clock \in 1 .. MaxClock /\ uuids \in 0 .. MaxCheckpoints
    /\ alone \in [Caller -> BOOLEAN] /\ expect \in [Caller -> 0 .. MaxCheckpoints]
    /\ locked = {u \in Caller : phase[u] = "entry"}

Contract == INSTANCE CheckpointStore WITH kept <- storage, notes <- writes

\* Whatever calls and deletions overlap, get_tuple, put and put_writes take
\* effect at one instant each: a loaded checkpoint is the newest one with all
\* of its pending writes (memory.rs:44), and no operation but delete_thread
\* takes anything away.
KeepsPromise == Contract!Spec

\* A checkpoint that was put stands one step after its parent, which was
\* loaded or put before it, however the calls on the thread overlap and
\* whatever is deleted; Async's name themselves.  The parent of Exit's final
\* checkpoint was never put: it is the last of the ids the call drew, and
\* those lead back, a step each, to what the call was built on (engine.rs:144,
\* 375, 521, compiled.rs:139).
ForestDespiteRaces ==
    \A c \in ever \cup skipped :
        \/ c.parent \in {0, c.id}
        \/ \E p \in ever \cup skipped : p.id = c.parent /\ c.step = p.step + 1

\* No other checkpoint has the timestamp of this one.
Untied(id) == \A c, d \in storage : c.id = id /\ c.ts = d.ts => c = d

Answers(u) == phase[u] \in {"idle", "entry"} /\ phase'[u] = "running"

\* An interrupt is found again: a caller whose call on the latest checkpoint
\* returned Interrupted, and who has been alone on the thread since that call
\* began, next loads its last checkpoint with the interrupt's pending writes
\* (engine.rs:222, memory.rs:57).  The call waited for each of its saves: an
\* Async save may not have landed, and Exit's id will never be loaded.
InterruptFound ==
    [][\A u \in Caller :
         Answers(u) /\ answer'[u].ask = 0 /\ expect[u] # 0 /\ Untied(expect[u])
         => /\ \E c \in storage : answer'[u].found = {c} /\ c.id = expect[u]
            /\ answer'[u].notes # {}]_vars
=============================================================================
