-------------------------- MODULE CheckpointStore --------------------------
(***************************************************************************)
(* What the engine expects of a checkpoint saver, for one thread: each     *)
(* operation takes effect at one instant between its call and its return.  *)
(* Only a deletion may take two, for it forgets the checkpoints first and  *)
(* their pending writes later.                                             *)
(***************************************************************************)
EXTENDS Naturals

VARIABLES
    kept,            \* the checkpoints of the thread, records with id and ts
    notes,           \* its pending writes, records with the id in ckpt
    answer           \* caller |-> the last answer of get_tuple it received

vars == <<kept, notes, answer>>

Init == kept = {} /\ notes = {} /\ \A u \in DOMAIN answer : answer[u].found = {}

\* put: a checkpoint is added, and no other is touched.
Put ==
    /\ \E c \in kept' : c \notin kept /\ kept' = kept \cup {c}
    /\ UNCHANGED <<notes, answer>>

\* A caller may be done with its answer.
Drop ==
    \A u \in DOMAIN answer :
        \/ answer'[u] = answer[u]
        \/ answer'[u] = [ask |-> 0, found |-> {}, notes |-> {}]

\* put_writes.
Note ==
    /\ \E w \in notes' : notes' = notes \cup {w}
    /\ Drop
    /\ UNCHANGED kept

\* get_tuple: the checkpoint asked for, or (0) one that no other is newer
\* than, with all of its pending writes; nothing only if there is none.
Right(r) ==
    LET candidates == {c \in kept : IF r.ask = 0 THEN \A d \in kept : d.ts <= c.ts
                                                 ELSE c.id = r.ask} IN
    IF candidates = {}
    THEN r.found = {} /\ r.notes = {}
    ELSE \E c \in candidates :
            /\ r.found = {c}
            /\ r.notes = {w \in notes : w.ckpt = c.id}

Get ==
    /\ \E u \in DOMAIN answer :
         /\ answer' = [answer EXCEPT ![u] = answer'[u]]
         /\ Right(answer'[u])
    /\ UNCHANGED <<kept, notes>>

\* The two halves of delete_thread.
Forget == kept' = {} /\ UNCHANGED <<notes, answer>>
ForgetNotes == notes' = {} /\ UNCHANGED <<kept, answer>>

Next == Put \/ Note \/ Get \/ (Drop /\ UNCHANGED <<kept, notes>>) \/ Forget \/ ForgetNotes

Spec == Init /\ [][Next]_vars
=============================================================================
