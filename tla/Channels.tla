------------------------------ MODULE Channels ------------------------------
(***************************************************************************)
(* The state channels of a graph: how one update batch changes a channel,  *)
(* what a checkpoint keeps of it and what a restart gives back.            *)
(*                                                                         *)
(* A channel's content is the sequence of items its value still reflects;  *)
(* the empty sequence is the code's None.  An item carries the flag        *)
(* "over", set when the value written is an {OVERWRITE_KEY: v} object.     *)
(* BinaryOperatorAggregate's value is a left fold of the user's reducer    *)
(* over its content, so the content determines it whatever the reducer is. *)
(***************************************************************************)
EXTENDS Naturals, Sequences

Kinds == {"LastValue", "EphemeralValue", "BinaryOperatorAggregate", "Topic"}

\* is_persistent(): whether snapshot_channels writes the channel.
Persistent(kind) == kind \in {"LastValue", "BinaryOperatorAggregate"}

\* The position of the last overwrite of a batch, as a set of at most one.
LastOverwrite(s) ==
    {i \in DOMAIN s : s[i].over /\ \A k \in DOMAIN s : k > i => ~s[k].over}

\* The batch from the last overwrite on; the overwrite itself is stored as
\* the plain value it carries.
Overwritten(s) ==
    LET i == CHOOSE i \in LastOverwrite(s) : TRUE
    IN  <<[s[i] EXCEPT !.over = FALSE]>> \o SubSeq(s, i + 1, Len(s))

\* Mutants of Aggregate: only the batch's last value is folded in; the
\* reducer's arguments are swapped.
FoldLast(content, batch) ==
    IF batch = <<>> THEN content ELSE Append(content, batch[Len(batch)])
FoldSwapped(content, batch) ==
    IF LastOverwrite(batch) = {} THEN batch \o content ELSE Overwritten(batch)

\* BinaryOperatorAggregate::update: fold each value in, an overwrite discards
\* what was there.  The first value of an empty channel is kept as it is.
Aggregate(content, batch) ==
    IF LastOverwrite(batch) = {} THEN content \o batch ELSE Overwritten(batch)

\* LastValue::update, EphemeralValue::update: the batch's last value, markers
\* included.
Replace(content, batch) ==
    IF batch = <<>> THEN content ELSE <<batch[Len(batch)]>>

\* AnyChannel::update of each kind.
Update(kind, content, batch) ==
    CASE kind = "BinaryOperatorAggregate" -> Aggregate(content, batch)
      [] kind = "Topic"                   -> content \o batch
      [] OTHER                            -> Replace(content, batch)

\* What checkpoint() contributes to a snapshot, and what from_checkpoint()
\* makes of it: the channels that are not persistent come back empty.
Checkpointed(kind, content) == IF Persistent(kind) THEN content ELSE <<>>

\* Mutant of FromCheckpoint: only a LastValue is given its saved value.
RestoreLastValue(kind, saved) == IF kind = "LastValue" THEN saved ELSE <<>>
FromCheckpoint(kind, saved) == IF Persistent(kind) THEN saved ELSE <<>>
=============================================================================
