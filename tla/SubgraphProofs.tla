--------------------------- MODULE SubgraphProofs ---------------------------
(***************************************************************************)
(* The stream of a superstep of subgraphs, for any number of subgraphs,    *)
(* inner supersteps and attempts: while the consumer stays no event of an  *)
(* inner call is lost, doubled or overtaken, and when the stream ends all  *)
(* of them have arrived.                                                   *)
(*                                                                         *)
(* The properties are not inductive by themselves.  ForwarderInv adds who  *)
(* is forwarding: a live call has its forwarder, and a forwarder that is   *)
(* not up has left nothing behind.  ClosedInv adds that a stream that has  *)
(* ended stays closed, for nothing begins after the outer call is over.    *)
(***************************************************************************)
EXTENDS Subgraph, SequenceTheorems, TLAPS

Events == [kind : Kind, n : Nat]

StreamType ==
    /\ inner \in [Call -> {"none", "top", "node", "emitted", "saving", "done",
                           "interrupted", "retryable", "fatal", "dropped"}]
    /\ step \in [Call -> Nat]
    /\ sub \in [Call -> Seq(Events)]
    /\ sent \in [Call -> Seq(Events)]
    /\ forwarder \in [Call -> {"none", "up", "down"}]
    /\ stream \in [Call \cup {Outer} -> Seq(Events)]
    /\ listening \in BOOLEAN /\ ended \in BOOLEAN

ForwarderInv ==
    listening =>
        \A k \in Call : /\ Alive(k) => forwarder[k] = "up"
                        /\ forwarder[k] # "up" => sub[k] = <<>>

ClosedInv == ended => listening /\ Closed

Inv == StreamType /\ ForwarderInv /\ EventsConserved /\ ClosedInv

-----------------------------------------------------------------------------
(* The queue between a call and its forwarder.                             *)

LEMMA Associative ==
    ASSUME NEW s \in Seq(Events), NEW t \in Seq(Events), NEW u \in Seq(Events)
    PROVE  (s \o t) \o u = s \o (t \o u)
<1>1. \A S : \A a, b, c \in Seq(S) : (a \o b) \o c = a \o (b \o c)
  BY ONLY ConcatAssociative
<1> QED
  BY <1>1

\* The head of a queue, and what is left of it.
LEMMA HeadAndRest ==
    ASSUME NEW q \in Seq(Events), q # <<>>
    PROVE  /\ q[Sendable(q)] \in Events
           /\ Without(q, Sendable(q)) \in Seq(Events)
           /\ \A s \in Seq(Events) : Append(s, q[Sendable(q)]) \o Without(q, Sendable(q)) = s \o q
<1>1. Len(q) \in Nat \ {0} /\ q[1] \in Events
  OBVIOUS
<1>2. SubSeq(q, 1, 0) = <<>>
  OBVIOUS
<1>3. SubSeq(q, 2, Len(q)) \in Seq(Events)
  BY <1>1
<1>4. <<>> \o SubSeq(q, 2, Len(q)) = SubSeq(q, 2, Len(q))
  BY <1>3
<1>5. Without(q, 1) = SubSeq(q, 2, Len(q))
  BY <1>1, <1>2, <1>4 DEF Without
<1>6. ASSUME NEW s \in Seq(Events)
      PROVE  Append(s, q[1]) \o SubSeq(q, 2, Len(q)) = s \o q
  <2>1. Append(s, q[1]) = s \o <<q[1]>> /\ <<q[1]>> \in Seq(Events)
    BY <1>1, AppendIsConcat
  <2>2. (s \o <<q[1]>>) \o SubSeq(q, 2, Len(q)) = s \o (<<q[1]>> \o SubSeq(q, 2, Len(q)))
    BY <1>3, <2>1, Associative, Zenon
  <2>3. <<q[1]>> \o SubSeq(q, 2, Len(q)) = q
    BY <1>1, SubSeqRecursiveFirst, SubSeqFull
  <2> QED
    BY <2>1, <2>2, <2>3
<1> QED
  BY <1>1, <1>3, <1>5, <1>6 DEF Sendable

\* What send_if_active sends is a sequence of events.
LEMMA SentIsTyped ==
    ASSUME NEW kind \in Kind, NEW n \in Nat
    PROVE  IfActive(kind, n) \in Seq(Events)
<1>1. Event(kind, n) \in Events
  BY DEF Event, Events
<1>2. <<Event(kind, n)>> \in Seq(Events) /\ <<>> \in Seq(Events)
  BY <1>1
<1> QED
  BY <1>2 DEF IfActive

-----------------------------------------------------------------------------
(* Steps that send.                                                        *)

\* A send of a live call appends the same events to its history and its queue.
LEMMA SubSendKeeps ==
    ASSUME Inv, NEW k \in Call, Alive(k), NEW events \in Seq(Events), SubSend(k, events),
           UNCHANGED <<forwarder, stream, listening>>
    PROVE  /\ sub' \in [Call -> Seq(Events)] /\ sent' \in [Call -> Seq(Events)]
           /\ EventsConserved'
           /\ listening => \A c \in Call : forwarder[c] # "up" => sub'[c] = <<>>
<1> USE DEF Inv, StreamType
<1>1. sub' \in [Call -> Seq(Events)] /\ sent' \in [Call -> Seq(Events)]
  BY DEF SubSend
<1>2. ASSUME listening, NEW c \in Call
      PROVE  stream[c] \o sub'[c] = sent'[c]
  <2>1. stream[c] \o sub[c] = sent[c] /\ stream[c] \in Seq(Events)
    BY <1>2 DEF EventsConserved
  <2>2. CASE c # k
    BY <1>2, <2>1, <2>2 DEF SubSend
  <2>3. CASE c = k
    <3>1. sub'[c] = sub[c] \o events /\ sent'[c] = sent[c] \o events
      BY <1>2, <2>3 DEF SubSend, ForwarderInv
    <3>2. stream[c] \o (sub[c] \o events) = (stream[c] \o sub[c]) \o events
      <4>1. sub[c] \in Seq(Events)
        OBVIOUS
      <4> QED
        BY <2>1, <4>1, Associative, Zenon
    <3> QED
      BY <2>1, <3>1, <3>2
  <2> QED
    BY <2>2, <2>3
<1>3. ASSUME listening, NEW c \in Call, forwarder[c] # "up"
      PROVE  sub'[c] = <<>>
  BY <1>3 DEF SubSend, ForwarderInv
<1> QED
  BY <1>1, <1>2, <1>3 DEF EventsConserved

\* Every step of an inner loop keeps the invariant.
LEMMA InnerSteps ==
    ASSUME Inv, NEW k \in Call, Inner(k)
    PROVE  Inv'
<1> USE DEF Inv
<1>1. PICK events \in Seq(Events) : SubSend(k, events) \/ UNCHANGED <<sub, sent>>
  <2>1. step[k] \in Nat
    BY DEF StreamType
  <2>2. /\ IfActive("None", step[k]) \in Seq(Events) /\ IfActive("Debug", step[k]) \in Seq(Events)
        /\ IfActive("Updates", step[k]) \in Seq(Events) /\ IfActive("Values", step[k]) \in Seq(Events)
        /\ IfActive("Checkpoints", step[k]) \in Seq(Events)
    BY <2>1, SentIsTyped DEF Kind
  <2>3. <<Event("Custom", step[k])>> \in Seq(Events)
    BY <2>1 DEF Event, Events, Kind
  <2>4. /\ IfActive("Updates", step[k]) \o IfActive("Debug", step[k]) \in Seq(Events)
        /\ IfActive("Values", step[k]) \o IfActive("Checkpoints", step[k]) \in Seq(Events)
    BY <2>2
  <2>5. <<>> \in Seq(Events)
    OBVIOUS
  <2> QED
    BY <2>2, <2>3, <2>4, <2>5
       DEF Inner, InnerFinish, InnerCancelled, InnerStart, Emit, NodesReturn, NodesFail, Saved
<1>2. /\ Alive(k)
      /\ UNCHANGED <<outer, forwarder, stream, listening, ended>>
      /\ \A c \in Call \ {k} : inner'[c] = inner[c]
  BY DEF StreamType, Inner, InnerFinish, InnerCancelled, InnerStart, Emit, NodesReturn,
         NodesFail, Saved, Moves, Alive, Busy, consumer
<1>3. StreamType'
  <2>1. inner' \in [Call -> {"none", "top", "node", "emitted", "saving", "done",
                             "interrupted", "retryable", "fatal", "dropped"}]
    <3>1. PICK to : inner' = [inner EXCEPT ![k] = to] /\
            to \in {"top", "node", "emitted", "saving", "done", "interrupted", "retryable", "fatal"}
      BY SubgraphAssumption
         DEF Inner, InnerFinish, InnerCancelled, InnerStart, Emit, NodesReturn,
             NodesFail, Saved, Moves, Call
    <3> QED
      BY <3>1 DEF StreamType
  <2>2. step' \in [Call -> Nat]
    BY DEF StreamType, Inner, InnerFinish, InnerCancelled, InnerStart, Emit, NodesReturn,
           NodesFail, Saved
  <2> QED
    BY <1>1, <1>2, <2>1, <2>2, SubSendKeeps DEF StreamType
<1>4. EventsConserved' /\ (listening => \A c \in Call : forwarder[c] # "up" => sub'[c] = <<>>)
  BY <1>1, <1>2, SubSendKeeps DEF EventsConserved, ForwarderInv
<1>5. ForwarderInv'
  BY <1>2, <1>4 DEF ForwarderInv, Alive
<1>6. ClosedInv'
  <2>1. ~ended
    BY <1>2 DEF ClosedInv, Closed
  <2> QED
    BY <1>2, <2>1 DEF ClosedInv
<1> QED
  BY <1>3, <1>4, <1>5, <1>6

-----------------------------------------------------------------------------
(* Steps of the forwarders and the consumer.                               *)

\* A forwarder moves the head of its queue to the stream.
LEMMA ForwardStep ==
    ASSUME Inv, NEW k \in Call, Forward(k)
    PROVE  Inv'
<1> USE DEF Inv
<1>1. /\ forwarder[k] = "up" /\ listening /\ sub[k] # <<>> /\ sub[k] \in Seq(Events)
      /\ stream[k] \in Seq(Events) /\ Call \subseteq Call \cup {Outer}
      /\ stream' = [stream EXCEPT ![k] = Append(@, sub[k][Sendable(sub[k])])]
      /\ sub' = [sub EXCEPT ![k] = Without(@, Sendable(sub[k]))]
      /\ UNCHANGED <<outer, inner, step, forwarder, sent, listening, ended>>
  BY DEF Forward, StreamType
<1>2. /\ sub[k][Sendable(sub[k])] \in Events
      /\ Without(sub[k], Sendable(sub[k])) \in Seq(Events)
      /\ Append(stream[k], sub[k][Sendable(sub[k])]) \o Without(sub[k], Sendable(sub[k]))
            = stream[k] \o sub[k]
  BY <1>1, HeadAndRest
<1>3. StreamType'
  <2>1. Append(stream[k], sub[k][Sendable(sub[k])]) \in Seq(Events)
    BY <1>1, <1>2
  <2> QED
    BY <1>1, <1>2, <2>1 DEF StreamType
<1>4. EventsConserved'
  <2>1. ASSUME NEW c \in Call
        PROVE  stream'[c] \o sub'[c] = sent'[c]
    <3>1. CASE c = k
      <4>1. /\ stream'[c] = Append(stream[k], sub[k][Sendable(sub[k])])
            /\ sub'[c] = Without(sub[k], Sendable(sub[k]))
        BY <1>1, <3>1 DEF StreamType
      <4> QED
        BY <1>1, <1>2, <3>1, <4>1 DEF EventsConserved
    <3>2. CASE c # k
      BY <1>1, <3>2 DEF StreamType, EventsConserved
    <3> QED
      BY <3>1, <3>2
  <2> QED
    BY <2>1 DEF EventsConserved
<1>5. ForwarderInv'
  BY <1>1 DEF ForwarderInv, Alive, StreamType
<1>6. ClosedInv'
  BY <1>1 DEF ClosedInv, Closed
<1> QED
  BY <1>3, <1>4, <1>5, <1>6

\* A forwarder ends with nothing queued, or breaks when nobody listens.
LEMMA ForwarderGoes ==
    ASSUME Inv, NEW k \in Call, ForwarderEnds(k) \/ ForwarderBreaks(k)
    PROVE  Inv'
<1> USE DEF Inv
<1>1. CASE ForwarderEnds(k)
  <2>1. /\ ~Alive(k) /\ sub[k] = <<>>
        /\ forwarder' = [forwarder EXCEPT ![k] = "down"]
        /\ UNCHANGED <<outer, inner, step, sub, sent, stream, listening, ended>>
    BY <1>1 DEF ForwarderEnds, Drained, consumer
  <2>2. StreamType' /\ ForwarderInv' /\ EventsConserved'
    BY <2>1 DEF StreamType, ForwarderInv, EventsConserved, Alive
  <2>3. ClosedInv'
    BY <2>1 DEF ClosedInv, Closed, Over, Alive, StreamType
  <2> QED
    BY <2>2, <2>3
<1>2. CASE ForwarderBreaks(k)
  <2>1. /\ ~listening /\ ~listening' /\ <<>> \in Seq(Events)
        /\ forwarder' = [forwarder EXCEPT ![k] = "down"]
        /\ sub' = [sub EXCEPT ![k] = <<>>]
        /\ UNCHANGED <<inner, step, sent, stream, listening, ended>>
    BY <1>2 DEF ForwarderBreaks, consumer
  <2> QED
    BY <2>1 DEF StreamType, ForwarderInv, EventsConserved, ClosedInv
<1> QED
  BY <1>1, <1>2

\* The consumer leaves, or learns that the stream has ended.
LEMMA ConsumerSteps ==
    ASSUME Inv, Leave \/ SeesEnd
    PROVE  Inv'
<1> USE DEF Inv
<1>1. CASE Leave
  <2>1. ~listening' /\ ~ended' /\ <<>> \in Seq(Events)
    BY <1>1 DEF Leave, StreamType
  <2> QED
    BY <1>1, <2>1 DEF Leave, StreamType, ForwarderInv, EventsConserved, ClosedInv
<1>2. CASE SeesEnd
  <2>1. UNCHANGED <<outer, inner, step, sub, sent, forwarder, stream, listening>> /\ ended' = TRUE
        /\ listening /\ Closed
    BY <1>2 DEF SeesEnd, calls
  <2> QED
    BY <2>1 DEF StreamType, ForwarderInv, EventsConserved, ClosedInv, Closed, Over, Alive
<1> QED
  BY <1>1, <1>2

-----------------------------------------------------------------------------
(* Steps of the outer loop.                                                *)

\* process() begins calls and their forwarders together; the outer call is not over.
LEMMA ProcessKeeps ==
    ASSUME Inv, NEW S \in SUBSET Call, Process(S), ~Over,
           stream' \in [Call \cup {Outer} -> Seq(Events)],
           \A k \in Call : stream'[k] = stream[k],
           UNCHANGED <<listening, ended>>
    PROVE  Inv'
<1> USE DEF Inv
<1>1. StreamType'
  BY DEF StreamType, Process
<1>2. EventsConserved'
  BY DEF Process, EventsConserved
<1>3. ForwarderInv'
  BY DEF Process, ForwarderInv, Alive, StreamType
<1>4. ClosedInv'
  BY DEF ClosedInv, Closed
<1> QED
  BY <1>1, <1>2, <1>3, <1>4

\* What the outer loop sends leaves the streams of the calls alone.
LEMMA OuterSendKeeps ==
    ASSUME Inv, NEW events \in Seq(Events), OuterSend(events)
    PROVE  /\ stream' \in [Call \cup {Outer} -> Seq(Events)]
           /\ \A k \in Call : stream'[k] = stream[k]
           /\ UNCHANGED <<listening, ended>>
<1>1. Outer \notin Call
  BY DEF Outer, Call
<1> QED
  BY <1>1 DEF OuterSend, Inv, StreamType

\* The outer steps that begin no call.
LEMMA OuterKeeps ==
    ASSUME Inv, UNCHANGED calls,
           ~Over \/ outer' = outer,
           stream' \in [Call \cup {Outer} -> Seq(Events)],
           \A k \in Call : stream'[k] = stream[k],
           UNCHANGED <<listening, ended>>
    PROVE  Inv'
<1> USE DEF Inv
<1>1. StreamType' /\ ForwarderInv' /\ EventsConserved'
  BY DEF calls, StreamType, ForwarderInv, EventsConserved, Alive
<1>2. ClosedInv'
  BY DEF calls, ClosedInv, Closed, Over, Alive
<1> QED
  BY <1>1, <1>2

\* Every step of the outer loop keeps the invariant.
LEMMA OuterSteps ==
    ASSUME Inv, OuterStep \/ Dropped \/ Cancel \/ Terminated
    PROVE  Inv'
<1>1. /\ IfActive("Debug", 0) \in Seq(Events)
      /\ IfActive("Updates", 1) \in Seq(Events) /\ IfActive("Debug", 1) \in Seq(Events)
      /\ IfActive("Values", 1) \in Seq(Events) /\ IfActive("Checkpoints", 1) \in Seq(Events)
      /\ IfActive("None", 2) \in Seq(Events) /\ <<>> \in Seq(Events)
  BY SentIsTyped DEF Kind
<1>2. /\ IfActive("Updates", 1) \o IfActive("Debug", 1) \in Seq(Events)
      /\ IfActive("Updates", 1) \o IfActive("Debug", 1)
            \o IfActive("Values", 1) \o IfActive("Checkpoints", 1) \in Seq(Events)
  BY <1>1
<1>3. CASE Begin
  <2>1. {<<s, 1>> : s \in Sub} \in SUBSET Call
    BY SubgraphAssumption DEF Call
  <2>2. ~Over
    BY <1>3 DEF Begin, Over
  <2> QED
    BY <1>1, <1>3, <2>1, <2>2, OuterSendKeeps, ProcessKeeps DEF Begin
<1>4. ASSUME NEW k \in Call, Retry(k)
      PROVE  Inv'
  <2>1. k[1] \in Sub /\ k[2] \in 1 .. MaxAttempts /\ k[2] + 1 \in 1 .. MaxAttempts
    BY <1>4, SubgraphAssumption DEF Retry, Call
  <2>2. {<<k[1], k[2] + 1>>} \in SUBSET Call
    BY <2>1 DEF Call
  <2>3. UNCHANGED <<stream, listening, ended>> /\ ~Over
    BY <1>4 DEF Retry, consumer, Over
  <2> QED
    BY <1>4, <2>2, <2>3, ProcessKeeps DEF Retry, Inv, StreamType
<1>5. CASE CollectParent \/ Collect \/ Finish
  <2>1. PICK events \in Seq(Events) : OuterSend(events)
    BY <1>1, <1>2, <1>5 DEF CollectParent, Collect, Finish
  <2>2. UNCHANGED calls /\ ~Over
    BY <1>5 DEF CollectParent, Collect, Finish, Over
  <2> QED
    BY <2>1, <2>2, OuterSendKeeps, OuterKeeps
<1>6. CASE Cancelled \/ Dropped \/ Cancel \/ Terminated \/ \E k \in Call : Answered(k) \/ Fails(k)
  <2>1. UNCHANGED calls /\ UNCHANGED <<stream, listening, ended>> /\ (~Over \/ outer' = outer)
    BY <1>6 DEF Cancelled, Dropped, Cancel, Terminated, Answered, Fails, vars, consumer, Over
  <2> QED
    BY <2>1, OuterKeeps DEF Inv, StreamType
<1> QED
  BY <1>3, <1>4, <1>5, <1>6 DEF OuterStep

\* An aborted call is dropped, its forwarder stays.
LEMMA DropSteps ==
    ASSUME Inv, NEW k \in Call, DropInner(k)
    PROVE  Inv'
<1> USE DEF Inv
<1>1. /\ inner' = [inner EXCEPT ![k] = "dropped"]
      /\ UNCHANGED <<outer, step, sub, forwarder, sent, stream, listening, ended>>
  BY DEF DropInner, consumer
<1>2. \A c \in Call : Alive(c)' => Alive(c)
  BY <1>1 DEF Alive, Busy, StreamType
<1>3. StreamType' /\ EventsConserved' /\ ForwarderInv'
  BY <1>1, <1>2 DEF StreamType, EventsConserved, ForwarderInv
<1>4. ClosedInv'
  BY <1>1, <1>2 DEF ClosedInv, Closed, Over
<1> QED
  BY <1>3, <1>4

-----------------------------------------------------------------------------
LEMMA InvHolds == Spec => []Inv
<1>1. Init => Inv
  <2> SUFFICES ASSUME Init PROVE Inv
    OBVIOUS
  <2>1. <<>> \in Seq(Events) /\ <<>> \o <<>> = <<>>
    OBVIOUS
  <2>2. StreamType /\ ClosedInv /\ ForwarderInv
    BY <2>1 DEF Init, StreamType, ClosedInv, ForwarderInv, Alive, Busy
  <2>3. EventsConserved
    BY <2>1 DEF Init, EventsConserved
  <2> QED
    BY <2>2, <2>3 DEF Inv
<1>2. Inv /\ [Next]_vars => Inv'
  <2> SUFFICES ASSUME Inv, [Next]_vars PROVE Inv'
    OBVIOUS
  <2>1. CASE OuterStep \/ Dropped \/ Cancel \/ Terminated
    BY <2>1, OuterSteps
  <2>2. ASSUME NEW k \in Call, Inner(k) PROVE Inv'
    BY <2>2, InnerSteps
  <2>3. ASSUME NEW k \in Call, DropInner(k) PROVE Inv'
    BY <2>3, DropSteps
  <2>4. ASSUME NEW k \in Call, Forwarder(k) PROVE Inv'
    BY <2>4, ForwardStep, ForwarderGoes DEF Forwarder
  <2>5. CASE Leave \/ SeesEnd
    BY <2>5, ConsumerSteps
  <2>6. CASE UNCHANGED vars
    <3>1. UNCHANGED calls /\ UNCHANGED <<outer, stream, listening, ended>>
      BY <2>6 DEF vars, consumer
    <3> QED
      BY <3>1, OuterKeeps DEF Inv, StreamType
  <2> QED
    BY <2>1, <2>2, <2>3, <2>4, <2>5, <2>6 DEF Next
<1> QED
  BY <1>1, <1>2, PTL DEF Spec

\* No event of an inner call is lost, doubled or overtaken while the consumer
\* stays (EventsConserved), whatever its siblings and the outer call do.
THEOREM StreamFaithful == Spec => []EventsConserved
<1>1. Inv => EventsConserved
  BY DEF Inv
<1> QED
  BY <1>1, InvHolds, PTL

\* When recv() has returned None, every event of every call has arrived
\* (EndIsComplete): a forwarder that has gone left nothing behind.
THEOREM StreamComplete == Spec => []EndIsComplete
<1>1. Inv => EndIsComplete
  <2> SUFFICES ASSUME Inv, ended, NEW k \in Call PROVE stream[k] = sent[k]
    BY DEF EndIsComplete
  <2>1. listening /\ forwarder[k] # "up"
    BY DEF Inv, ClosedInv, Closed
  <2>2. sub[k] = <<>> /\ stream[k] \o sub[k] = sent[k] /\ stream[k] \in Seq(Events)
    BY <2>1 DEF Inv, ForwarderInv, EventsConserved, StreamType
  <2> QED
    BY <2>2, ConcatEmptySeq
<1> QED
  BY <1>1, InvHolds, PTL
=============================================================================
