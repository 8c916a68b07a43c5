------------------------------ MODULE Subgraph ------------------------------
(***************************************************************************)
(* A superstep whose tasks are SubgraphNodes: each runs a compiled graph   *)
(* of its own and passes its events to the caller's stream.                *)
(*                                                                         *)
(* process() makes an unbounded channel for the inner graph's events and   *)
(* spawns a forwarder that wraps each in a SubgraphEvent and sends it on.  *)
(* Nobody joins the forwarder: it runs beside the inner call, the retries  *)
(* of the runner, the outer loop and the consumer of the stream, and ends  *)
(* by itself once the inner call has dropped its sender.                   *)
(*                                                                         *)
(* The inner and outer graphs are PregelLoops; here only what they send,   *)
(* where they read the shared cancel flag and how they end is kept.  The   *)
(* outer graph ends after this superstep.                                  *)
(***************************************************************************)
EXTENDS Naturals, Sequences

CONSTANTS
    Sub,             \* the subgraph nodes of the superstep
    Steps,           \* supersteps of an inner graph that is left alone
    Ends,            \* subgraph |-> how an inner superstep's nodes may end
    MaxAttempts,     \* 1 + max_attempts of the outer retry policy
    Emitters         \* the subgraphs whose nodes emit, once per superstep

ASSUME SubgraphAssumption ==
    /\ Steps \in [Sub -> Nat]
    /\ Ends \in [Sub -> SUBSET {"ok", "interrupt", "retryable", "fatal"}]
    /\ MaxAttempts \in Nat \ {0} /\ Emitters \subseteq Sub

\* The attempts of the runner at a node: each is one call of process().
Call == Sub \X (1 .. MaxAttempts)
Outer == <<"outer", 0>>

\* StreamEvent::mode; "None" events pass every filter.
Kind == {"Values", "Updates", "Custom", "Debug", "Checkpoints", "None"}

\* StreamMode::default_set, which inner calls use whatever the caller chose:
\* sub_config leaves stream_modes at None.
DefaultSet == {"Values", "Updates", "Messages", "Tools"}

VARIABLES
    outer,           \* "start", "run", "top", or how the outer call ended
    result,          \* node |-> what process() has returned to the outer loop
    inner,           \* call |-> where its inner loop is, or how it ended
    step,            \* call |-> inner supersteps finished
    sub,             \* call |-> events sent and not yet forwarded
    forwarder,       \* call |-> "none", "up" or "down"
    stream,          \* sender |-> its events in the consumer's channel, in order
    listening,       \* whether the consumer holds its receiver
    ended,           \* the consumer's recv() has returned None
    cancel,          \* the watch flag, shared with the inner calls
    sent             \* history: every event of a call that passed its filter,
                     \* for as long as the consumer listens

calls == <<inner, step, sub, forwarder, sent>>
consumer == <<stream, listening, ended>>
vars == <<outer, result, calls, consumer, cancel>>

Busy == {"node", "emitted"}
Alive(k) == inner[k] \in {"top", "saving"} \cup Busy
Over == outer \in {"done", "parent", "interrupted", "err", "dropped"}

-----------------------------------------------------------------------------
(* Sending.  A send to a channel without receiver is dropped.              *)

Event(kind, n) == [kind |-> kind, n |-> n]

\* send_if_active with the default modes.
IfActive(kind, n) ==
    IF kind \in DefaultSet \cup {"None"} THEN <<Event(kind, n)>> ELSE <<>>

SubSend(k, events) ==
    /\ sent' = IF listening THEN [sent EXCEPT ![k] = @ \o events] ELSE sent
    /\ sub' = [sub EXCEPT ![k] = IF forwarder[k] = "up" THEN @ \o events ELSE @]

OuterSend(events) ==
    /\ stream' = IF listening THEN [stream EXCEPT ![Outer] = @ \o events] ELSE stream
    /\ UNCHANGED <<listening, ended>>

-----------------------------------------------------------------------------
(* The outer loop and its runner.                                          *)

\* process(): a fresh channel, its forwarder, and invoke on a thread of its own.
Process(S) ==
    /\ inner' = [k \in Call |-> IF k \in S THEN "top" ELSE inner[k]]
    /\ forwarder' = [k \in Call |-> IF k \in S THEN "up" ELSE forwarder[k]]
    /\ UNCHANGED <<step, sub, sent>>

Begin ==
    /\ outer = "start" /\ ~cancel
    /\ outer' = "run"
    /\ OuterSend(IfActive("Debug", 0))
    /\ Process({<<s, 1>> : s \in Sub})
    /\ UNCHANGED <<result, cancel>>

Cancelled ==
    /\ outer = "start" /\ cancel
    /\ outer' = "interrupted"
    /\ UNCHANGED <<result, calls, consumer, cancel>>

\* Done becomes an Update, Interrupted a Command for the parent graph.
Answered(k) ==
    /\ outer = "run" /\ inner[k] \in {"done", "interrupted"} /\ result[k[1]] = "none"
    /\ result' = [result EXCEPT ![k[1]] = IF inner[k] = "done" THEN "update" ELSE "parent"]
    /\ UNCHANGED <<outer, calls, consumer, cancel>>

\* A retryable error of invoke: process() is called again, while the first
\* call's forwarder may still be busy.
Retry(k) ==
    /\ outer = "run" /\ inner[k] = "retryable" /\ k[2] < MaxAttempts
    /\ inner[<<k[1], k[2] + 1>>] = "none"
    /\ Process({<<k[1], k[2] + 1>>})
    /\ UNCHANGED <<outer, result, consumer, cancel>>

\* The first error aborts the other tasks; they are dropped at their next await.
Fails(k) ==
    /\ outer = "run"
    /\ inner[k] \in IF k[2] = MaxAttempts THEN {"fatal", "retryable"} ELSE {"fatal"}
    /\ outer' = "err"
    /\ UNCHANGED <<result, calls, consumer, cancel>>

\* The caller gives up the outer call.
Dropped ==
    /\ outer \in {"run", "top"}
    /\ outer' = "dropped"
    /\ UNCHANGED <<result, calls, consumer, cancel>>

DropInner(k) ==
    /\ Over /\ Alive(k)
    /\ inner' = [inner EXCEPT ![k] = "dropped"]
    /\ UNCHANGED <<outer, result, step, sub, forwarder, sent, consumer, cancel>>

Answers == \A s \in Sub : result[s] # "none"
Parents == {s \in Sub : result[s] = "parent"}

\* All tasks are joined: the updates are announced (as one) and merged.
\* A Command for the parent ends the call with Done, and no Done event.
CollectParent ==
    /\ outer = "run" /\ Answers /\ Parents # {}
    /\ outer' = "parent"
    /\ OuterSend(IF Parents = Sub THEN <<>> ELSE IfActive("Updates", 1) \o IfActive("Debug", 1))
    /\ UNCHANGED <<result, calls, cancel>>

Collect ==
    /\ outer = "run" /\ Answers /\ Parents = {}
    /\ outer' = "top"
    /\ OuterSend(IfActive("Updates", 1) \o IfActive("Debug", 1)
                 \o IfActive("Values", 1) \o IfActive("Checkpoints", 1))
    /\ UNCHANGED <<result, calls, cancel>>

Finish ==
    /\ outer = "top"
    /\ outer' = "done"
    /\ OuterSend(IfActive("None", 2))
    /\ UNCHANGED <<result, calls, cancel>>

-----------------------------------------------------------------------------
(* The inner loop.                                                         *)

Moves(k, from, to) ==
    /\ inner[k] \in from
    /\ inner' = [inner EXCEPT ![k] = to]
    /\ UNCHANGED <<outer, result, forwarder, consumer, cancel>>

InnerFinish(k) ==
    /\ step[k] = Steps[k[1]]
    /\ Moves(k, {"top"}, "done")
    /\ SubSend(k, IfActive("None", step[k]))
    /\ UNCHANGED step

InnerCancelled(k) ==
    /\ step[k] < Steps[k[1]] /\ cancel
    /\ Moves(k, {"top"}, "interrupted")
    /\ UNCHANGED <<step, sub, sent>>

InnerStart(k) ==
    /\ step[k] < Steps[k[1]] /\ ~cancel
    /\ Moves(k, {"top"}, "node")
    /\ SubSend(k, IfActive("Debug", step[k]))
    /\ UNCHANGED step

\* ctx.emit sends without asking for the modes.
Emit(k) ==
    /\ k[1] \in Emitters
    /\ Moves(k, {"node"}, "emitted")
    /\ SubSend(k, <<Event("Custom", step[k])>>)
    /\ UNCHANGED step

NodesReturn(k) ==
    /\ "ok" \in Ends[k[1]]
    /\ Moves(k, Busy, "saving")
    /\ SubSend(k, IfActive("Updates", step[k]) \o IfActive("Debug", step[k]))
    /\ UNCHANGED step

NodesFail(k) ==
    /\ \E how \in Ends[k[1]] \ {"ok"} :
        Moves(k, Busy, IF how = "interrupt" THEN "interrupted" ELSE how)
    /\ UNCHANGED <<step, sub, sent>>

Saved(k) ==
    /\ Moves(k, {"saving"}, "top")
    /\ SubSend(k, IfActive("Values", step[k]) \o IfActive("Checkpoints", step[k]))
    /\ step' = [step EXCEPT ![k] = @ + 1]

Inner(k) == \/ InnerFinish(k) \/ InnerCancelled(k) \/ InnerStart(k) \/ Emit(k)
            \/ NodesReturn(k) \/ NodesFail(k) \/ Saved(k)

-----------------------------------------------------------------------------
(* The forwarders and the consumer.                                        *)

\* Mutant of Sendable: the newest event is taken first.
Newest(events) == Len(events)
\* The position of the event recv() returns.
Sendable(events) == 1

Without(events, i) == SubSeq(events, 1, i - 1) \o SubSeq(events, i + 1, Len(events))

\* recv, wrap and send: nothing is awaited in between.
Forward(k) ==
    /\ forwarder[k] = "up" /\ sub[k] # <<>> /\ listening
    /\ LET i == Sendable(sub[k]) IN
        /\ stream' = [stream EXCEPT ![k] = Append(@, sub[k][i])]
        /\ sub' = [sub EXCEPT ![k] = Without(@, i)]
    /\ UNCHANGED <<outer, result, inner, step, forwarder, sent, listening, ended, cancel>>

\* send() fails: the forwarder breaks, and its receiver is dropped.
ForwarderBreaks(k) ==
    /\ forwarder[k] = "up" /\ sub[k] # <<>> /\ ~listening
    /\ forwarder' = [forwarder EXCEPT ![k] = "down"]
    /\ sub' = [sub EXCEPT ![k] = <<>>]
    /\ UNCHANGED <<outer, result, inner, step, sent, consumer, cancel>>

\* Mutants of Drained: recv() ends with the call, whatever is queued; a sender
\* that is never dropped keeps recv() waiting.
CallEnded(k) == ~Alive(k)
NeverDrained(k) == FALSE
\* recv() is None once every sender is dropped and the queue is empty.
Drained(k) == ~Alive(k) /\ sub[k] = <<>>

ForwarderEnds(k) ==
    /\ forwarder[k] = "up" /\ Drained(k)
    /\ forwarder' = [forwarder EXCEPT ![k] = "down"]
    /\ UNCHANGED <<outer, result, inner, step, sub, sent, consumer, cancel>>

\* The consumer drops its receiver, and what is in the channel with it.
Leave ==
    /\ listening /\ ~ended
    /\ listening' = FALSE
    /\ stream' = [k \in DOMAIN stream |-> <<>>]
    /\ sent' = [k \in Call |-> <<>>]
    /\ UNCHANGED <<outer, result, inner, step, sub, forwarder, ended, cancel>>

\* Senders are held by the caller's config until its call is over, by the
\* contexts of the calls, and by the forwarders.
Closed == Over /\ \A k \in Call : ~Alive(k) /\ forwarder[k] # "up"

\* Having received all that is in the channel, recv() returns None.
SeesEnd ==
    /\ listening /\ ~ended /\ Closed
    /\ ended' = TRUE
    /\ UNCHANGED <<outer, result, calls, stream, listening, cancel>>

Cancel ==
    /\ ~Over /\ ~cancel
    /\ cancel' = TRUE
    /\ UNCHANGED <<outer, result, calls, consumer>>

Terminated == Over /\ UNCHANGED vars

-----------------------------------------------------------------------------
Init ==
    /\ outer = "start" /\ result = [s \in Sub |-> "none"]
    /\ inner = [k \in Call |-> "none"] /\ step = [k \in Call |-> 0]
    /\ sub = [k \in Call |-> <<>>] /\ forwarder = [k \in Call |-> "none"]
    /\ stream = [k \in Call \cup {Outer} |-> <<>>] /\ listening = TRUE /\ ended = FALSE
    /\ cancel = FALSE
    /\ sent = [k \in Call |-> <<>>]

OuterStep ==
    \/ Begin \/ Cancelled \/ CollectParent \/ Collect \/ Finish
    \/ \E k \in Call : Answered(k) \/ Retry(k) \/ Fails(k)

Forwarder(k) == Forward(k) \/ ForwarderBreaks(k) \/ ForwarderEnds(k)

Next ==
    \/ OuterStep \/ Dropped \/ Cancel
    \/ \E k \in Call : Inner(k) \/ DropInner(k) \/ Forwarder(k)
    \/ Leave \/ SeesEnd
    \/ Terminated

Spec == Init /\ [][Next]_vars

\* The runtime keeps polling the outer call, the inner calls and the spawned
\* forwarders; inner nodes end; a consumer that stays keeps reading.  Each call
\* has finitely many steps, so fairness to all of them together is enough.
Fairness ==
    /\ WF_vars(OuterStep)
    /\ WF_vars(\E k \in Call : Inner(k) \/ DropInner(k))
    /\ WF_vars(\E k \in Call : Forwarder(k))
    /\ WF_vars(SeesEnd)

FairSpec == Spec /\ Fairness

-----------------------------------------------------------------------------
(* Properties.                                                             *)

\* While the consumer stays, no event of an inner call is lost, doubled or
\* overtaken on its way: not by a sibling, a retry, an error or an abort of
\* the call that sent it (SubgraphNode's forwarder).
EventsConserved ==
    listening => \A k \in Call : stream[k] \o sub[k] = sent[k]

\* The end of the stream means the end: a consumer that has seen it has seen
\* every event of every inner call, those of aborted and retried ones too.
EndIsComplete ==
    ended => \A k \in Call : stream[k] = sent[k]

\* However the outer call ends, the stream of a consumer that stays is closed:
\* no forwarder is left behind holding it open.
StreamCloses == Over ~> ended \/ ~listening

\* "The subgraph's interrupt bubbles up to the parent graph" (subgraph.rs:85):
\* an outer call is not reported as Done when an inner one was interrupted.
InterruptSurfaces == outer \in {"done", "parent"} => \A k \in Call : inner[k] # "interrupted"
=============================================================================
