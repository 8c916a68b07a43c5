--------------------------- MODULE ParallelTasks ---------------------------
(***************************************************************************)
(* What a superstep expects of the parallel runner: of the tasks it hands  *)
(* over, either every one has its one result kept, or the call fails and   *)
(* all results are dropped.  Retries, timeouts, the semaphore and the      *)
(* order of completion do not show.                                        *)
(***************************************************************************)
EXTENDS Naturals

VARIABLES
    open,            \* tasks begun whose result is not yet kept
    booked,          \* tasks whose result is kept
    verdict          \* "idle", "running", "ok" or "err"

vars == <<open, booked, verdict>>

Init == open = {} /\ booked = {} /\ verdict = "idle"

Begin ==
    /\ verdict = "idle"
    /\ open' # {} /\ open' \subseteq Nat
    /\ booked' = {} /\ verdict' = "running"

\* The result of one task is kept, once.
Book ==
    /\ verdict = "running"
    /\ \E t \in open : open' = open \ {t} /\ booked' = booked \cup {t}
    /\ UNCHANGED verdict

Succeed ==
    /\ verdict = "running" /\ open = {}
    /\ verdict' = "ok"
    /\ UNCHANGED <<open, booked>>

\* The first error, or the end of the caller, leaves the other tasks behind.
Fail ==
    /\ verdict = "running"
    /\ open' = {} /\ booked' = {} /\ verdict' = "err"

\* A task names no registered node: the call fails before any result.
Refuse ==
    /\ verdict = "idle"
    /\ verdict' = "err"
    /\ UNCHANGED <<open, booked>>

\* The caller has taken the results.
Collect ==
    /\ verdict = "ok"
    /\ booked' = {} /\ verdict' = "idle"
    /\ UNCHANGED open

Next == Begin \/ Book \/ Succeed \/ Fail \/ Refuse \/ Collect

Spec == Init /\ [][Next]_vars
=============================================================================
