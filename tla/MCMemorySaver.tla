--------------------------- MODULE MCMemorySaver ---------------------------
(***************************************************************************)
(* MemorySaver for TLC: two callers of one thread.                         *)
(***************************************************************************)
EXTENDS MemorySaver

CONSTANTS u1, u2

MCCaller == {u1, u2}
MCSpawner == {u2}
MCDeferrer == {u1}
MCDeleter == {u1}
=============================================================================
