---------------------------- MODULE MCMemoryQueue ----------------------------
(* MemoryQueue with 4-bit integers: the ring overflows beyond 7 slots. *)
EXTENDS MemoryQueue, TLC

CONSTANTS a, b, blank
TwoItems == {a, b, blank}
Few == {0, 1, 3, 7}
=============================================================================
