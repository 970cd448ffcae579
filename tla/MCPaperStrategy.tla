-------------------------- MODULE MCPaperStrategy --------------------------
(***************************************************************************)
(* PaperStrategy on four readings of the 4h table: two entries at          *)
(* different prices (the second is also the first rung of the first), a    *)
(* bar beyond its second rung, and a gap through the stop                  *)
(***************************************************************************)
EXTENDS PaperStrategy

Bar(l, s, a) == [last |-> l, stop |-> s, atrTrail |-> a]

Bars4 == {Bar(2, 1, 0), Bar(3, 1, 2), Bar(5, 0, 4), Bar(1, 0, 0)}
=============================================================================
