--------------------------- MODULE MCKlineFetcher ---------------------------
(***************************************************************************)
(* KlineFetcher on a few bars: two goroutines of one process.              *)
(***************************************************************************)
EXTENDS KlineFetcher

CONSTANTS j1, j2, p1

SameProc  == [j \in {j1, j2} |-> p1]
OneBack   == [iv \in Intervals |-> 1]
HourlyDaily == <<"1h", "1d">>
Hourly      == {"1h"}
=============================================================================
