-------------------------- MODULE PositionLadder --------------------------
(***************************************************************************)
(* What the strategy promises about a position (strategies/                *)
(* spot_btc_conservative_v1/README.md): it is bought once, 40% is sold at  *)
(* 1R, 30% more at 2R, and the rest leaves in one exit, which comes.  The  *)
(* promise ends with the first failure (Lose).                             *)
(***************************************************************************)
EXTENDS Integers

CONSTANT Part(_, _)   \* Part(q, t): t tenths of q

VARIABLES
  known,      \* no failure so far
  qty, left   \* quantity bought (0: flat) and what is left of it

vars == <<known, qty, left>>

Init == known = TRUE /\ qty = 0 /\ left = 0

Buy == /\ qty = 0
       /\ qty' \in Nat \ {0}
       /\ left' = qty'

Sell40 == /\ qty > 0 /\ left = qty
          /\ left' = left - Part(qty, 4)
          /\ UNCHANGED qty

Sell30 == /\ qty > 0 /\ left = qty - Part(qty, 4)
          /\ left' = left - Part(qty, 3)
          /\ UNCHANGED qty

Exit == /\ known /\ qty > 0
        /\ qty' = 0 /\ left' = 0
        /\ UNCHANGED known

Trade == known /\ UNCHANGED known /\ (Buy \/ Sell40 \/ Sell30)

Lose == /\ known
        /\ known' = FALSE
        /\ qty' = 0 /\ left' = 0

Next == Trade \/ Exit \/ Lose

Spec == Init /\ [][Next]_vars /\ WF_vars(Exit)
=============================================================================
