---------------------------- MODULE MCMarketView ----------------------------
(* Two symbols, one of them with an interval that has no rows. *)
EXTENDS MarketView

MCViews     == {"a 1d", "b 1d", "b 4h"}
MCSymbols   == {"a", "b"}
MCSymbolOf  == [v \in MCViews |-> IF v = "a 1d" THEN "a" ELSE "b"]
MCWithRows  == {"a 1d", "b 1d"}
MCFirstView == "a 1d"
=============================================================================
