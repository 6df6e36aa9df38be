--------------------------- MODULE MCTradeReplay ---------------------------
(* The prices of the instance: from below the stop to the target of the      *)
(* second leg.                                                               *)
EXTENDS TradeReplay

MCLevels == -3..6
=============================================================================
