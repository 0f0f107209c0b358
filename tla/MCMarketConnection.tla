------------------------- MODULE MCMarketConnection -------------------------
(* Model-checking instances of MarketConnection.                           *)
EXTENDS MarketConnection

CONSTANTS s1, s2
=============================================================================
