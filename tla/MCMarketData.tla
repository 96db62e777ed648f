----------------------------- MODULE MCMarketData -----------------------------
(***************************************************************************)
(* Instances of MarketData.                                                *)
(***************************************************************************)
EXTENDS MarketData
=============================================================================
