--------------------------- MODULE MCMarketWatch ---------------------------
(***************************************************************************)
(* Instances of MarketWatch for TLC.                                       *)
(***************************************************************************)
EXTENDS MarketWatch
=============================================================================
