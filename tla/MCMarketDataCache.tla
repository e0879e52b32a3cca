------------------------- MODULE MCMarketDataCache --------------------------
(***************************************************************************)
(* A small instance: three tasks, so that two may wait for the lock.       *)
(***************************************************************************)
EXTENDS MarketDataCache

CONSTANTS t1, t2, t3, btc
=============================================================================
