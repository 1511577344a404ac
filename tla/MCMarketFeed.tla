---------------------------- MODULE MCMarketFeed ----------------------------
(* Small instances of MarketFeed for TLC: two clients come and go.          *)
EXTENDS MarketFeed, TLC

CONSTANTS c1, c2, redis

TwoClients == {c1, c2}
=============================================================================
