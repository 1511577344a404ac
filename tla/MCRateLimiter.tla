---------------------------- MODULE MCRateLimiter ----------------------------
(* Small instances of RateLimiter for TLC.  A token is 3 credits, so that a *)
(* rate of 2 a tick leaves remainders; the burst is two tokens.             *)
EXTENDS RateLimiter, TLC

CONSTANTS c1, c2, c3

ThreeCallers == {c1, c2, c3}

RestAndFix   == {"rest", "fixed"}
NoBucket     == {}
TwoRates     == ("rest" :> 2) @@ ("fixed" :> 0)
=============================================================================
