--------------------------- MODULE MCFilterCache ---------------------------
(* A small instance of FilterCache for TLC: three orders ask for filters,   *)
(* one of them the router's, while a symbol comes and goes.                 *)
EXTENDS FilterCache, TLC

CONSTANTS c1, c2, c3, none, btc

ThreeCalls == {c1, c2, c3}
Router     == {c1}
OneSymbol  == {btc}
=============================================================================
