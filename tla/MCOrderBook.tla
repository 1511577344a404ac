---------------------------- MODULE MCOrderBook ----------------------------
(* Small instances of OrderBook for TLC: three orders on one symbol.        *)
EXTENDS OrderBook, TLC

CONSTANTS o1, o2, o3, btc

ThreeOrders == {o1, o2, o3}
OneSymbol   == {btc}
AllBtc      == [o \in ThreeOrders |-> btc]
OneTwo      == {1, 2}
OneThree    == {1, 3}
JustOne     == {1}
=============================================================================
