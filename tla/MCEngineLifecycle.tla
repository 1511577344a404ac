------------------------- MODULE MCEngineLifecycle -------------------------
(* Small instances of EngineLifecycle for TLC: two urgencies, two sources,  *)
(* and order ids two of which collide, or all of which differ.              *)
EXTENDS EngineLifecycle, TLC

CONSTANTS s1, s2, s3, srcA, srcB, NoSig, id1, id2, id3

ThreeSignals  == {s1, s2, s3}
TwoSources    == {srcA, srcB}
Origins       == [s \in Signals |-> IF s \in {s1, s2} THEN srcA ELSE srcB]
Priorities    == [s \in Signals |-> IF s = s3 THEN 10 ELSE 0]
DistinctIds   == [s \in Signals |-> CASE s = s1 -> id1 [] s = s2 -> id2 [] s = s3 -> id3]
CollidingIds  == [s \in Signals |-> IF s \in {s1, s3} THEN id1 ELSE DistinctIds[s]]
BothHooks     == {"start", "stop"}
NoHooks       == {}
=============================================================================
