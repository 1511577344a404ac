--------------------------- MODULE MCMaskPipeline ---------------------------
(* A small instance of MaskPipeline for TLC: vectors of a few bits, the last *)
(* of which is in no whole block, and a file of three masks to begin with.  *)
EXTENDS MaskPipeline, TLC

ByteValues   == [b \in 1..Bits |-> IF b % 2 = 0 THEN 1 ELSE 2]
BothBuilds   == {"portable", "avx512"}
Scores       == {0, 60}
Shipped      == << [mask |-> {},        threshold |-> 72],
                   [mask |-> {1, 2},    threshold |-> 72],
                   [mask |-> {1, Bits}, threshold |-> 90] >>
=============================================================================
