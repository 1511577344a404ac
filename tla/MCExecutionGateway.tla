------------------------- MODULE MCExecutionGateway -------------------------
(* Small instances of ExecutionGateway for TLC.                             *)
EXTENDS ExecutionGateway, TLC

CONSTANTS o1, o2, o3, t1, t2

TwoOrders   == {o1, o2}
ThreeOrders == {o1, o2, o3}
TwoTasks    == {t1, t2}
OneTask     == {t1}
NoOrders    == {}
JustO3      == {o3}
JustO1      == {o1}
NoFaults    == {}
Refusals    == {"cancel_refused"}

\* Sound only where no order is singled out (Recovered and Oversized empty).
OrderTaskSymmetry == Permutations(Orders) \cup Permutations(Tasks)
=============================================================================
