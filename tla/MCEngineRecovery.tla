-------------------------- MODULE MCEngineRecovery --------------------------
(* Small instances of EngineRecovery for TLC: two orders, one caller of the *)
(* gateway, two or three lives of the process.  Time stands still.          *)
EXTENDS EngineRecovery, TLC

CONSTANTS o1, o2, t1, none, noSnapshot

TwoOrders == {o1, o2}
OneTask   == {t1}
NoOrders  == {}
JustO2    == {o2}
NoFaults  == {}
SaveFault == {"save"}
BootFault == {"boot"}
=============================================================================
