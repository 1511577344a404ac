----------------------------- MODULE SignalBus -----------------------------
(***************************************************************************)
(* What the signal bus promises (strategy/bus.py): "Higher priority        *)
(* signals are executed first; FIFO within same priority."  A signal is    *)
(* delivered when none more urgent waits and none of its own priority that *)
(* was there before it; nobody who comes later can get in between, and a   *)
(* signal is delivered once.  No sequence numbers, and no router.          *)
(***************************************************************************)
EXTENDS Integers

CONSTANTS Signals, PriorityOf

VARIABLES
  waiting,    \* accepted and not yet delivered
  ahead,      \* per signal, those of its priority it still waits for
  delivered

vars == <<waiting, ahead, delivered>>

Init == /\ waiting = {} /\ delivered = {}
        /\ ahead = [s \in Signals |-> {}]

Accept(s) ==
  /\ s \notin waiting \cup delivered
  /\ waiting' = waiting \cup {s}
  /\ ahead' = [ahead EXCEPT ![s] = {t \in waiting : PriorityOf[t] = PriorityOf[s]}]
  /\ UNCHANGED delivered

Deliver(s) ==
  /\ s \in waiting /\ ahead[s] = {}
  /\ \A t \in waiting : PriorityOf[t] <= PriorityOf[s]
  /\ waiting' = waiting \ {s} /\ delivered' = delivered \cup {s}
  /\ ahead' = [t \in Signals |-> ahead[t] \ {s}]

Next == \E s \in Signals : Accept(s) \/ Deliver(s)

Spec == Init /\ [][Next]_vars
=============================================================================
