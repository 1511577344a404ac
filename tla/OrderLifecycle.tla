--------------------------- MODULE OrderLifecycle ---------------------------
(***************************************************************************)
(* What the execution gateway promises to the strategies and the operator  *)
(* about an order, without its tasks, its waits or the venue: an order id  *)
(* is accepted at most once and only while trading is not halted and a     *)
(* slot is free; it ends cancelled or rejected and is never opened again;  *)
(* a late refusal by the venue may still turn a cancelled order into a     *)
(* rejected one; the venue acknowledges only orders that were accepted.    *)
(***************************************************************************)
EXTENDS Integers, FiniteSets

CONSTANTS Orders, Recovered, MaxOpenOrders

VARIABLES status, acknowledged, halted

vars == <<status, acknowledged, halted>>

OpenIn(s) == {o \in Orders : s[o] = "open"}

Init == /\ status = [o \in Orders |-> IF o \in Recovered THEN "open" ELSE "absent"]
        /\ acknowledged = Recovered
        /\ halted \in BOOLEAN

(* Order o becomes open, s being the statuses just before.                  *)
Open(o, s) == /\ ~halted
              /\ s[o] = "absent"
              /\ Cardinality(OpenIn(s)) < MaxOpenOrders
              /\ status' = [s EXCEPT ![o] = "open"]

Accept(o) == Open(o, status) /\ UNCHANGED <<acknowledged, halted>>

Cancel(o) == /\ status[o] = "open"
             /\ status' = [status EXCEPT ![o] = "cancelled"]
             /\ UNCHANGED <<acknowledged, halted>>

(* An order is replaced in one step: the old one closes, the new one opens. *)
Replace(o, n) == /\ status[o] = "open"
                 /\ Open(n, [status EXCEPT ![o] = "cancelled"])
                 /\ UNCHANGED <<acknowledged, halted>>

Reject(o) == /\ status[o] \in {"open", "cancelled"}
             /\ status' = [status EXCEPT ![o] = "rejected"]
             /\ UNCHANGED <<acknowledged, halted>>

Acknowledge(o) == /\ status[o] # "absent"
                  /\ acknowledged' = acknowledged \cup {o}
                  /\ UNCHANGED <<status, halted>>

SetHalted == /\ halted' \in BOOLEAN
             /\ UNCHANGED <<status, acknowledged>>

Next == \/ \E o \in Orders : \/ Accept(o) \/ Cancel(o) \/ Reject(o)
                             \/ Acknowledge(o)
                             \/ \E n \in Orders : Replace(o, n)
        \/ SetHalted

Spec == Init /\ [][Next]_vars
=============================================================================
