---------------------------- MODULE OrderCustody ----------------------------
(***************************************************************************)
(* What the engine promises an operator who restarts it: at every moment   *)
(* one process, or none, is in charge of a set of open orders, of what the *)
(* exchange calls them and of the kill switch.  What it took down at some  *)
(* one moment of its life may become what is stored, late and out of       *)
(* order; nothing else does.  A successor takes over exactly what is       *)
(* stored, all of it or, if it could not be read, nothing.                 *)
(***************************************************************************)
EXTENDS Integers, FiniteSets

CONSTANTS
  Orders,
  NoSnapshot,      \* nothing has been stored yet
  MaxOpenOrders,
  MayMissStored    \* what is stored may be out of reach at the start

VARIABLES
  alive,     \* a process is in charge
  charge,    \* what it is in charge of
  taken,     \* what it took down and has not given up storing
  stored

vars == <<alive, charge, taken, stored>>

Charges == [orders : SUBSET Orders, ids : SUBSET Orders, kill : BOOLEAN]
Nothing == [orders |-> {}, ids |-> {}, kill |-> FALSE]

Init == ~alive /\ charge = Nothing /\ taken = {} /\ stored = NoSnapshot

(* Orders come one at a time, while there is room and the kill switch is    *)
(* not engaged; an order that stays keeps its name at the exchange.         *)
Work ==
  /\ alive
  /\ charge' \in Charges
  /\ charge'.ids \subseteq charge'.orders
  /\ charge.ids \cap charge'.orders \subseteq charge'.ids
  /\ \/ charge'.orders \subseteq charge.orders
     \/ /\ ~charge.kill
        /\ \E o \in Orders \ charge.orders : charge'.orders \subseteq charge.orders \cup {o}
        /\ Cardinality(charge'.orders) <= MaxOpenOrders
  /\ UNCHANGED <<alive, taken, stored>>

(* What was taken down earlier may be given up.                             *)
TakeDown == /\ alive
            /\ charge \in taken' /\ taken' \subseteq taken \cup {charge}
            /\ UNCHANGED <<alive, charge, stored>>

GiveUp == taken' \subseteq taken /\ UNCHANGED <<alive, charge, stored>>

Store == /\ stored' \in taken
         /\ taken' \subseteq taken
         /\ UNCHANGED <<alive, charge>>

Die == /\ alive /\ ~alive'
       /\ charge' = Nothing /\ taken' = {}
       /\ UNCHANGED stored

TakeOver == /\ ~alive /\ alive'
            /\ \/ stored # NoSnapshot /\ charge' = stored
               \/ (stored = NoSnapshot \/ MayMissStored) /\ charge' = Nothing
            /\ UNCHANGED <<taken, stored>>

Next == Work \/ TakeDown \/ GiveUp \/ Store \/ Die \/ TakeOver

Spec == Init /\ [][Next]_vars
=============================================================================
