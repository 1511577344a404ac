----------------------------- MODULE OrderBook -----------------------------
(***************************************************************************)
(* The order book with its quantities and positions (order_book.py,        *)
(* types.py) behind the size limits of the pre-trade risk checks (risk.py).*)
(* ExecutionGateway models who calls it and when; this module models what  *)
(* a registration, a cancel and a fill do to the numbers.  Every operation *)
(* is synchronous, so each is one action; a call that raises changes       *)
(* nothing and is not a step.                                              *)
(*                                                                         *)
(* Quantities and prices are whole numbers of the smallest unit.  An       *)
(* average price is a fraction in lowest terms: the division of            *)
(* Position.apply_fill is exact here, where the code rounds a float.       *)
(***************************************************************************)
EXTENDS Integers, FiniteSets, FiniteSetsExt

CONSTANTS
  Orders,               \* client order ids
  Symbols, SymbolOf,    \* symbols, and the symbol each order is for
  Quantities, Prices,   \* what orders and fills may carry
  MaxOrderNotional,     \* RiskLimits.max_order_notional
  MaxPositionNotional,  \* RiskLimits.max_position_notional
  MaxOpenOrders         \* RiskLimits.max_open_orders

ASSUME BookAssumption ==
  /\ IsFiniteSet(Orders) /\ SymbolOf \in [Orders -> Symbols]
  /\ Quantities \subseteq Nat \ {0} /\ Prices \subseteq Nat \ {0}
  /\ MaxOrderNotional \in Nat /\ MaxPositionNotional \in Nat /\ MaxOpenOrders \in Nat

VARIABLES
  orders,      \* OrderBook._orders; an unknown id has status "absent"
  submitting,  \* orders whose place_order still waits for the venue's answer
  positions,   \* OrderBook._positions; a missing one is flat
  entryPrices  \* history: fill prices that built the position since it was
               \* last flat or changed sides

vars == <<orders, submitting, positions, entryPrices>>

Sides    == {"buy", "sell"}
Statuses == {"absent", "open", "partially_filled", "filled", "cancelled", "rejected"}
Live     == {"open", "partially_filled"}
Terminal == {"filled", "cancelled", "rejected"}

Unknown == [status |-> "absent", side |-> "buy", quantity |-> 0, price |-> 0, filled |-> 0]

Abs(n)          == IF n < 0 THEN -n ELSE n
Signed(side, q) == IF side = "buy" THEN q ELSE -q
OpenOrders      == {o \in Orders : orders[o].status \in Live}
Remaining(o)    == orders[o].quantity - orders[o].filled

(* A fraction num/den in lowest terms; zero has denominator one.            *)
Ratio(num, den) ==
  LET g == Max({d \in 1..den : num % d = 0 /\ den % d = 0})
  IN  [num |-> num \div g, den |-> den \div g]
Zero == Ratio(0, 1)

-----------------------------------------------------------------------------
(* Position.apply_fill: the average after a fill of q at p on position pos. *)

\* Mutant of AverageAfter: a reducing fill moves the average as well.
MutAverageAfter(pos, side, q, p) ==
  LET new == Abs(pos.quantity + Signed(side, q))
  IN  IF new = 0 THEN Zero
      ELSE Ratio(pos.average.num * Abs(pos.quantity) + p * q * pos.average.den,
                 new * pos.average.den)

\* Mutant of AverageAfter: total_cost takes the signed position.
MutAverageSigned(pos, side, q, p) ==
  IF pos.quantity = 0 \/ (pos.quantity > 0 <=> side = "buy")
  THEN Ratio(pos.average.num * pos.quantity + p * q * pos.average.den,
             Abs(pos.quantity + Signed(side, q)) * pos.average.den)
  ELSE pos.average

AverageAfter(pos, side, q, p) ==
  LET delta == Signed(side, q)
      new   == pos.quantity + delta
  IN  IF pos.quantity = 0 \/ (pos.quantity > 0 <=> delta > 0)
      THEN Ratio(pos.average.num * Abs(pos.quantity) + p * q * pos.average.den,
                 Abs(new) * pos.average.den)
      ELSE IF q >= Abs(pos.quantity)
      THEN IF new # 0 THEN Ratio(p, 1) ELSE Zero
      ELSE pos.average

\* Mutant of PositionAfter: the side of the fill is lost.
MutPositionAfter(pos, side, q, p) ==
  [quantity |-> pos.quantity + q, average |-> AverageAfter(pos, side, q, p)]

PositionAfter(pos, side, q, p) ==
  [quantity |-> pos.quantity + Signed(side, q),
   average  |-> AverageAfter(pos, side, q, p)]

(* History: the prices that still count towards the average.                *)
EntriesAfter(entries, pos, side, q, p) ==
  LET delta == Signed(side, q)
  IN  IF pos.quantity = 0 \/ (pos.quantity > 0 <=> delta > 0) THEN entries \cup {p}
      ELSE IF q > Abs(pos.quantity) THEN {p}
      ELSE IF q = Abs(pos.quantity) THEN {}
      ELSE entries

-----------------------------------------------------------------------------
(* RiskManager.check_order: the limits on the order and on the position it  *)
(* would lead to.  Orders that are open but not filled do not count.        *)

\* Mutant of Projected: the position the symbol already has is left out.
MutProjected(o, side, q, p) == q * p

Projected(o, side, q, p) == Abs((positions[SymbolOf[o]].quantity + Signed(side, q)) * p)

Allowed(o, side, q, p) == /\ q * p <= MaxOrderNotional
                          /\ Cardinality(OpenOrders) < MaxOpenOrders
                          /\ Projected(o, side, q, p) <= MaxPositionNotional

(* register_order, once the checks have passed; the POST goes out.          *)
RegisterOrder(o, side, q, p) ==
  /\ orders[o].status = "absent"
  /\ Allowed(o, side, q, p)
  /\ orders' = [orders EXCEPT ![o] =
       [status |-> "open", side |-> side, quantity |-> q, price |-> p, filled |-> 0]]
  /\ submitting' = submitting \cup {o}
  /\ UNCHANGED <<positions, entryPrices>>

\* Mutant of IsLive: the terminal check misses CANCELLED.
MutIsLive(o) == orders[o].status \in Live \cup {"cancelled"}

(* Known and not is_terminal.                                               *)
IsLive(o) == orders[o].status \in Live

CancelOrder(o) == /\ IsLive(o)
                  /\ orders' = [orders EXCEPT ![o].status = "cancelled"]
                  /\ UNCHANGED <<submitting, positions, entryPrices>>

(* How ExecutionGateway.place_order goes on when submit_order has returned  *)
(* or timed out: it leaves the book alone.                                  *)
SubmitReturns(o) == /\ o \in submitting
                    /\ submitting' = submitting \ {o}
                    /\ UNCHANGED <<orders, positions, entryPrices>>

(* And when submit_order raised RuntimeError: the status is set without a   *)
(* look at what it is by now.                                               *)
RejectOrder(o) == /\ o \in submitting
                  /\ submitting' = submitting \ {o}
                  /\ orders' = [orders EXCEPT ![o].status = "rejected"]
                  /\ UNCHANGED <<positions, entryPrices>>

FillQuantity(o, q) == Min({q, Remaining(o)})

\* Mutant of StatusAfter: > instead of >=.
MutStatusAfter(o, filled) ==
  IF filled > orders[o].quantity THEN "filled" ELSE "partially_filled"

StatusAfter(o, filled) ==
  IF filled >= orders[o].quantity THEN "filled" ELSE "partially_filled"

(* apply_fill of quantity q at price p; the fill carries the order's symbol *)
(* (the code checks) and side (it does not).  A fill larger than what is    *)
(* left of the order counts only for the rest.                              *)
ApplyFill(o, q, p) ==
  LET sym    == SymbolOf[o]
      side   == orders[o].side
      fq     == FillQuantity(o, q)
      filled == orders[o].filled + fq
  IN  /\ IsLive(o) /\ fq > 0
      /\ orders' = [orders EXCEPT ![o].filled = filled,
                                  ![o].status = StatusAfter(o, filled)]
      /\ positions' = [positions EXCEPT ![sym] = PositionAfter(@, side, fq, p)]
      /\ entryPrices' =
           [entryPrices EXCEPT ![sym] = EntriesAfter(@, positions[sym], side, fq, p)]
      /\ UNCHANGED submitting

-----------------------------------------------------------------------------
Init == /\ orders = [o \in Orders |-> Unknown]
        /\ submitting = {}
        /\ positions = [s \in Symbols |-> [quantity |-> 0, average |-> Zero]]
        /\ entryPrices = [s \in Symbols |-> {}]

Next == \E o \in Orders :
          \/ \E side \in Sides, q \in Quantities, p \in Prices : RegisterOrder(o, side, q, p)
          \/ CancelOrder(o) \/ SubmitReturns(o) \/ RejectOrder(o)
          \/ \E q \in Quantities, p \in Prices : ApplyFill(o, q, p)

Spec == Init /\ [][Next]_vars

-----------------------------------------------------------------------------
(* Properties                                                               *)

(* Orders and positions keep their shape; a fraction's denominator is       *)
(* positive.                                                                *)
TypeOK ==
  /\ orders \in [Orders -> [status : Statuses, side : Sides, quantity : Nat,
                            price : Nat, filled : Nat]]
  /\ submitting \subseteq Orders
  /\ positions \in [Symbols -> [quantity : Int, average : [num : Nat, den : Nat \ {0}]]]
  /\ entryPrices \in [Symbols -> SUBSET Prices]

(* An order never fills beyond its quantity, and its status tells how far   *)
(* it is filled (order_book.py apply_fill), unless the status was           *)
(* overwritten by a refusal of its submission (gateway.py:51).              *)
FillsMatchStatus ==
  \A o \in Orders :
    LET r == orders[o]
    IN  /\ r.filled <= r.quantity
        /\ r.status = "filled" => r.filled > 0
        /\ r.status \notin {"absent", "rejected"} =>
             (r.filled = r.quantity <=> r.status = "filled")
        /\ r.status \in {"absent", "open"} => r.filled = 0
        /\ r.status = "partially_filled" => r.filled > 0

SignedFills(s) ==
  SumFunctionOnSet([o \in Orders |-> Signed(orders[o].side, orders[o].filled)],
                   {o \in Orders : SymbolOf[o] = s})

(* A position is the signed sum of what the symbol's orders filled: the     *)
(* clamp of apply_fill reaches both sides of the books alike.               *)
PositionsMatchFills == \A s \in Symbols : positions[s].quantity = SignedFills(s)

(* The average price is zero exactly when the position is flat, and lies    *)
(* within the prices of the fills that built the position since it was last *)
(* flat or changed sides (types.py Position.apply_fill).                    *)
AverageWithinEntries ==
  \A s \in Symbols :
    LET a == positions[s].average
    IN  IF positions[s].quantity = 0 THEN a = Zero
        ELSE /\ a.num >= Min(entryPrices[s]) * a.den
             /\ a.num <= Max(entryPrices[s]) * a.den

(* The position if every open order of one side filled and none of the      *)
(* other.                                                                   *)
WorstCase(s, side) ==
  Signed(side, positions[s].quantity)
    + SumFunctionOnSet([o \in Orders |-> Remaining(o)],
                       {o \in OpenOrders : SymbolOf[o] = s /\ orders[o].side = side})

(* check_order ignores orders that are open, but not without bound: the     *)
(* position can never pass the position limit by more than the largest      *)
(* order the limits allow for every other open slot.                        *)
ExposureBounded ==
  LET cheapest == Min(Prices)
  IN  \A s \in Symbols, side \in Sides :
        WorstCase(s, side) <= MaxPositionNotional \div cheapest
           + (MaxOpenOrders - 1) * Min({MaxOrderNotional \div cheapest, Max(Quantities)})

(* A terminal order never trades again (order_book.py raises on every       *)
(* attempt to cancel or fill it), and only the late answer of its own POST  *)
(* may still change its status, to REJECTED (gateway.py:51).                *)
TerminalTradesNoMore ==
  [][\A o \in Orders : orders[o].status \in Terminal =>
       \/ orders'[o] = orders[o]
       \/ /\ o \in submitting
          /\ orders'[o] = [orders[o] EXCEPT !.status = "rejected"]]_vars

(* A terminal order never changes again, its status included.               *)
TerminalIsFinal ==
  [][\A o \in Orders : orders[o].status \in Terminal => orders'[o] = orders[o]]_vars

(* The position limit itself: at the price of any order that filled, no     *)
(* position is worth more than max_position_notional (risk.py check_order). *)
PositionWithinLimit ==
  \A s \in Symbols : Abs(positions[s].quantity) * Min(Prices) <= MaxPositionNotional
=============================================================================
