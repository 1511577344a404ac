-------------------------- MODULE OrderBookProofs --------------------------
(***************************************************************************)
(* Theorems about OrderBook, for every set of orders, every quantity and   *)
(* price and every limit.                                                  *)
(***************************************************************************)
EXTENDS OrderBook, SumTheorems, FiniteSetTheorems, WellFoundedInduction, TLAPS

(* The library's Min on a pair of whole numbers.                            *)
LEMMA MinOfPair ==
  ASSUME NEW a \in Int, NEW b \in Int
  PROVE  /\ Min({a, b}) \in {a, b}
         /\ Min({a, b}) <= a /\ Min({a, b}) <= b
<1>1. \E x \in {a, b} : \A y \in {a, b} : x =< y
  <2>1. CASE a <= b
    BY <2>1
  <2>2. CASE b <= a
    BY <2>2
  <2> QED BY <2>1, <2>2
<1> QED BY <1>1 DEF Min

OrdersTyped == orders \in [Orders -> [status : Statuses, side : Sides, quantity : Nat,
                                      price : Nat, filled : Nat]]

FillInv == OrdersTyped /\ submitting \subseteq Orders /\ FillsMatchStatus

LEMMA InitFillInv == Init => FillInv
<1> SUFFICES ASSUME Init PROVE FillInv
  OBVIOUS
<1>1. OrdersTyped
  BY DEF Init, OrdersTyped, Unknown, Statuses, Sides
<1>2. FillsMatchStatus
  BY DEF Init, FillsMatchStatus, Unknown
<1>3. submitting \subseteq Orders
  BY DEF Init
<1> QED BY <1>1, <1>2, <1>3 DEF FillInv

LEMMA StepFillInv == FillInv /\ [Next]_vars => FillInv'
<1> SUFFICES ASSUME FillInv, [Next]_vars PROVE FillInv'
  OBVIOUS
<1> USE DEF FillInv
<1>1. ASSUME NEW o \in Orders, NEW side \in Sides, NEW q \in Quantities, NEW p \in Prices,
             RegisterOrder(o, side, q, p)
      PROVE  FillInv'
  <2>1. q \in Nat \ {0} /\ p \in Nat
    BY BookAssumption
  <2>2. OrdersTyped'
    BY <1>1, <2>1 DEF RegisterOrder, OrdersTyped, Statuses
  <2>3. FillsMatchStatus'
    BY <1>1, <2>1 DEF RegisterOrder, OrdersTyped, FillsMatchStatus
  <2> QED BY <1>1, <2>2, <2>3 DEF RegisterOrder
<1>2. ASSUME NEW o \in Orders, CancelOrder(o)
      PROVE  FillInv'
  <2>1. OrdersTyped'
    BY <1>2 DEF CancelOrder, OrdersTyped, Statuses
  <2>2. FillsMatchStatus'
    BY <1>2 DEF CancelOrder, IsLive, Live, OrdersTyped, FillsMatchStatus
  <2> QED BY <1>2, <2>1, <2>2 DEF CancelOrder
<1>3. ASSUME NEW o \in Orders, RejectOrder(o)
      PROVE  FillInv'
  <2>1. OrdersTyped'
    BY <1>3 DEF RejectOrder, OrdersTyped, Statuses
  <2>2. FillsMatchStatus'
    BY <1>3 DEF RejectOrder, OrdersTyped, FillsMatchStatus
  <2> QED BY <1>3, <2>1, <2>2 DEF RejectOrder
<1>4. ASSUME NEW o \in Orders, NEW q \in Quantities, NEW p \in Prices, ApplyFill(o, q, p)
      PROVE  FillInv'
  <2> DEFINE filled == orders[o].filled + FillQuantity(o, q)
  <2>1. q \in Int /\ Remaining(o) \in Int
    BY BookAssumption DEF Remaining, OrdersTyped
  <2>2. FillQuantity(o, q) \in Int /\ FillQuantity(o, q) <= Remaining(o)
    <3>1. /\ Min({q, Remaining(o)}) \in {q, Remaining(o)}
          /\ Min({q, Remaining(o)}) <= Remaining(o)
      BY <2>1, MinOfPair
    <3> QED BY <2>1, <3>1 DEF FillQuantity
  <2>3. FillQuantity(o, q) > 0 /\ IsLive(o)
    BY <1>4 DEF ApplyFill
  <2>4. filled \in Nat /\ filled > 0 /\ filled <= orders[o].quantity
    BY <2>2, <2>3 DEF Remaining, OrdersTyped
  <2>5. orders' = [orders EXCEPT ![o].filled = filled,
                                 ![o].status = StatusAfter(o, filled)]
    BY <1>4 DEF ApplyFill
  <2> HIDE DEF filled
  <2>6. OrdersTyped'
    BY <2>4, <2>5 DEF OrdersTyped, StatusAfter, Statuses
  <2>7. FillsMatchStatus'
    BY <2>3, <2>4, <2>5 DEF OrdersTyped, FillsMatchStatus, StatusAfter, IsLive, Live
  <2> QED BY <1>4, <2>6, <2>7 DEF ApplyFill
<1>5. ASSUME NEW o \in Orders, SubmitReturns(o)
      PROVE  FillInv'
  BY <1>5 DEF SubmitReturns, OrdersTyped, FillsMatchStatus
<1>6. CASE UNCHANGED vars
  BY <1>6 DEF vars, OrdersTyped, FillsMatchStatus
<1> QED BY <1>1, <1>2, <1>3, <1>4, <1>5, <1>6 DEF Next

(* However fills are split and however large they are, no order fills       *)
(* beyond its quantity and its status tells how far it is filled.           *)
THEOREM FillsAlwaysMatchStatus == Spec => []FillsMatchStatus
<1>1. Spec => []FillInv
  BY InitFillInv, StepFillInv, PTL DEF Spec
<1> QED BY <1>1, PTL DEF FillInv

(* No sequence of fills, cancels and answers makes a terminal order trade,  *)
(* or live again; a late refusal of its own submission may make it REJECTED.*)
THEOREM TerminalOrdersTradeNoMore == Spec => TerminalTradesNoMore
<1> DEFINE Settled == \A o \in Orders : orders[o].status \in Terminal =>
             \/ orders'[o] = orders[o]
             \/ /\ o \in submitting
                /\ orders'[o] = [orders[o] EXCEPT !.status = "rejected"]
<1>1. FillInv /\ [Next]_vars => [Settled]_vars
  <2> SUFFICES ASSUME FillInv, Next PROVE Settled
    OBVIOUS
  <2> USE DEF FillInv, OrdersTyped, IsLive, Live, Terminal
  <2>1. ASSUME NEW o \in Orders, NEW side \in Sides, NEW q \in Quantities, NEW p \in Prices,
               RegisterOrder(o, side, q, p)
        PROVE  Settled
    BY <2>1 DEF RegisterOrder
  <2>2. ASSUME NEW o \in Orders, CancelOrder(o)
        PROVE  Settled
    BY <2>2 DEF CancelOrder
  <2>3. ASSUME NEW o \in Orders, RejectOrder(o)
        PROVE  Settled
    BY <2>3 DEF RejectOrder
  <2>4. ASSUME NEW o \in Orders, NEW q \in Quantities, NEW p \in Prices, ApplyFill(o, q, p)
        PROVE  Settled
    BY <2>4 DEF ApplyFill
  <2>5. ASSUME NEW o \in Orders, SubmitReturns(o)
        PROVE  Settled
    BY <2>5 DEF SubmitReturns
  <2> QED BY <2>1, <2>2, <2>3, <2>4, <2>5 DEF Next
<1> QED BY <1>1, InitFillInv, StepFillInv, PTL DEF Spec, TerminalTradesNoMore

-----------------------------------------------------------------------------
(* Smallest and largest members, and fractions.                             *)

LEMMA MinOfNaturals ==
  ASSUME NEW S, S \subseteq Nat, S # {}
  PROVE  Min(S) \in S /\ \A x \in S : Min(S) <= x
<1> DEFINE Below == {p \in Nat \X Nat : p[1] < p[2]}
<1>1. PICK m \in S : \A x \in S : ~ (<<x, m>> \in Below)
  <2>1. IsWellFoundedOn(OpToRel(<, Nat), Nat)
    BY NatLessThanWellFounded
  <2>2. OpToRel(<, Nat) = Below
    BY DEF OpToRel
  <2> HIDE DEF Below
  <2> QED BY <2>1, <2>2, WFMin
<1>2. ASSUME NEW x \in S PROVE m <= x
  <2>1. ASSUME x < m PROVE <<x, m>> \in Below
    BY <2>1
  <2> HIDE DEF Below
  <2> QED BY <1>1, <2>1
<1> QED BY <1>2 DEF Min

LEMMA MaxOfFinite ==
  ASSUME NEW S, S \subseteq Int, S # {}, IsFiniteSet(S)
  PROVE  Max(S) \in S /\ \A x \in S : x <= Max(S)
<1> DEFINE T == {A \in SUBSET S : A = {} \/ \E m \in A : \A x \in A : x <= m}
<1>1. ASSUME NEW A \in SUBSET S, \A x \in A : A \ {x} \in T
      PROVE  A \in T
  <2>1. CASE A = {}
    BY <2>1
  <2>2. ASSUME NEW a \in A PROVE A \in T
    <3>1. CASE A \ {a} = {}
      BY <3>1, A = {a}
    <3>2. CASE A \ {a} # {}
      <4>1. PICK m \in A \ {a} : \A x \in A \ {a} : x <= m
        BY <1>1, <3>2
      <4>2. CASE a <= m
        BY <4>1, <4>2
      <4>3. CASE m <= a
        BY <4>1, <4>3
      <4> QED BY <4>2, <4>3
    <3> QED BY <3>1, <3>2
  <2> QED BY <2>1, <2>2
<1>2. S \in T
  <2> HIDE DEF T
  <2> QED BY <1>1, SubsetInduction
<1>3. PICK m \in S : \A x \in S : m >= x
  BY <1>2
<1> QED BY <1>3 DEF Max

LEMMA TimesOrder ==
  ASSUME NEW a \in Int, NEW b \in Int, NEW g \in Nat \ {0}, a * g <= b * g
  PROVE  a <= b
<1> SUFFICES ASSUME b < a PROVE FALSE
  OBVIOUS
<1>1. PICK d \in Nat \ {0} : a = b + d
  <2> WITNESS a - b \in Nat \ {0}
  <2> QED OBVIOUS
<1>2. a * g = b * g + d * g
  BY <1>1
<1>3. d * g > 0 /\ d * g \in Int /\ b * g \in Int
  OBVIOUS
<1> QED BY <1>2, <1>3

LEMMA RatioForm ==
  ASSUME NEW num \in Nat, NEW den \in Nat \ {0}
  PROVE  \E g \in 1..den :
           /\ Ratio(num, den).num \in Nat /\ Ratio(num, den).den \in Nat \ {0}
           /\ Ratio(num, den) = [num |-> Ratio(num, den).num, den |-> Ratio(num, den).den]
           /\ Ratio(num, den).num * g = num /\ Ratio(num, den).den * g = den
<1> DEFINE D == {d \in 1..den : num % d = 0 /\ den % d = 0}
           g == Max(D)
<1>1. D \subseteq Int /\ 1 \in D /\ IsFiniteSet(D)
  <2>1. IsFiniteSet(1..den)
    BY FS_Interval
  <2> QED BY <2>1, FS_Subset
<1>2. g \in D
  BY <1>1, MaxOfFinite
<1>3. g \in Nat \ {0} /\ g \in 1..den /\ num % g = 0 /\ den % g = 0
  BY <1>2
<1>4. Ratio(num, den) = [num |-> num \div g, den |-> den \div g]
  BY DEF Ratio
<1> HIDE DEF g
<1>5. num \div g \in Nat /\ (num \div g) * g = num
  BY <1>3
<1>6. den \div g \in Nat /\ (den \div g) * g = den
  BY <1>3
<1>7. den \div g # 0
  BY <1>3, <1>6
<1> QED BY <1>3, <1>4, <1>5, <1>6, <1>7

LEMMA ZeroForm == Zero = [num |-> 0, den |-> 1]
<1>1. PICK g \in 1..1 :
        /\ Ratio(0, 1) = [num |-> Ratio(0, 1).num, den |-> Ratio(0, 1).den]
        /\ Ratio(0, 1).num \in Nat /\ Ratio(0, 1).den \in Nat \ {0}
        /\ Ratio(0, 1).num * g = 0 /\ Ratio(0, 1).den * g = 1
  <2>1. \A a \in Nat, b \in Nat \ {0} : \E g \in 1..b :
          /\ Ratio(a, b) = [num |-> Ratio(a, b).num, den |-> Ratio(a, b).den]
          /\ Ratio(a, b).num \in Nat /\ Ratio(a, b).den \in Nat \ {0}
          /\ Ratio(a, b).num * g = a /\ Ratio(a, b).den * g = b
    BY RatioForm
  <2>2. 0 \in Nat /\ 1 \in Nat \ {0}
    OBVIOUS
  <2> QED BY <2>1, <2>2, Zenon
<1> DEFINE n == Ratio(0, 1).num
           d == Ratio(0, 1).den
<1>2. g = 1 /\ n \in Nat /\ d \in Nat /\ n * g = 0 /\ d * g = 1
  BY <1>1
<1> HIDE DEF n, d
<1>3. n = 0 /\ d = 1
  BY <1>2
<1> QED BY <1>1, <1>3 DEF n, d, Zero

LEMMA TimesMonotone ==
  ASSUME NEW a \in Nat, NEW b \in Nat, NEW c \in Nat, a <= b
  PROVE  a * c <= b * c
<1>1. PICK d \in Nat : b = a + d
  <2> WITNESS b - a \in Nat
  <2> QED OBVIOUS
<1>2. b * c = a * c + d * c
  BY <1>1
<1>3. d * c \in Nat /\ a * c \in Nat
  OBVIOUS
<1> QED BY <1>2, <1>3

(* The cost of k units at num/den and of q more at p: what the average of   *)
(* all of them is computed from.                                            *)
LEMMA Blended ==
  ASSUME NEW num \in Nat, NEW den \in Nat, NEW k \in Nat, NEW q \in Nat,
         NEW p \in Nat, NEW a \in Nat
  PROVE  /\ a * den <= num /\ a <= p => a * ((k + q) * den) <= num * k + p * q * den
         /\ num <= a * den /\ p <= a => num * k + p * q * den <= a * ((k + q) * den)
<1> DEFINE x == q * den
           y == a * den
<1>1. a * ((k + q) * den) = y * k + a * x
  <2>1. (k + q) * den = k * den + x
    OBVIOUS
  <2>2. k * den \in Nat /\ x \in Nat
    OBVIOUS
  <2>3. a * (k * den + x) = a * (k * den) + a * x
    <3> DEFINE z == k * den
    <3>1. z \in Nat /\ x \in Nat
      OBVIOUS
    <3> HIDE DEF z, x
    <3> QED BY <3>1 DEF z
  <2>4. a * (k * den) = (a * den) * k
    OBVIOUS
  <2> QED BY <2>1, <2>3, <2>4
<1>2. p * q * den = p * x
  OBVIOUS
<1>3. x \in Nat /\ y \in Nat
  OBVIOUS
<1> HIDE DEF x, y
<1>4. num * k \in Nat /\ p * x \in Nat /\ y * k \in Nat /\ a * x \in Nat
  BY <1>3
<1>5. ASSUME y <= num, a <= p PROVE y * k + a * x <= num * k + p * x
  BY <1>3, <1>4, <1>5, TimesMonotone
<1>6. ASSUME num <= y, p <= a PROVE num * k + p * x <= y * k + a * x
  BY <1>3, <1>4, <1>6, TimesMonotone
<1> QED BY <1>1, <1>2, <1>5, <1>6 DEF y

LEMMA CostAndSize ==
  ASSUME NEW num \in Nat, NEW den \in Nat \ {0}, NEW k \in Nat,
         NEW q \in Nat \ {0}, NEW p \in Nat
  PROVE  /\ num * k + p * q * den \in Nat
         /\ (k + q) * den \in Nat \ {0}
         /\ k = 0 => num * k + p * q * den = p * ((k + q) * den)
<1>1. num * k \in Nat /\ p * q * den \in Nat
  <2>1. p * q \in Nat
    OBVIOUS
  <2> QED BY <2>1
<1>2. k + q \in Nat \ {0}
  OBVIOUS
<1>3. (k + q) * den \in Nat \ {0}
  BY <1>2
<1>4. p * (q * den) = p * q * den
  OBVIOUS
<1>5. ASSUME k = 0 PROVE num * k = 0 /\ (k + q) * den = q * den
  BY <1>5
<1> QED BY <1>1, <1>3, <1>4, <1>5

-----------------------------------------------------------------------------
(* The average price.                                                       *)

Averages      == [num : Nat, den : Nat \ {0}]
PositionForms == [quantity : Int, average : Averages]

(* A flat position has no average; another lies between two of its entries. *)
Within(pos, entries) ==
  /\ IsFiniteSet(entries)
  /\ IF pos.quantity = 0 THEN pos.average = Zero
     ELSE \E low, high \in entries :
            /\ low * pos.average.den <= pos.average.num
            /\ pos.average.num <= high * pos.average.den

(* Cancelling a fraction keeps it where it is.                              *)
LEMMA RatioWithin ==
  ASSUME NEW num \in Nat, NEW den \in Nat \ {0}
  PROVE  /\ Ratio(num, den) \in Averages
         /\ \A a \in Nat :
              /\ a * den <= num => a * Ratio(num, den).den <= Ratio(num, den).num
              /\ num <= a * den => Ratio(num, den).num <= a * Ratio(num, den).den
<1> DEFINE n == Ratio(num, den).num
           d == Ratio(num, den).den
<1>1. PICK g \in 1..den :
        /\ n \in Nat /\ d \in Nat \ {0} /\ n * g = num /\ d * g = den
        /\ Ratio(num, den) = [num |-> n, den |-> d]
  BY RatioForm
<1>2. Ratio(num, den) \in Averages
  BY <1>1 DEF Averages
<1> HIDE DEF n, d
<1>3. ASSUME NEW a \in Nat
      PROVE  /\ a * den <= num => a * d <= n
             /\ num <= a * den => n <= a * d
  <2> DEFINE m == a * d
  <2>1. m \in Nat /\ a * den = m * g /\ g \in Nat \ {0}
    <3>1. a * (d * g) = (a * d) * g /\ a * d \in Nat
      BY <1>1
    <3> QED BY <1>1, <3>1
  <2> HIDE DEF m
  <2>2. m * g <= n * g => m <= n
    BY <1>1, <2>1, TimesOrder
  <2>3. n * g <= m * g => n <= m
    BY <1>1, <2>1, TimesOrder
  <2> QED BY <1>1, <2>1, <2>2, <2>3 DEF m
<1> QED BY <1>2, <1>3 DEF n, d

LEMMA FillKeepsAverage ==
  ASSUME NEW pos \in PositionForms, NEW entries \in SUBSET Prices, Within(pos, entries),
         NEW side \in Sides, NEW q \in Nat \ {0}, NEW p \in Prices
  PROVE  /\ PositionAfter(pos, side, q, p) \in PositionForms
         /\ EntriesAfter(entries, pos, side, q, p) \in SUBSET Prices
         /\ Within(PositionAfter(pos, side, q, p), EntriesAfter(entries, pos, side, q, p))
<1> DEFINE delta == Signed(side, q)
           old   == pos.quantity
           new   == old + delta
           num   == pos.average.num
           den   == pos.average.den
           k     == Abs(old)
           average == AverageAfter(pos, side, q, p)
           after   == EntriesAfter(entries, pos, side, q, p)
<1>1. /\ old \in Int /\ num \in Nat /\ den \in Nat \ {0}
      /\ delta \in {q, -q} /\ delta \in Int /\ new \in Int
      /\ k \in Nat /\ k \in {old, -old} /\ (k = 0 <=> old = 0) /\ p \in Nat
  BY BookAssumption DEF PositionForms, Averages, Signed, Sides, Abs
<1>2. SUFFICES /\ average \in Averages
               /\ after \in SUBSET Prices
               /\ Within([quantity |-> new, average |-> average], after)
  BY <1>1 DEF PositionAfter, PositionForms
<1>3. CASE old = 0 \/ (old > 0 <=> delta > 0)
  <2> DEFINE cost == num * k + p * q * den
             size == (k + q) * den
  <2>1. Abs(new) = k + q /\ new # 0
    BY <1>1, <1>3 DEF Abs
  <2>2. average = Ratio(cost, size)
    BY <1>3, <2>1 DEF AverageAfter
  <2>3. after = entries \cup {p}
    BY <1>3 DEF EntriesAfter
  <2>4. cost \in Nat /\ size \in Nat \ {0} /\ (k = 0 => cost = p * size)
    <3> HIDE DEF old, new, num, den, k, average, after
    <3> QED BY <1>1, CostAndSize
  <2>5. \E low, high \in after : /\ low \in Nat /\ high \in Nat
                                 /\ low * size <= cost /\ cost <= high * size
    <3>1. CASE old = 0
      <4>1. cost = p * size
        BY <1>1, <2>4, <3>1
      <4>2. p \in after
        BY <2>3
      <4> HIDE DEF cost, size, after
      <4> QED BY <1>1, <2>4, <4>1, <4>2
    <3>2. CASE old # 0
      <4>1. PICK low \in entries, high \in entries :
              low * den <= num /\ num <= high * den
        BY <3>2 DEF Within
      <4>2. low \in Nat /\ high \in Nat
        BY BookAssumption
      <4>3. PICK low2 \in {low, p} : low2 <= low /\ low2 <= p
        <5>1. low <= p \/ p <= low
          BY <1>1, <4>2
        <5> QED BY <1>1, <4>2, <5>1
      <4>4. PICK high2 \in {high, p} : high <= high2 /\ p <= high2
        <5>1. high <= p \/ p <= high
          BY <1>1, <4>2
        <5> QED BY <1>1, <4>2, <5>1
      <4>5. low2 \in Nat /\ high2 \in Nat
        BY <1>1, <4>2
      <4>6. low2 * den <= low * den /\ high * den <= high2 * den
        BY <1>1, <4>2, <4>3, <4>4, <4>5, TimesMonotone
      <4>7. low2 * den <= num /\ num <= high2 * den
        <5>1. low2 * den \in Nat /\ low * den \in Nat /\ high * den \in Nat /\ high2 * den \in Nat
          BY <1>1, <4>2, <4>5
        <5> QED BY <1>1, <4>1, <4>6, <5>1
      <4>8. low2 * size <= cost /\ cost <= high2 * size
        BY <1>1, <4>3, <4>4, <4>5, <4>7, Blended
      <4>9. low2 \in after /\ high2 \in after
        BY <2>3
      <4> QED BY <4>5, <4>8, <4>9
    <3> QED BY <3>1, <3>2
  <2> HIDE DEF cost, size, average, after
  <2>6. PICK low \in after, high \in after :
          low \in Nat /\ high \in Nat /\ low * size <= cost /\ cost <= high * size
    BY <2>5
  <2>7. /\ average \in Averages
        /\ low * average.den <= average.num
        /\ average.num <= high * average.den
    BY <2>2, <2>4, <2>6, RatioWithin
  <2>8. IsFiniteSet(after)
    <3>1. IsFiniteSet(entries)
      BY DEF Within
    <3> QED BY <2>3, <3>1, FS_AddElement
  <2> QED BY <2>1, <2>3, <2>7, <2>8 DEF Within
<1>4. CASE ~ (old = 0 \/ (old > 0 <=> delta > 0))
  <2>1. old # 0 /\ k # 0 /\ (new = 0 <=> q = k)
    BY <1>1, <1>4
  <2>2. CASE q < k
    <3>1. average = pos.average /\ after = entries
      BY <1>1, <1>4, <2>2 DEF AverageAfter, EntriesAfter
    <3> QED BY <1>1, <2>1, <2>2, <3>1 DEF Within, PositionForms
  <2>3. CASE q > k
    <3>1. average = Ratio(p, 1) /\ after = {p}
      BY <1>1, <1>4, <2>1, <2>3 DEF AverageAfter, EntriesAfter
    <3>2. /\ Ratio(p, 1) \in Averages
          /\ p * Ratio(p, 1).den <= Ratio(p, 1).num
          /\ Ratio(p, 1).num <= p * Ratio(p, 1).den
      <4>1. \A n \in Nat, d \in Nat \ {0} :
              /\ Ratio(n, d) \in Averages
              /\ n * d <= n => n * Ratio(n, d).den <= Ratio(n, d).num
              /\ n <= n * d => Ratio(n, d).num <= n * Ratio(n, d).den
        BY RatioWithin
      <4>2. 1 \in Nat \ {0} /\ p * 1 <= p /\ p <= p * 1
        BY <1>1
      <4> QED BY <1>1, <4>1, <4>2, Zenon
    <3>3. IsFiniteSet({p})
      BY FS_Singleton
    <3> QED BY <2>1, <2>3, <3>1, <3>2, <3>3 DEF Within
  <2>4. CASE q = k
    <3>1. average = Zero /\ after = {}
      BY <1>1, <1>4, <2>1, <2>4 DEF AverageAfter, EntriesAfter
    <3>2. Zero \in Averages
      BY ZeroForm DEF Averages
    <3> QED BY <2>1, <2>4, <3>1, <3>2, FS_EmptySet DEF Within
  <2> QED BY <1>1, <2>2, <2>3, <2>4
<1> QED BY <1>3, <1>4

-----------------------------------------------------------------------------
(* Types, averages and the sum of the fills.                                *)

BookInv ==
  /\ TypeOK /\ FillsMatchStatus
  /\ \A o \in Orders : orders[o].status = "absent" => orders[o].filled = 0
  /\ \A s \in Symbols : Within(positions[s], entryPrices[s])
  /\ PositionsMatchFills

FilledBy   == [o \in Orders |-> Signed(orders[o].side, orders[o].filled)]
OrdersOn(s) == {o \in Orders : SymbolOf[o] = s}

LEMMA SignedFillsForm ==
  \A s : SignedFills(s) = SumFunctionOnSet(FilledBy, OrdersOn(s))
BY DEF SignedFills, FilledBy, OrdersOn

LEMMA OrdersOnFinite ==
  ASSUME NEW s
  PROVE  IsFiniteSet(OrdersOn(s)) /\ OrdersOn(s) \subseteq Orders
BY BookAssumption, FS_Subset DEF OrdersOn

(* A step that fills nothing leaves every sum.                              *)
LEMMA SumsStay ==
  ASSUME \A o \in Orders : FilledBy'[o] = FilledBy[o],
         UNCHANGED positions, PositionsMatchFills
  PROVE  PositionsMatchFills'
<1> SUFFICES ASSUME NEW s \in Symbols
             PROVE  positions'[s].quantity = SumFunctionOnSet(FilledBy', OrdersOn(s))
  BY SignedFillsForm DEF PositionsMatchFills, SignedFills, FilledBy, OrdersOn
<1>1. SumFunctionOnSet(FilledBy', OrdersOn(s)) = SumFunctionOnSet(FilledBy, OrdersOn(s))
  <2> DEFINE f == FilledBy
             g == FilledBy'
  <2>1. \A o \in OrdersOn(s) : g[o] = f[o]
    BY OrdersOnFinite
  <2> HIDE DEF f, g
  <2>2. SumFunctionOnSet(g, OrdersOn(s)) = SumFunctionOnSet(f, OrdersOn(s))
    BY <2>1, OrdersOnFinite, SumOfEqual
  <2> QED BY <2>2 DEF f, g
<1> QED BY <1>1, SignedFillsForm DEF PositionsMatchFills

LEMMA InitBookInv == Init => BookInv
<1> SUFFICES ASSUME Init PROVE BookInv
  OBVIOUS
<1>1. FillInv
  BY InitFillInv
<1>2. TypeOK
  <2>1. Zero \in Averages
    BY ZeroForm DEF Averages
  <2> QED BY <1>1, <2>1 DEF FillInv, OrdersTyped, TypeOK, Init, Averages
<1>3. \A o \in Orders : orders[o].filled = 0
  BY DEF Init, Unknown
<1>4. \A s \in Symbols : Within(positions[s], entryPrices[s])
  BY FS_EmptySet DEF Init, Within
<1>5. PositionsMatchFills
  <2> SUFFICES ASSUME NEW s \in Symbols PROVE SumFunctionOnSet(FilledBy, OrdersOn(s)) = 0
    BY SignedFillsForm DEF PositionsMatchFills, Init
  <2> DEFINE f == FilledBy
  <2>1. \A o \in OrdersOn(s) : f[o] \in Int /\ f[o] <= 0 /\ f[o] \in Nat
    BY <1>3, OrdersOnFinite DEF FilledBy, Signed
  <2> HIDE DEF f
  <2>2. SumFunctionOnSet(f, OrdersOn(s)) \in Nat
    BY <2>1, OrdersOnFinite, SumIsNat
  <2>3. SumFunctionOnSet(f, OrdersOn(s)) <= Cardinality(OrdersOn(s)) * 0
    BY <2>1, OrdersOnFinite, SumAtMost
  <2>4. Cardinality(OrdersOn(s)) * 0 = 0
    BY OrdersOnFinite, FS_CardinalityType
  <2> QED BY <2>2, <2>3, <2>4 DEF f
<1> QED BY <1>1, <1>2, <1>3, <1>4, <1>5 DEF BookInv, FillInv

LEMMA StepBookInv == BookInv /\ [Next]_vars => BookInv'
<1> SUFFICES ASSUME BookInv, [Next]_vars PROVE BookInv'
  OBVIOUS
<1> USE DEF BookInv
<1>1. FillInv'
  BY StepFillInv DEF FillInv, OrdersTyped, TypeOK
<1> DEFINE Kept == /\ \A o \in Orders : orders'[o].status = "absent" => orders'[o].filled = 0
                   /\ \A o \in Orders : FilledBy'[o] = FilledBy[o]
                   /\ UNCHANGED <<positions, entryPrices>>
<1>2. ASSUME Kept PROVE BookInv'
  <2>1. PositionsMatchFills'
    BY <1>2, SumsStay
  <2>2. TypeOK'
    BY <1>1, <1>2 DEF TypeOK, FillInv, OrdersTyped
  <2> QED BY <1>1, <1>2, <2>1, <2>2 DEF FillInv
<1>3. ASSUME NEW o \in Orders, NEW side \in Sides, NEW q \in Quantities, NEW p \in Prices,
             RegisterOrder(o, side, q, p)
      PROVE  Kept
  BY <1>3 DEF RegisterOrder, FilledBy, Signed, TypeOK
<1>4. ASSUME NEW o \in Orders, CancelOrder(o) \/ RejectOrder(o) \/ SubmitReturns(o)
      PROVE  Kept
  <2>1. CASE CancelOrder(o)
    BY <2>1 DEF CancelOrder, FilledBy, Signed, TypeOK
  <2>2. CASE RejectOrder(o)
    BY <2>2 DEF RejectOrder, FilledBy, Signed, TypeOK
  <2>3. CASE SubmitReturns(o)
    BY <2>3 DEF SubmitReturns, FilledBy, Signed, TypeOK
  <2> QED BY <1>4, <2>1, <2>2, <2>3
<1>5. CASE UNCHANGED vars
  <2>1. Kept
    BY <1>5 DEF vars, FilledBy, Signed
  <2> QED BY <1>2, <2>1
<1>6. ASSUME NEW o \in Orders, NEW q \in Quantities, NEW p \in Prices, ApplyFill(o, q, p)
      PROVE  BookInv'
  <2> DEFINE sym  == SymbolOf[o]
             side == orders[o].side
             fq   == FillQuantity(o, q)
             pos  == positions[sym]
  <2>1. /\ sym \in Symbols /\ side \in Sides
        /\ fq \in Nat \ {0} /\ fq <= Remaining(o)
        /\ pos \in PositionForms /\ entryPrices[sym] \in SUBSET Prices
    <3>1. q \in Int /\ Remaining(o) \in Int
      BY BookAssumption DEF Remaining, TypeOK
    <3>2. fq \in Int /\ fq <= Remaining(o)
      BY <3>1, MinOfPair DEF FillQuantity
    <3>3. fq > 0
      BY <1>6 DEF ApplyFill
    <3> QED BY <3>2, <3>3, BookAssumption DEF TypeOK, PositionForms, Averages
  <2>2. /\ orders' = [orders EXCEPT ![o].filled = orders[o].filled + fq,
                                    ![o].status = StatusAfter(o, orders[o].filled + fq)]
        /\ positions' = [positions EXCEPT ![sym] = PositionAfter(pos, side, fq, p)]
        /\ entryPrices' =
             [entryPrices EXCEPT ![sym] = EntriesAfter(entryPrices[sym], pos, side, fq, p)]
    BY <1>6 DEF ApplyFill
  <2> HIDE DEF fq, pos, side, sym
  <2>3. /\ PositionAfter(pos, side, fq, p) \in PositionForms
        /\ EntriesAfter(entryPrices[sym], pos, side, fq, p) \in SUBSET Prices
        /\ Within(PositionAfter(pos, side, fq, p),
                  EntriesAfter(entryPrices[sym], pos, side, fq, p))
    <3>1. Within(pos, entryPrices[sym])
      BY <2>1 DEF pos
    <3> QED BY <2>1, <3>1, FillKeepsAverage
  <2>4. TypeOK'
    BY <1>1, <2>1, <2>2, <2>3 DEF TypeOK, FillInv, OrdersTyped, PositionForms, Averages
  <2>5. \A s \in Symbols : Within(positions'[s], entryPrices'[s])
    BY <2>1, <2>2, <2>3 DEF TypeOK
  <2>6. \A u \in Orders : orders'[u].status = "absent" => orders'[u].filled = 0
    BY <2>2 DEF TypeOK, StatusAfter
  <2>7. PositionsMatchFills'
    <3> SUFFICES ASSUME NEW s \in Symbols
                 PROVE  positions'[s].quantity = SumFunctionOnSet(FilledBy', OrdersOn(s))
      BY SignedFillsForm DEF PositionsMatchFills, SignedFills, FilledBy, OrdersOn
    <3> DEFINE f == FilledBy
               g == FilledBy'
               T == OrdersOn(s)
    <3>1. positions[s].quantity = SumFunctionOnSet(f, T)
      BY SignedFillsForm DEF PositionsMatchFills
    <3>2. IsFiniteSet(T) /\ T \subseteq Orders /\ (o \in T <=> s = sym)
      BY OrdersOnFinite DEF OrdersOn, sym
    <3>3. /\ \A u \in T : f[u] \in Int /\ g[u] \in Int
          /\ \A u \in T \ {o} : g[u] = f[u]
          /\ g[o] = f[o] + Signed(side, fq)
      BY <2>1, <2>2, <3>2, <2>4 DEF FilledBy, Signed, TypeOK, side
    <3> HIDE DEF f, g, T
    <3>4. CASE s = sym
      <4>1. SumFunctionOnSet(g, T) = SumFunctionOnSet(f, T) + (g[o] - f[o])
            /\ SumFunctionOnSet(f, T) \in Int
        BY <3>2, <3>3, <3>4, SumOfChanged
      <4>2. positions'[s].quantity = positions[s].quantity + Signed(side, fq)
        BY <2>1, <2>2, <3>4 DEF PositionAfter, TypeOK, pos
      <4>3. f[o] \in Int /\ Signed(side, fq) \in Int
        BY <2>1, <3>2, <3>3, <3>4 DEF Signed
      <4> QED BY <3>1, <3>3, <4>1, <4>2, <4>3 DEF g, T
    <3>5. CASE s # sym
      <4>1. SumFunctionOnSet(g, T) = SumFunctionOnSet(f, T)
        BY <3>2, <3>3, <3>5, SumOfEqual
      <4>2. positions'[s] = positions[s]
        BY <2>1, <2>2, <3>5 DEF TypeOK
      <4> QED BY <3>1, <4>1, <4>2 DEF g, T
    <3> QED BY <3>4, <3>5
  <2> QED BY <1>1, <2>4, <2>5, <2>6, <2>7 DEF FillInv
<1> QED BY <1>2, <1>3, <1>4, <1>5, <1>6 DEF Next

LEMMA BooksAgree == Spec => []BookInv
  BY InitBookInv, StepBookInv, PTL DEF Spec

(* Whatever is registered, cancelled, refused and filled, in any order, the *)
(* books keep their types: in particular no denominator becomes zero.       *)
THEOREM BookTypeCorrect == Spec => []TypeOK
  BY BooksAgree, PTL DEF BookInv

(* No fill reaches one side of the books only: every position is the signed *)
(* sum of what the orders on its symbol filled.                             *)
THEOREM PositionsAlwaysMatchFills == Spec => []PositionsMatchFills
  BY BooksAgree, PTL DEF BookInv

(* The average price of a position that is not flat lies between the lowest *)
(* and the highest price it was built at, for any prices and quantities.    *)
THEOREM AverageStaysWithinEntries == Spec => []AverageWithinEntries
<1>1. BookInv => AverageWithinEntries
  <2> SUFFICES ASSUME BookInv, NEW s \in Symbols
               PROVE  LET a == positions[s].average
                      IN  IF positions[s].quantity = 0 THEN a = Zero
                          ELSE /\ a.num >= Min(entryPrices[s]) * a.den
                               /\ a.num <= Max(entryPrices[s]) * a.den
    BY DEF AverageWithinEntries
  <2> DEFINE num == positions[s].average.num
             den == positions[s].average.den
             E   == entryPrices[s]
  <2>1. CASE positions[s].quantity = 0
    BY <2>1 DEF BookInv, Within
  <2>2. CASE positions[s].quantity # 0
    <3>1. PICK low \in E, high \in E : low * den <= num /\ num <= high * den
      BY <2>2 DEF BookInv, Within
    <3>2. E \subseteq Nat /\ IsFiniteSet(E) /\ num \in Nat /\ den \in Nat
      BY BookAssumption DEF BookInv, TypeOK, Within
    <3>3. /\ Min(E) \in E /\ Min(E) <= low
          /\ Max(E) \in E /\ high <= Max(E)
      <4>1. E \subseteq Int /\ E # {}
        BY <3>2
      <4> QED BY <3>2, <4>1, MinOfNaturals, MaxOfFinite
    <3> DEFINE least == Min(E)
               most  == Max(E)
    <3>4. least \in Nat /\ most \in Nat /\ low \in Nat /\ high \in Nat
      BY <3>2, <3>3
    <3> HIDE DEF least, most, num, den, E
    <3>5. least * den <= low * den /\ high * den <= most * den
      BY <3>2, <3>3, <3>4, TimesMonotone DEF least, most
    <3>6. least * den \in Nat /\ low * den \in Nat /\ high * den \in Nat /\ most * den \in Nat
      BY <3>2, <3>4
    <3>7. least * den <= num /\ num <= most * den
      BY <3>1, <3>2, <3>5, <3>6
    <3>8. num >= least * den
      BY <3>2, <3>6, <3>7
    <3> QED BY <2>2, <3>7, <3>8 DEF least, most, num, den, E
  <2> QED BY <2>1, <2>2
<1> QED BY <1>1, BooksAgree, PTL

-----------------------------------------------------------------------------
(* Exposure: the bound on the worst case is set when an order of that side  *)
(* is registered; its fills move what is left into the position, and all    *)
(* else lowers it.                                                          *)

Cheapest     == Min(Prices)
LargestOrder == Min({MaxOrderNotional \div Cheapest, Max(Quantities)})
Bound        == MaxPositionNotional \div Cheapest + (MaxOpenOrders - 1) * LargestOrder

Traded == Prices # {} /\ Quantities # {} /\ IsFiniteSet(Quantities) /\ MaxOpenOrders > 0

Left            == [o \in Orders |-> Remaining(o)]
OpenOn(s, side) == {o \in OpenOrders : SymbolOf[o] = s /\ orders[o].side = side}

ExposureInv ==
  /\ BookInv
  /\ \A o \in Orders : orders[o].quantity <= LargestOrder
  /\ ExposureBounded

LEMMA WorstCaseForm ==
  \A s, side : WorstCase(s, side) = Signed(side, positions[s].quantity)
                                      + SumFunctionOnSet(Left, OpenOn(s, side))
BY DEF WorstCase, Left, OpenOn

LEMMA DivBounds ==
  ASSUME NEW a \in Nat, NEW b \in Nat, NEW c \in Nat \ {0}, NEW d \in Nat, c <= d, a * d <= b
  PROVE  a <= b \div c
<1> DEFINE e == b \div c
<1>1. e \in Int /\ b < (e + 1) * c
  OBVIOUS
<1>2. a * c <= a * d
  BY TimesMonotone
<1> HIDE DEF e
<1>3. a * c \in Nat /\ a * d \in Nat /\ (e + 1) * c \in Int
  BY <1>1
<1>4. a * c < (e + 1) * c
  BY <1>1, <1>2, <1>3
<1>5. ~ (e + 1 <= a)
  <2> SUFFICES ASSUME e + 1 <= a PROVE FALSE
    OBVIOUS
  <2>1. PICK k \in Nat : a = e + 1 + k
    <3>1. a - (e + 1) \in Nat /\ a = e + 1 + (a - (e + 1))
      BY <1>1
    <3> QED BY <3>1
  <2>2. a * c = (e + 1) * c + k * c /\ k * c \in Nat
    BY <1>1, <2>1
  <2> QED BY <1>3, <1>4, <2>2
<1> QED BY <1>1, <1>5 DEF e

LEMMA BoundForm ==
  ASSUME Traded
  PROVE  /\ Cheapest \in Nat \ {0} /\ \A p \in Prices : p \in Nat /\ Cheapest <= p
         /\ LargestOrder \in Nat
         /\ \A q \in Quantities : q <= Max(Quantities)
         /\ MaxPositionNotional \div Cheapest \in Nat
         /\ (MaxOpenOrders - 1) * LargestOrder \in Nat
         /\ Bound \in Nat
<1>1. Cheapest \in Nat \ {0} /\ \A p \in Prices : p \in Nat /\ Cheapest <= p
  <2>1. Prices \subseteq Nat
    BY BookAssumption
  <2> QED BY <2>1, BookAssumption, MinOfNaturals DEF Traded, Cheapest
<1>2. Max(Quantities) \in Nat /\ \A q \in Quantities : q <= Max(Quantities)
  <2>1. Quantities \subseteq Int
    BY BookAssumption
  <2>2. Max(Quantities) \in Quantities /\ \A q \in Quantities : q <= Max(Quantities)
    BY <2>1, MaxOfFinite DEF Traded
  <2> QED BY <2>2, BookAssumption
<1>3. /\ MaxOrderNotional \div Cheapest \in Nat
      /\ MaxPositionNotional \div Cheapest \in Nat
  BY <1>1, BookAssumption
<1>4. LargestOrder \in Nat
  <2> DEFINE m == Max(Quantities)
             n == MaxOrderNotional \div Cheapest
  <2>1. m \in Int /\ n \in Int /\ m \in Nat /\ n \in Nat
    BY <1>2, <1>3
  <2> HIDE DEF m, n
  <2>2. Min({n, m}) \in {n, m}
    BY <2>1, MinOfPair
  <2> QED BY <2>1, <2>2 DEF LargestOrder, m, n
<1>5. (MaxOpenOrders - 1) * LargestOrder \in Nat
  <2>1. MaxOpenOrders - 1 \in Nat
    BY BookAssumption DEF Traded
  <2> QED BY <1>4, <2>1
<1> QED BY <1>1, <1>2, <1>3, <1>4, <1>5 DEF Bound

LEMMA BoundedForm ==
  ExposureBounded <=> \A s \in Symbols, side \in Sides : WorstCase(s, side) <= Bound
BY DEF ExposureBounded, Bound, Cheapest, LargestOrder

(* An order on another symbol or of the other side does not change what is  *)
(* left on this one.                                                        *)
LEMMA WorstCaseStays ==
  ASSUME NEW s, NEW side, OpenOn(s, side)' = OpenOn(s, side),
         \A o \in OpenOn(s, side) : Left'[o] = Left[o],
         positions'[s].quantity = positions[s].quantity
  PROVE  WorstCase(s, side)' = WorstCase(s, side)
<1> DEFINE f == Left
           g == Left'
           S == OpenOn(s, side)
<1>1. IsFiniteSet(S)
  BY BookAssumption, FS_Subset DEF OpenOn, OpenOrders
<1>2. WorstCase(s, side) = Signed(side, positions[s].quantity) + SumFunctionOnSet(f, S)
  BY WorstCaseForm
<1>3. WorstCase(s, side)' = Signed(side, positions'[s].quantity) + SumFunctionOnSet(g, S)
  BY DEF WorstCase, Left, OpenOn
<1> HIDE DEF f, g, S
<1>4. SumFunctionOnSet(g, S) = SumFunctionOnSet(f, S)
  <2>1. \A o \in S : g[o] = f[o]
    BY DEF f, g, S
  <2> QED BY <1>1, <2>1, SumOfEqual
<1> QED BY <1>2, <1>3, <1>4

LEMMA StepExposure ==
  ASSUME Traded, ExposureInv, BookInv', Next
  PROVE  /\ \A o \in Orders : orders'[o].quantity <= LargestOrder
         /\ ExposureBounded'
<1>0. /\ orders \in [Orders -> [status : Statuses, side : Sides, quantity : Nat,
                                price : Nat, filled : Nat]]
      /\ \A s \in Symbols : positions[s].quantity \in Int
      /\ \A s \in Symbols, side \in Sides : WorstCase(s, side) <= Bound
      /\ \A o \in Orders : /\ orders[o].filled <= orders[o].quantity
                           /\ orders[o].quantity <= LargestOrder
  BY BoundedForm DEF ExposureInv, BookInv, TypeOK, FillsMatchStatus
<1>1. /\ \A o \in Orders : Left[o] = Remaining(o)
      /\ \A o \in Orders : Left'[o] = orders'[o].quantity - orders'[o].filled
  BY DEF Left, Remaining
<1>2. \A o \in Orders : Left[o] \in Nat /\ Left[o] <= LargestOrder
  <2> SUFFICES ASSUME NEW o \in Orders PROVE Left[o] \in Nat /\ Left[o] <= LargestOrder
    OBVIOUS
  <2>1. orders[o].quantity \in Nat /\ orders[o].filled \in Nat
    BY <1>0
  <2> QED BY <1>0, <1>1, <2>1, BoundForm DEF Remaining
<1>3. \A s, side : IsFiniteSet(OpenOn(s, side)) /\ OpenOn(s, side) \subseteq Orders
  BY BookAssumption, FS_Subset DEF OpenOn, OpenOrders
<1>4. SUFFICES /\ \A o \in Orders : orders'[o].quantity <= LargestOrder
               /\ \A s \in Symbols, side \in Sides : WorstCase(s, side)' <= Bound
  BY DEF ExposureBounded, Bound, Cheapest, LargestOrder
<1>5. ASSUME NEW o \in Orders, NEW b \in Sides, NEW q \in Quantities, NEW p \in Prices,
             RegisterOrder(o, b, q, p)
      PROVE  /\ \A u \in Orders : orders'[u].quantity <= LargestOrder
             /\ \A s \in Symbols, side \in Sides : WorstCase(s, side)' <= Bound
  <2>1. /\ orders[o].status = "absent" /\ Allowed(o, b, q, p)
        /\ orders' = [orders EXCEPT ![o] =
             [status |-> "open", side |-> b, quantity |-> q, price |-> p, filled |-> 0]]
        /\ UNCHANGED positions
    BY <1>5 DEF RegisterOrder
  <2>2. q \in Nat /\ p \in Nat /\ Cheapest <= p /\ Cheapest \in Nat \ {0} /\ LargestOrder \in Nat
    BY BookAssumption, BoundForm
  <2>3. q <= LargestOrder
    <3>1. q * p <= MaxOrderNotional
      BY <2>1 DEF Allowed
    <3>2. q <= MaxOrderNotional \div Cheapest
      BY <2>2, <3>1, DivBounds, BookAssumption
    <3> DEFINE m == Max(Quantities)
               n == MaxOrderNotional \div Cheapest
    <3>3. q <= m /\ q <= n
      BY <3>2, BoundForm
    <3>4. m \in Int /\ n \in Int
      <4>1. Quantities \subseteq Int
        BY BookAssumption
      <4>2. m \in Quantities
        BY <4>1, MaxOfFinite DEF Traded
      <4>3. n \in Int
        BY <2>2, BookAssumption
      <4> QED BY <4>1, <4>2, <4>3
    <3> HIDE DEF m, n
    <3>5. Min({n, m}) \in {n, m}
      BY <3>4, MinOfPair
    <3> QED BY <3>3, <3>5 DEF LargestOrder, m, n
  <2>4. \A u \in Orders : orders'[u].quantity <= LargestOrder
    BY <1>0, <2>1, <2>3
  <2>5. ASSUME NEW s \in Symbols, NEW side \in Sides, ~ (s = SymbolOf[o] /\ side = b)
        PROVE  WorstCase(s, side)' <= Bound
    <3>1. OpenOn(s, side)' = OpenOn(s, side)
      BY <1>0, <2>1, <2>5 DEF OpenOn, OpenOrders, Live
    <3>2. o \notin OpenOn(s, side)
      BY <2>1 DEF OpenOn, OpenOrders, Live
    <3>3. \A u \in OpenOn(s, side) : Left'[u] = Left[u]
      BY <1>0, <1>1, <1>3, <2>1, <3>2 DEF Remaining
    <3>4. WorstCase(s, side)' = WorstCase(s, side)
      BY <2>1, <3>1, <3>3, WorstCaseStays
    <3> QED BY <1>0, <3>4
  <2>6. ASSUME NEW s \in Symbols, NEW side \in Sides, s = SymbolOf[o], side = b
        PROVE  WorstCase(s, side)' <= Bound
    <3> DEFINE f == Left
               g == Left'
               S == OpenOn(s, side)
               here == Signed(side, positions[s].quantity)
               most == MaxPositionNotional \div Cheapest
    <3>1. WorstCase(s, side)' = here + SumFunctionOnSet(g, S \cup {o})
      <4>1. OpenOn(s, side)' = S \cup {o}
        BY <1>0, <2>1, <2>6 DEF OpenOn, OpenOrders, Live
      <4> QED BY <2>1, <4>1 DEF WorstCase, Left, OpenOn
    <3>2. /\ o \notin S /\ IsFiniteSet(S) /\ S \subseteq Orders
          /\ \A u \in S : g[u] = f[u] /\ f[u] \in Nat /\ f[u] <= LargestOrder
          /\ g[o] = q
      <4>1. o \notin S
        BY <2>1 DEF OpenOn, OpenOrders, Live
      <4>2. \A u \in S : g[u] = f[u]
        BY <1>0, <1>1, <1>3, <2>1, <4>1 DEF Remaining
      <4>3. g[o] = q
        BY <1>0, <1>1, <2>1, <2>2
      <4> QED BY <1>2, <1>3, <4>1, <4>2, <4>3
    <3>3. here \in Int /\ here + q <= most /\ most \in Nat
      <4> DEFINE new == positions[s].quantity + Signed(b, q)
      <4>1. Abs(new * p) <= MaxPositionNotional
        BY <2>1, <2>6 DEF Allowed, Projected
      <4>2. new \in Int /\ here \in Int /\ (here + q = new \/ here + q = -new)
        BY <1>0, <2>2, <2>6 DEF Signed
      <4>3. most \in Nat
        BY BoundForm
      <4> HIDE DEF new, here, most
      <4>4. CASE here + q <= 0
        BY <2>2, <4>2, <4>3, <4>4
      <4>5. CASE here + q > 0
        <5> DEFINE k == here + q
        <5>1. k \in Nat
          BY <2>2, <4>2, <4>5
        <5>2. k * p <= MaxPositionNotional
          <6>1. new * p \in Int /\ (k * p = new * p \/ k * p = -(new * p)) /\ k * p \in Nat
            <7>1. (-new) * p = -(new * p)
              BY <2>2, <4>2
            <7>2. k * p \in Nat
              BY <2>2, <5>1
            <7> QED BY <2>2, <4>2, <7>1, <7>2
          <6> DEFINE x == new * p
                     y == k * p
          <6> HIDE DEF x, y
          <6>2. y <= Abs(x)
            BY <6>1 DEF Abs, x, y
          <6> QED BY <4>1, <6>1, <6>2, BookAssumption DEF x, y, Abs
        <5> HIDE DEF k
        <5>3. k <= MaxPositionNotional \div Cheapest
          BY <2>2, <5>1, <5>2, DivBounds, BookAssumption
        <5> QED BY <4>2, <4>3, <5>3 DEF k, most
      <4> QED BY <2>2, <4>2, <4>3, <4>4, <4>5
    <3> HIDE DEF f, g, S, here, most
    <3>4. /\ SumFunctionOnSet(g, S \cup {o}) = q + SumFunctionOnSet(f, S)
          /\ SumFunctionOnSet(f, S) \in Int
      <4>1. IsFiniteSet(S \cup {o}) /\ (S \cup {o}) \ {o} = S
        BY <3>2, FS_AddElement
      <4>2. \A u \in S \cup {o} : g[u] \in Int
        BY <2>2, <3>2
      <4>3. /\ SumFunctionOnSet(g, S \cup {o}) = g[o] + SumFunctionOnSet(g, (S \cup {o}) \ {o})
            /\ SumFunctionOnSet(g, (S \cup {o}) \ {o}) \in Int
        BY <4>1, <4>2, SumWithout
      <4>4. SumFunctionOnSet(g, S) = SumFunctionOnSet(f, S)
        BY <3>2, SumOfEqual
      <4> QED BY <3>2, <4>1, <4>3, <4>4
    <3>5. SumFunctionOnSet(f, S) <= (MaxOpenOrders - 1) * LargestOrder
      <4>1. \A u \in S : f[u] \in Int /\ f[u] <= LargestOrder
        BY <3>2
      <4>2. SumFunctionOnSet(f, S) <= Cardinality(S) * LargestOrder
        BY <2>2, <3>2, <4>1, SumAtMost
      <4>3. Cardinality(S) \in Nat /\ Cardinality(S) <= MaxOpenOrders - 1
        <5>1. IsFiniteSet(OpenOrders) /\ S \subseteq OpenOrders
          BY BookAssumption, FS_Subset DEF OpenOrders, OpenOn, S
        <5>2. /\ Cardinality(S) <= Cardinality(OpenOrders)
              /\ Cardinality(S) \in Nat /\ Cardinality(OpenOrders) \in Nat
          BY <5>1, FS_Subset, FS_CardinalityType
        <5>3. Cardinality(OpenOrders) < MaxOpenOrders
          BY <2>1 DEF Allowed
        <5> QED BY <5>2, <5>3, BookAssumption
      <4> DEFINE n == Cardinality(S)
      <4> HIDE DEF n
      <4>4. n * LargestOrder <= (MaxOpenOrders - 1) * LargestOrder
        <5>1. MaxOpenOrders - 1 \in Nat
          BY BookAssumption DEF Traded
        <5> QED BY <2>2, <4>3, <5>1, TimesMonotone DEF n
      <4>5. n * LargestOrder \in Nat /\ (MaxOpenOrders - 1) * LargestOrder \in Nat
        BY <2>2, <4>3, BoundForm DEF n
      <4> QED BY <3>4, <4>2, <4>4, <4>5 DEF n
    <3> DEFINE sum == SumFunctionOnSet(f, S)
               rest == (MaxOpenOrders - 1) * LargestOrder
    <3>6. WorstCase(s, side)' = here + (q + sum) /\ sum \in Int /\ sum <= rest
      BY <3>1, <3>4, <3>5
    <3>7. rest \in Nat /\ Bound = most + rest
      BY BoundForm DEF Bound, most
    <3> HIDE DEF sum, rest
    <3> QED BY <2>2, <3>3, <3>6, <3>7
  <2> QED BY <2>4, <2>5, <2>6
<1>6. ASSUME NEW o \in Orders, UNCHANGED positions,
             NEW t \in {"cancelled", "rejected"}, orders' = [orders EXCEPT ![o].status = t]
      PROVE  /\ \A u \in Orders : orders'[u].quantity <= LargestOrder
             /\ \A s \in Symbols, side \in Sides : WorstCase(s, side)' <= Bound
  <2>1. \A u \in Orders : orders'[u].quantity <= LargestOrder
    BY <1>0, <1>6
  <2>2. \A u \in Orders : Left'[u] = Left[u]
    BY <1>0, <1>1, <1>6 DEF Remaining
  <2>3. ASSUME NEW s \in Symbols, NEW side \in Sides PROVE WorstCase(s, side)' <= Bound
    <3> DEFINE f == Left
               g == Left'
               S == OpenOn(s, side)
               here == Signed(side, positions[s].quantity)
    <3>1. OpenOn(s, side)' = S \ {o}
      BY <1>0, <1>6 DEF OpenOn, OpenOrders, Live
    <3>2. CASE o \notin S
      <4>1. WorstCase(s, side)' = WorstCase(s, side)
        BY <1>3, <1>6, <2>2, <3>1, <3>2, WorstCaseStays
      <4> QED BY <1>0, <4>1
    <3>3. CASE o \in S
      <4>1. WorstCase(s, side)' = here + SumFunctionOnSet(g, S \ {o})
        BY <1>6, <3>1 DEF WorstCase, Left, OpenOn
      <4>2. WorstCase(s, side) = here + SumFunctionOnSet(f, S)
        BY WorstCaseForm
      <4>3. here \in Int
        BY <1>0 DEF Signed
      <4>4. IsFiniteSet(S) /\ IsFiniteSet(S \ {o})
            /\ \A u \in S : f[u] \in Nat /\ f[u] \in Int /\ g[u] = f[u]
        BY <1>2, <1>3, <2>2, FS_Subset
      <4> HIDE DEF f, g, S, here
      <4>5. /\ SumFunctionOnSet(f, S) = f[o] + SumFunctionOnSet(f, S \ {o})
            /\ SumFunctionOnSet(f, S \ {o}) \in Int
        BY <3>3, <4>4, SumWithout
      <4>6. SumFunctionOnSet(g, S \ {o}) = SumFunctionOnSet(f, S \ {o})
        BY <4>4, SumOfEqual
      <4>7. f[o] \in Nat /\ WorstCase(s, side) <= Bound /\ Bound \in Nat
        BY <1>0, <3>3, <4>4, BoundForm
      <4> DEFINE rest == SumFunctionOnSet(f, S \ {o})
      <4>8. /\ WorstCase(s, side)' = here + rest /\ rest \in Int
            /\ here + (f[o] + rest) <= Bound
        BY <4>1, <4>2, <4>5, <4>6, <4>7
      <4> HIDE DEF rest
      <4> QED BY <4>3, <4>7, <4>8
    <3> QED BY <3>2, <3>3
  <2> QED BY <2>1, <2>3
<1>7. ASSUME NEW o \in Orders, NEW q \in Quantities, NEW p \in Prices, ApplyFill(o, q, p)
      PROVE  /\ \A u \in Orders : orders'[u].quantity <= LargestOrder
             /\ \A s \in Symbols, side \in Sides : WorstCase(s, side)' <= Bound
  <2> DEFINE sym == SymbolOf[o]
             b   == orders[o].side
             fq  == FillQuantity(o, q)
             filled == orders[o].filled + fq
  <2>1. sym \in Symbols /\ b \in Sides /\ fq \in Nat \ {0} /\ fq <= Remaining(o)
    <3>1. q \in Int /\ Remaining(o) \in Int
      BY <1>0, BookAssumption DEF Remaining
    <3>2. fq \in Int /\ fq <= Remaining(o)
      BY <3>1, MinOfPair DEF FillQuantity
    <3>3. fq > 0
      BY <1>7 DEF ApplyFill
    <3> QED BY <1>0, <3>2, <3>3, BookAssumption
  <2>2. /\ IsLive(o)
        /\ orders' = [orders EXCEPT ![o].filled = filled, ![o].status = StatusAfter(o, filled)]
        /\ \A s \in Symbols : positions'[s].quantity =
             IF s = sym THEN positions[s].quantity + Signed(b, fq) ELSE positions[s].quantity
    BY <1>7 DEF ApplyFill, PositionAfter, ExposureInv, BookInv, TypeOK
  <2> HIDE DEF fq
  <2>3. /\ orders'[o].quantity = orders[o].quantity /\ orders'[o].filled = filled
        /\ orders'[o].side = b
        /\ orders'[o].status \in Live <=> filled < orders[o].quantity
        /\ \A u \in Orders \ {o} : orders'[u] = orders[u]
    <3>1. filled \in Nat /\ orders[o].quantity \in Nat
      BY <1>0, <2>1
    <3> QED BY <1>0, <2>2, <3>1 DEF StatusAfter, Live
  <2>4. \A u \in Orders : orders'[u].quantity <= LargestOrder
    BY <1>0, <2>3
  <2>5. /\ Left'[o] = Left[o] - fq /\ Left'[o] \in Nat
        /\ \A u \in Orders \ {o} : Left'[u] = Left[u]
    BY <1>0, <1>1, <2>1, <2>3 DEF Remaining
  <2>6. o \in OpenOn(sym, b) /\ (orders'[o].status \in Live <=> Left'[o] # 0)
    BY <1>0, <1>1, <2>1, <2>2, <2>3, <2>5 DEF OpenOn, OpenOrders, IsLive, Remaining
  <2>7. \A s, side : OpenOn(s, side)' =
             IF Left'[o] = 0 THEN OpenOn(s, side) \ {o} ELSE OpenOn(s, side)
    <3>1. OpenOrders' = IF Left'[o] = 0 THEN OpenOrders \ {o} ELSE OpenOrders
      BY <2>2, <2>3, <2>6 DEF OpenOrders, IsLive
    <3>2. \A u \in Orders : orders'[u].side = orders[u].side
      BY <2>3
    <3> QED BY <3>1, <3>2 DEF OpenOn, OpenOrders
  <2> HIDE DEF filled, sym, b
  <2>8. ASSUME NEW s \in Symbols, NEW side \in Sides PROVE WorstCase(s, side)' <= Bound
    <3> DEFINE f == Left
               g == Left'
               S == OpenOn(s, side)
               here == Signed(side, positions[s].quantity)
    <3>1. CASE s # sym
      <4>1. o \notin S
        BY <3>1 DEF OpenOn, sym
      <4>2. WorstCase(s, side)' = WorstCase(s, side)
        BY <1>3, <2>2, <2>5, <2>7, <3>1, <4>1, WorstCaseStays
      <4> QED BY <1>0, <4>2
    <3>2. CASE s = sym /\ side # b
      <4>1. o \notin S
        BY <3>2 DEF OpenOn, b
      <4>2. WorstCase(s, side)' = Signed(side, positions'[s].quantity) + SumFunctionOnSet(g, S)
        <5>1. OpenOn(s, side)' = S
          BY <2>7, <4>1
        <5>2. WorstCase(s, side)' = Signed(side, positions'[s].quantity)
                                      + SumFunctionOnSet(g, OpenOn(s, side)')
          BY DEF WorstCase, Left, OpenOn
        <5> QED BY <5>1, <5>2
      <4>3. WorstCase(s, side) = here + SumFunctionOnSet(f, S)
        BY WorstCaseForm
      <4>4. Signed(side, positions'[s].quantity) = here - fq /\ here \in Int
        BY <1>0, <2>1, <2>2, <3>2 DEF Signed, Sides
      <4>5. IsFiniteSet(S) /\ \A u \in S : g[u] = f[u] /\ f[u] \in Int
        BY <1>2, <1>3, <2>5, <4>1
      <4> HIDE DEF f, g, S, here
      <4> DEFINE sum == SumFunctionOnSet(f, S)
      <4>6. SumFunctionOnSet(g, S) = sum /\ sum \in Int
        BY <4>5, SumOfEqual, SumIsInt
      <4>7. WorstCase(s, side)' = here - fq + sum /\ here + sum <= Bound /\ Bound \in Nat
        BY <1>0, <4>2, <4>3, <4>4, <4>6, BoundForm
      <4> HIDE DEF sum
      <4> QED BY <2>1, <4>4, <4>6, <4>7
    <3>3. CASE s = sym /\ side = b
      <4>1. Signed(side, positions'[s].quantity) = here + fq /\ here \in Int
        BY <1>0, <2>1, <2>2, <3>3 DEF Signed, Sides
      <4>2. WorstCase(s, side)' = Signed(side, positions'[s].quantity)
                                    + SumFunctionOnSet(g, OpenOn(s, side)')
        BY DEF WorstCase, Left, OpenOn
      <4>3. WorstCase(s, side) = here + SumFunctionOnSet(f, S)
        BY WorstCaseForm
      <4>4. /\ IsFiniteSet(S) /\ o \in S
            /\ \A u \in S : f[u] \in Int /\ g[u] \in Int
            /\ \A u \in S \ {o} : g[u] = f[u]
            /\ g[o] = f[o] - fq
        <5>1. \A u \in S : f[u] \in Int
          BY <1>2, <1>3
        <5>2. \A u \in S \ {o} : g[u] = f[u]
          BY <1>3, <2>5
        <5>3. g[o] = f[o] - fq /\ g[o] \in Int
          BY <2>5
        <5> QED BY <1>3, <2>6, <3>3, <5>1, <5>2, <5>3
      <4> DEFINE S2 == OpenOn(s, side)'
      <4>5. S2 = IF g[o] = 0 THEN S \ {o} ELSE S
        BY <2>7
      <4> HIDE DEF f, g, S, S2, here
      <4>6. /\ SumFunctionOnSet(g, S) = SumFunctionOnSet(f, S) + (g[o] - f[o])
            /\ SumFunctionOnSet(f, S) \in Int
        BY <4>4, SumOfChanged
      <4>7. SumFunctionOnSet(g, S2) = SumFunctionOnSet(g, S)
        <5>1. CASE g[o] = 0
          <6>1. \A u \in S : g[u] \in Int
            BY <4>4
          <6>2. /\ SumFunctionOnSet(g, S) = g[o] + SumFunctionOnSet(g, S \ {o})
                /\ SumFunctionOnSet(g, S \ {o}) \in Int
            BY <4>4, <6>1, SumWithout
          <6> QED BY <4>5, <5>1, <6>2
        <5>2. CASE g[o] # 0
          BY <4>5, <5>2
        <5> QED BY <5>1, <5>2
      <4> DEFINE sum == SumFunctionOnSet(f, S)
      <4>8. /\ f[o] \in Int /\ fq \in Int /\ sum \in Int
            /\ SumFunctionOnSet(g, S) = sum - fq
        BY <2>1, <4>4, <4>6
      <4>9. WorstCase(s, side)' = (here + fq) + (sum - fq) /\ here + sum <= Bound /\ Bound \in Nat
        BY <1>0, <4>1, <4>2, <4>3, <4>7, <4>8, BoundForm DEF S2
      <4> HIDE DEF sum
      <4> QED BY <4>1, <4>8, <4>9
    <3> QED BY <3>1, <3>2, <3>3
  <2> QED BY <2>4, <2>8
<1>8. ASSUME NEW o \in Orders, CancelOrder(o) \/ RejectOrder(o) \/ SubmitReturns(o)
      PROVE  /\ \A u \in Orders : orders'[u].quantity <= LargestOrder
             /\ \A s \in Symbols, side \in Sides : WorstCase(s, side)' <= Bound
  <2>1. CASE CancelOrder(o)
    BY <1>6, <2>1 DEF CancelOrder
  <2>2. CASE RejectOrder(o)
    BY <1>6, <2>2 DEF RejectOrder
  <2>3. CASE SubmitReturns(o)
    <3>1. UNCHANGED <<orders, positions>>
      BY <2>3 DEF SubmitReturns
    <3>2. ASSUME NEW s \in Symbols, NEW side \in Sides
          PROVE  WorstCase(s, side)' = WorstCase(s, side)
      BY <3>1 DEF WorstCase, OpenOrders, Remaining
    <3> QED BY <1>0, <3>1, <3>2
  <2> QED BY <1>8, <2>1, <2>2, <2>3
<1> QED BY <1>5, <1>7, <1>8 DEF Next

LEMMA StutterExposure ==
  ASSUME Traded, ExposureInv, UNCHANGED vars
  PROVE  /\ \A o \in Orders : orders'[o].quantity <= LargestOrder
         /\ ExposureBounded'
<1>1. ASSUME NEW s \in Symbols, NEW side \in Sides
      PROVE  WorstCase(s, side)' = WorstCase(s, side)
  BY DEF vars, WorstCase, OpenOrders, Remaining
<1> QED BY <1>1 DEF vars, ExposureInv, ExposureBounded

LEMMA InitExposure == ASSUME Traded PROVE Init => ExposureInv
<1> SUFFICES ASSUME Init PROVE ExposureInv
  OBVIOUS
<1>1. BookInv
  BY InitBookInv
<1>2. \A o \in Orders : orders[o].quantity <= LargestOrder
  BY BoundForm DEF Init, Unknown
<1>3. ASSUME NEW s \in Symbols, NEW side \in Sides PROVE WorstCase(s, side) <= Bound
  <2> DEFINE f == Left
  <2>1. OpenOn(s, side) = {}
    BY DEF Init, Unknown, OpenOn, OpenOrders, Live
  <2>2. SumFunctionOnSet(f, {}) = 0
    BY SumOfNone
  <2>3. Signed(side, positions[s].quantity) = 0
    BY DEF Init, Signed
  <2>4. WorstCase(s, side) = 0
    BY <2>1, <2>2, <2>3, WorstCaseForm
  <2> QED BY <2>4, BoundForm
<1> QED BY <1>1, <1>2, <1>3, BoundedForm DEF ExposureInv

(* The checks ignore orders that are open but not filled; even so, if every *)
(* open order of one side filled and none of the other, the position would  *)
(* pass max_position_notional by at most the largest order the limits allow *)
(* for each further open slot.                                              *)
THEOREM ExposureStaysBounded ==
  ASSUME Traded PROVE Spec => []ExposureBounded
<1>1. ExposureInv /\ [Next]_vars => ExposureInv'
  <2> SUFFICES ASSUME ExposureInv, [Next]_vars PROVE ExposureInv'
    OBVIOUS
  <2>1. BookInv'
    BY StepBookInv DEF ExposureInv
  <2>2. CASE Next
    BY <2>1, <2>2, StepExposure DEF ExposureInv
  <2>3. CASE UNCHANGED vars
    BY <2>1, <2>3, StutterExposure DEF ExposureInv
  <2> QED BY <2>2, <2>3
<1>2. Init => ExposureInv
  BY InitExposure
<1>3. ExposureInv => ExposureBounded
  BY DEF ExposureInv
<1> QED BY <1>1, <1>2, <1>3, PTL DEF Spec
=============================================================================
