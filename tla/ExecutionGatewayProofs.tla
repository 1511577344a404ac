----------------------- MODULE ExecutionGatewayProofs -----------------------
(***************************************************************************)
(* Theorems about the gateway, for every set of orders and tasks, every    *)
(* limit and every combination of faults: under Spec, about one life of    *)
(* the process; under EngineSpec, about any number of them with snapshots  *)
(* and crashes between.  There what a start recovers comes from Redis, and *)
(* Recovered is empty.                                                     *)
(***************************************************************************)
EXTENDS EngineRecovery, FiniteSetTheorems, TLAPS

(***************************************************************************)
(* What a call does between two waits falls into three kinds, whichever of *)
(* place_order, cancel_order and replace_order it runs.                    *)
(***************************************************************************)

(* The books a call of t can leave behind before it places anything: the    *)
(* one it found, or that with an order cancelled which either has no        *)
(* exchange id or which the venue has just answered for.                    *)
BookAfter(t, b) ==
  \/ b = book
  \/ \E o \in Orders :
       /\ book[o] = "open" /\ b = Cancelled(o)
       /\ o \notin exchangeIds \/ (call[t].at = "deleted" /\ call[t].order = o)

Calm == UNCHANGED <<exchangeIds, orderSymbols, killSwitch, now, venue>>

(* The call of t ends without sending anything.                             *)
Ends(t, b) ==
  /\ book' = b
  /\ \E r \in Results : Return(t, r)
  /\ orderTimestamps' \in {orderTimestamps, Pruned(now)}
  /\ UNCHANGED <<cancelNonce, admittedAt>> /\ Calm

(* The call of t admits order o and waits for the venue.  A replacement is  *)
(* admitted once its peer is cancelled.                                     *)
Admits(t, o, peer, b) ==
  /\ ~killSwitch /\ Cardinality(OpenIn(b)) < MaxOpenOrders /\ WithinRate
  /\ b[o] = "absent" /\ (peer # NoOrder => b[peer] = "cancelled")
  /\ book' = [b EXCEPT ![o] = "open"]
  /\ Suspend(t, "submit", o, peer)
  /\ orderTimestamps' = Pruned(now)
  /\ admittedAt' = [admittedAt EXCEPT ![o] = now]
  /\ UNCHANGED cancelNonce /\ Calm

(* The call of t sends a DELETE for order o.                                *)
SendsDelete(t, o, n) ==
  /\ book[o] = "open" /\ o \in exchangeIds
  /\ cancelNonce' = [cancelNonce EXCEPT ![o] = @ + 1]
  /\ Suspend(t, "delete", o, n)
  /\ UNCHANGED <<book, orderTimestamps, admittedAt>> /\ Calm

Peers == Orders \cup {NoOrder}

(* U stands for the order ids nobody has used: the absent ones in           *)
(* ExecutionGateway, those no life of the process has used in               *)
(* EngineRecovery.  An id reserved for a replacement is left to its call.   *)
MayAdmit(t, o, U) ==
  o \in U /\ (o \notin Reserved \/ (call[t].at = "deleted" /\ o = call[t].peer))

CallStep(t, U) ==
  /\ call[t].at \in {"idle", "deleted"}
  /\ \/ \E b : BookAfter(t, b) /\ Ends(t, b)
     \/ \E b : \E o \in Orders, peer \in Peers :
          BookAfter(t, b) /\ MayAdmit(t, o, U) /\ Admits(t, o, peer, b)
     \/ \E o \in Orders, n \in Peers :
          (n # NoOrder => n \in U \ Reserved) /\ SendsDelete(t, o, n)

LEMMA BookAfterType ==
  ASSUME TypeOK, NEW t, NEW b, BookAfter(t, b)
  PROVE  /\ b \in [Orders -> Statuses]
         /\ \A o \in Orders : b[o] = "absent" <=> book[o] = "absent"
         /\ OpenIn(b) \subseteq OpenOrders
BY DEF TypeOK, BookAfter, Cancelled, Statuses, OpenIn, OpenOrders

LEMMA PlaceIsCallStep ==
  ASSUME TypeOK, NEW U, NEW t \in Tasks, NEW o \in Orders, NEW peer \in Peers, NEW b,
         BookAfter(t, b), call[t].at \in {"idle", "deleted"},
         book[o] = "absent" => MayAdmit(t, o, U),
         peer # NoOrder => b[peer] = "cancelled",
         Place(t, o, peer, b), UNCHANGED cancelNonce, Calm
  PROVE  CallStep(t, U)
<1>1. CASE ~WithinLimits(o, b)
  <2>1. Ends(t, b)
    BY <1>1 DEF Place, Ends, Results
  <2> QED BY <2>1 DEF CallStep
<1>2. CASE WithinLimits(o, b) /\ ~WithinRate
  <2>1. Ends(t, b)
    BY <1>2 DEF Place, Ends, Results
  <2> QED BY <2>1 DEF CallStep
<1>3. CASE WithinLimits(o, b) /\ WithinRate /\ Duplicate(o, b)
  <2>1. Ends(t, b)
    BY <1>3 DEF Place, Ends, Results
  <2> QED BY <2>1 DEF CallStep
<1>4. CASE WithinLimits(o, b) /\ WithinRate /\ ~Duplicate(o, b)
  <2>1. Admits(t, o, peer, b)
    BY <1>4 DEF Place, Admits, WithinLimits, Duplicate
  <2>2. MayAdmit(t, o, U)
    BY <2>1, BookAfterType DEF Admits
  <2> QED BY <2>1, <2>2 DEF CallStep
<1> QED BY <1>1, <1>2, <1>3, <1>4

LEMMA AfterCancelIsCallStep ==
  ASSUME TypeOK, NEW U, NEW t \in Tasks, NEW o \in Orders, NEW n \in Peers, NEW b,
         BookAfter(t, b), b[o] = "cancelled", call[t].at \in {"idle", "deleted"},
         n # NoOrder /\ book[n] = "absent" => MayAdmit(t, n, U),
         AfterCancel(t, o, n, b), UNCHANGED cancelNonce, Calm
  PROVE  CallStep(t, U)
<1>1. CASE n = NoOrder
  <2>1. Ends(t, b)
    BY <1>1, OrdersAssumption DEF AfterCancel, Ends, Results
  <2> QED BY <2>1 DEF CallStep
<1>2. CASE n # NoOrder
  <2>1. n \in Orders /\ Place(t, n, o, b)
    BY <1>2 DEF AfterCancel, Peers
  <2> QED BY <1>2, <2>1, PlaceIsCallStep DEF Peers
<1> QED BY <1>1, <1>2

LEMMA StartCancelIsCallStep ==
  ASSUME TypeOK, NEW U, NEW t \in Tasks, NEW o \in Orders, NEW n \in Peers,
         NEW idempotent \in BOOLEAN,
         n # NoOrder => n \in U /\ n \notin Reserved,
         call[t].at = "idle", StartCancel(t, o, n, idempotent), Calm
  PROVE  CallStep(t, U)
<1>1. BookAfter(t, book) /\ (n # NoOrder => MayAdmit(t, n, U))
  <2>1. BookAfter(t, book)
    BY DEF BookAfter
  <2>2. ASSUME n # NoOrder PROVE MayAdmit(t, n, U)
    BY <2>2, Zenon DEF MayAdmit
  <2> QED BY <2>1, <2>2
<1>2. CASE Refuse(t)
  <2>1. Ends(t, book)
    BY <1>2 DEF Refuse, Ends, Results
  <2> QED BY <1>1, <2>1 DEF CallStep
<1>3. CASE book[o] = "cancelled" /\ AfterCancel(t, o, n, book) /\ UNCHANGED cancelNonce
  BY <1>1, <1>3, AfterCancelIsCallStep
<1>4. CASE /\ Cancellable(o) /\ ~NeedsDelete(o)
           /\ AfterCancel(t, o, n, Cancelled(o)) /\ UNCHANGED cancelNonce
  <2>1. BookAfter(t, Cancelled(o))
    BY <1>4, Zenon DEF BookAfter, Cancellable, NeedsDelete
  <2>2. Cancelled(o)[o] = "cancelled"
    BY DEF Cancelled, TypeOK
  <2> QED BY <1>1, <1>4, <2>1, <2>2, AfterCancelIsCallStep
<1>5. CASE /\ Cancellable(o) /\ NeedsDelete(o)
           /\ cancelNonce' = [cancelNonce EXCEPT ![o] = @ + 1]
           /\ Suspend(t, "delete", o, n)
           /\ UNCHANGED <<book, orderTimestamps, admittedAt>>
  <2>1. SendsDelete(t, o, n)
    BY <1>5 DEF SendsDelete, Cancellable, NeedsDelete
  <2> QED BY <2>1 DEF CallStep
<1> QED BY <1>2, <1>3, <1>4, <1>5 DEF StartCancel

(* A call in progress is about an order the book knows, and so is every     *)
(* exchange id.                                                             *)
CallsNamed ==
  /\ \A t \in Tasks : call[t].at # "idle" =>
       call[t].order \in Orders /\ book[call[t].order] # "absent"
  /\ \A o \in exchangeIds : book[o] # "absent"

(* What the tasks, the venue, the operator and the clock can do when the    *)
(* ids used for new orders are of V.                                        *)
NextWith(V) ==
  \/ \E t \in Tasks :
       \/ \E o \in V : PlaceOrder(t, o)
       \/ \E o \in Orders, idempotent \in BOOLEAN : CancelOrder(t, o, idempotent)
       \/ \E o \in Orders, n \in V : ReplaceOrder(t, o, n)
       \/ Answer(t)
  \/ \E o \in Orders : VenueFills(o)
  \/ EngageKillSwitch \/ ReleaseKillSwitch \/ Tick

(* The same in the three kinds above.                                       *)
Moves(U) ==
  \/ \E t \in Tasks : \/ CallStep(t, U)
                      \/ VenueAccepts(t) \/ SubmitReturns(t)
                      \/ SubmitRejected(t) \/ VenueCancels(t)
                      \/ VenueRefusesCancel(t) \/ Raise(t)
  \/ \E o \in Orders : VenueFills(o)
  \/ EngageKillSwitch \/ ReleaseKillSwitch \/ Tick

LEMMA NextSplits ==
  ASSUME TypeOK, CallsNamed, NEW U, NEW V \in SUBSET Orders,
         \A o \in V \cup Reserved : o # NoOrder /\ book[o] = "absent" => o \in U,
         NextWith(V)
  PROVE  Moves(U)
<1>0. \A t : BookAfter(t, book)
  BY DEF BookAfter
<1>1. ASSUME NEW t \in Tasks, NEW o \in V, PlaceOrder(t, o)
      PROVE  CallStep(t, U)
  <2>1. o # NoOrder
    BY OrdersAssumption
  <2>2. /\ call[t].at = "idle" /\ o \notin Reserved
        /\ Place(t, o, NoOrder, book) /\ UNCHANGED cancelNonce /\ Calm
    BY <1>1 DEF PlaceOrder, Calm, mapVars
  <2>3. book[o] = "absent" => MayAdmit(t, o, U)
    <3>1. book[o] = "absent" => o \in U
      BY <2>1
    <3> QED BY <2>2, <3>1, Zenon DEF MayAdmit
  <2> QED BY <1>0, <2>2, <2>3, PlaceIsCallStep DEF Peers
<1>2. ASSUME NEW t \in Tasks, NEW o \in Orders, NEW idempotent \in BOOLEAN,
             CancelOrder(t, o, idempotent)
      PROVE  CallStep(t, U)
  <2>1. call[t].at = "idle" /\ StartCancel(t, o, NoOrder, idempotent) /\ Calm
    BY <1>2 DEF CancelOrder, Calm
  <2> QED BY <2>1, StartCancelIsCallStep DEF Peers
<1>3. ASSUME NEW t \in Tasks, NEW o \in Orders, NEW n \in V, ReplaceOrder(t, o, n)
      PROVE  CallStep(t, U)
  <2>1. n # NoOrder /\ n \in Orders
    BY OrdersAssumption
  <2>2. /\ call[t].at = "idle" /\ n \notin Reserved /\ book[n] = "absent"
        /\ StartCancel(t, o, n, TRUE) /\ Calm
    BY <1>3 DEF ReplaceOrder, Calm
  <2>3. n \in U
    BY <2>1, <2>2
  <2> QED BY <2>1, <2>2, <2>3, StartCancelIsCallStep DEF Peers
<1>4. ASSUME NEW t \in Tasks, CancelReturns(t)
      PROVE  CallStep(t, U)
  <2> DEFINE o == call[t].order
             n == call[t].peer
  <2>0. o \in Orders /\ n \in Peers /\ call[t].at = "deleted"
    BY <1>4 DEF CallsNamed, CancelReturns, TypeOK, Peers
  <2>1. CASE book[o] # "open"
    <3>1. Ends(t, book)
      BY <1>4, <2>1 DEF CancelReturns, Ends, Results, Calm, mapVars
    <3> QED BY <1>0, <2>0, <3>1 DEF CallStep
  <2>2. CASE book[o] = "open"
    <3>1. BookAfter(t, Cancelled(o)) /\ Cancelled(o)[o] = "cancelled"
      BY <2>0, <2>2 DEF BookAfter, Cancelled, TypeOK
    <3>2. n # NoOrder /\ book[n] = "absent" => MayAdmit(t, n, U)
      BY <2>0 DEF Reserved, MayAdmit
    <3>3. AfterCancel(t, o, n, Cancelled(o)) /\ UNCHANGED cancelNonce /\ Calm
      BY <1>4, <2>2 DEF CancelReturns, Calm, mapVars
    <3> HIDE DEF o, n
    <3> QED BY <2>0, <3>1, <3>2, <3>3, AfterCancelIsCallStep
  <2> QED BY <2>1, <2>2
<1> QED BY <1>1, <1>2, <1>3, <1>4, Zenon DEF NextWith, Answer, Moves

-----------------------------------------------------------------------------
(* Type correctness and the life of a submission.                           *)

(* The ids of U are new to the gateway and to the venue.                    *)
New(U)  == U \subseteq Orders /\ \A o \in U : book[o] = "absent" /\ venue[o] = "none"

(* Still true of those of them that are not in the book after the step.     *)
StillNew(U) == \A o \in U : book'[o] = "absent" => venue'[o] = "none"

(* An id a cancel in progress keeps for its replacement is one of U, and no *)
(* other call keeps it.                                                     *)
Keeps(t) == call[t].at \in {"delete", "deleted"} /\ call[t].peer # NoOrder

Kept(U) == \A t \in Tasks : Keeps(t) =>
             /\ call[t].peer \in U
             /\ \A u \in Tasks : Keeps(u) /\ call[u].peer = call[t].peer => u = t

BaseInv == TypeOK /\ CallsNamed /\ SubmittedOnce

Absent     == {o \in Orders : book[o] = "absent"}
GatewayInv == BaseInv /\ New(Absent) /\ Kept(Absent)

LEMMA InitGatewayInv == Init => GatewayInv
<1> SUFFICES ASSUME Init PROVE GatewayInv
  OBVIOUS
<1>1. TypeOK
  BY RecoveredAssumption, LimitsAssumption
     DEF Init, TypeOK, Idle, Statuses, VenueStates, ControlPoints, Results
<1>2. CallsNamed
  BY RecoveredAssumption DEF Init, CallsNamed, Idle
<1>3. SubmittedOnce
  BY DEF Init, SubmittedOnce, Submitters, Idle
<1>4. New(Absent)
  BY RecoveredAssumption DEF Init, New, Absent
<1>5. Kept(Absent)
  BY DEF Init, Kept, Keeps, Idle
<1> QED BY <1>1, <1>2, <1>3, <1>4, <1>5 DEF GatewayInv, BaseInv

LEMMA CallStepKeepsBaseInv ==
  ASSUME BaseInv, NEW U, New(U), NEW t \in Tasks, CallStep(t, U)
  PROVE  BaseInv' /\ StillNew(U)
<1> USE DEF BaseInv
<1>1. ASSUME NEW b, BookAfter(t, b), Ends(t, b)
      PROVE  BaseInv' /\ StillNew(U)
  <2>1. TypeOK'
    BY <1>1, BookAfterType
       DEF TypeOK, Ends, Return, Calm, Idle, Pruned, ControlPoints, Results
  <2>2. CallsNamed'
    BY <1>1, BookAfterType DEF CallsNamed, TypeOK, Ends, Return, Calm, Idle
  <2>3. SubmittedOnce'
    BY <1>1 DEF SubmittedOnce, Submitters, TypeOK, Ends, Return, Calm, Idle
  <2>4. StillNew(U)
    BY <1>1 DEF StillNew, New, Ends, Calm
  <2> QED BY <2>1, <2>2, <2>3, <2>4
<1>2. ASSUME NEW b, NEW o \in Orders, NEW peer \in Peers,
             BookAfter(t, b), MayAdmit(t, o, U), Admits(t, o, peer, b)
      PROVE  BaseInv' /\ StillNew(U)
  <2>1. TypeOK'
    BY <1>2, BookAfterType
       DEF TypeOK, Admits, Suspend, Calm, Pruned, ControlPoints, Results, Peers, Statuses
  <2>2. CallsNamed'
    BY <1>2, BookAfterType DEF CallsNamed, TypeOK, Admits, Suspend, Calm
  <2>3. SubmittedOnce'
    BY <1>2, BookAfterType
       DEF SubmittedOnce, Submitters, CallsNamed, New, MayAdmit, TypeOK, Admits, Suspend, Calm
  <2>4. StillNew(U)
    BY <1>2 DEF StillNew, New, Admits, Calm
  <2> QED BY <2>1, <2>2, <2>3, <2>4
<1>3. ASSUME NEW o \in Orders, NEW n \in Peers, SendsDelete(t, o, n)
      PROVE  BaseInv' /\ StillNew(U)
  <2>1. TypeOK'
    BY <1>3 DEF TypeOK, SendsDelete, Suspend, Calm, ControlPoints, Results, Peers
  <2>2. CallsNamed'
    BY <1>3 DEF CallsNamed, TypeOK, SendsDelete, Suspend, Calm
  <2>3. SubmittedOnce'
    BY <1>3 DEF SubmittedOnce, Submitters, TypeOK, SendsDelete, Suspend, Calm
  <2>4. StillNew(U)
    BY <1>3 DEF StillNew, New, SendsDelete, Calm
  <2> QED BY <2>1, <2>2, <2>3, <2>4
<1> QED BY <1>1, <1>2, <1>3 DEF CallStep

(* No order leaves the book.                                                *)
LEMMA NeverAbsentAgain ==
  ASSUME BaseInv, NEW U, Moves(U) \/ UNCHANGED vars
  PROVE  \A o \in Orders : book'[o] = "absent" => book[o] = "absent"
<1>0. TypeOK
  BY DEF BaseInv
<1>1. ASSUME NEW t \in Tasks, CallStep(t, U)
      PROVE  \A o \in Orders : book'[o] = "absent" => book[o] = "absent"
  <2>1. ASSUME NEW b, BookAfter(t, b), Ends(t, b)
        PROVE  \A o \in Orders : book'[o] = "absent" => book[o] = "absent"
    BY <1>0, <2>1, BookAfterType DEF Ends
  <2>2. ASSUME NEW b, NEW p \in Orders, NEW peer \in Peers,
               BookAfter(t, b), Admits(t, p, peer, b)
        PROVE  \A o \in Orders : book'[o] = "absent" => book[o] = "absent"
    BY <1>0, <2>2, BookAfterType DEF Admits
  <2> QED BY <1>1, <2>1, <2>2 DEF CallStep, SendsDelete
<1>2. ASSUME NEW t \in Tasks, SubmitRejected(t)
      PROVE  \A o \in Orders : book'[o] = "absent" => book[o] = "absent"
  BY <1>0, <1>2 DEF SubmitRejected, Rejected, TypeOK
<1>3. ASSUME book' = book
      PROVE  \A o \in Orders : book'[o] = "absent" => book[o] = "absent"
  BY <1>3
<1> QED BY <1>1, <1>2, <1>3, Zenon
        DEF Moves, VenueAccepts, SubmitReturns, VenueCancels, VenueRefusesCancel, VenueStep, Raise,
            VenueFills, EngageKillSwitch, ReleaseKillSwitch, Tick, vars

LEMMA StepBaseInv ==
  ASSUME BaseInv, NEW U, New(U), Moves(U) \/ UNCHANGED vars
  PROVE  BaseInv' /\ StillNew(U)
<1> USE DEF BaseInv, mapVars, riskVars
<1>1. ASSUME NEW t \in Tasks, CallStep(t, U) PROVE BaseInv' /\ StillNew(U)
  BY <1>1, CallStepKeepsBaseInv
<1>2. ASSUME NEW t \in Tasks, VenueAccepts(t) PROVE BaseInv' /\ StillNew(U)
  <2>1. TypeOK'
    BY <1>2 DEF VenueAccepts, VenueStep, TypeOK, ControlPoints, VenueStates
  <2>2. CallsNamed'
    BY <1>2 DEF VenueAccepts, VenueStep, TypeOK, CallsNamed
  <2>3. SubmittedOnce'
    BY <1>2 DEF VenueAccepts, VenueStep, TypeOK, CallsNamed, SubmittedOnce, Submitters
  <2>4. StillNew(U)
    BY <1>2 DEF VenueAccepts, VenueStep, StillNew, New, CallsNamed
  <2> QED BY <2>1, <2>2, <2>3, <2>4
<1>3. ASSUME NEW t \in Tasks, SubmitReturns(t) PROVE BaseInv' /\ StillNew(U)
  <2>1. TypeOK'
    BY <1>3 DEF SubmitReturns, Tracked, Return, Idle, Pruned, TypeOK, CallsNamed,
                Submission, ControlPoints, Results
  <2>2. CallsNamed'
    BY <1>3 DEF SubmitReturns, Tracked, Return, Idle, TypeOK, CallsNamed
  <2>3. SubmittedOnce'
    BY <1>3 DEF SubmitReturns, Tracked, Return, Idle, TypeOK, CallsNamed,
                SubmittedOnce, Submitters
  <2>4. StillNew(U)
    BY <1>3 DEF SubmitReturns, StillNew, New, CallsNamed
  <2> QED BY <2>1, <2>2, <2>3, <2>4
<1>4. ASSUME NEW t \in Tasks, SubmitRejected(t) PROVE BaseInv' /\ StillNew(U)
  <2>1. TypeOK'
    BY <1>4 DEF SubmitRejected, Rejected, Return, Idle, TypeOK, CallsNamed,
                Statuses, ControlPoints, Results
  <2>2. CallsNamed'
    BY <1>4 DEF SubmitRejected, Rejected, Return, Idle, TypeOK, CallsNamed
  <2>3. SubmittedOnce'
    BY <1>4 DEF SubmitRejected, Return, Idle, TypeOK, SubmittedOnce, Submitters
  <2>4. StillNew(U)
    BY <1>4 DEF SubmitRejected, StillNew, New, CallsNamed
  <2> QED BY <2>1, <2>2, <2>3, <2>4
<1>5. ASSUME NEW t \in Tasks, VenueCancels(t) PROVE BaseInv' /\ StillNew(U)
  <2>1. TypeOK'
    <3>1. /\ call' = [call EXCEPT ![t].at = "deleted"]
          /\ venue' = [venue EXCEPT ![call[t].order] = "cancelled"]
          /\ UNCHANGED <<book, exchangeIds, orderSymbols, cancelNonce, killSwitch,
                         orderTimestamps, now, result, admittedAt>>
      BY <1>5 DEF VenueCancels, VenueStep
    <3> QED BY <3>1 DEF TypeOK, ControlPoints, VenueStates
  <2>2. CallsNamed'
    BY <1>5 DEF VenueCancels, VenueStep, TypeOK, CallsNamed
  <2>3. SubmittedOnce'
    BY <1>5 DEF VenueCancels, VenueStep, TypeOK, CallsNamed, SubmittedOnce, Submitters
  <2>4. StillNew(U)
    BY <1>5 DEF VenueCancels, VenueStep, StillNew, New, CallsNamed
  <2> QED BY <2>1, <2>2, <2>3, <2>4
<1>6. ASSUME NEW t \in Tasks, VenueRefusesCancel(t) PROVE BaseInv' /\ StillNew(U)
  <2>1. TypeOK'
    BY <1>6 DEF VenueRefusesCancel, VenueStep, TypeOK, CallsNamed, ControlPoints
  <2>2. CallsNamed'
    BY <1>6 DEF VenueRefusesCancel, VenueStep, TypeOK, CallsNamed
  <2>3. SubmittedOnce'
    BY <1>6 DEF VenueRefusesCancel, VenueStep, TypeOK, CallsNamed, SubmittedOnce, Submitters
  <2>4. StillNew(U)
    BY <1>6 DEF VenueRefusesCancel, VenueStep, StillNew, New, CallsNamed
  <2> QED BY <2>1, <2>2, <2>3, <2>4
<1>7. ASSUME NEW t \in Tasks, Raise(t) PROVE BaseInv' /\ StillNew(U)
  <2>1. TypeOK'
    BY <1>7 DEF Raise, Return, Idle, TypeOK, ControlPoints, Results
  <2>2. CallsNamed'
    BY <1>7 DEF Raise, Return, Idle, TypeOK, CallsNamed
  <2>3. SubmittedOnce'
    BY <1>7 DEF Raise, Return, Idle, TypeOK, SubmittedOnce, Submitters
  <2>4. StillNew(U)
    BY <1>7 DEF Raise, StillNew, New, CallsNamed
  <2> QED BY <2>1, <2>2, <2>3, <2>4
<1>8. ASSUME NEW o \in Orders, VenueFills(o) PROVE BaseInv' /\ StillNew(U)
  BY <1>8 DEF VenueFills, TypeOK, CallsNamed, SubmittedOnce, Submitters, VenueStates,
              StillNew, New
<1>9. CASE EngageKillSwitch \/ ReleaseKillSwitch \/ Tick \/ UNCHANGED vars
  <2>1. UNCHANGED <<book, exchangeIds, orderSymbols, cancelNonce, orderTimestamps,
                    call, result, venue, admittedAt>>
    BY <1>9 DEF EngageKillSwitch, ReleaseKillSwitch, Tick, vars
  <2>2. killSwitch' \in BOOLEAN
    BY <1>9, Zenon DEF EngageKillSwitch, ReleaseKillSwitch, Tick, vars, TypeOK
  <2>3. now' = now \/ now' = now + 1
    BY <1>9 DEF EngageKillSwitch, ReleaseKillSwitch, Tick, vars
  <2>4. now' \in Nat
    BY <2>3 DEF TypeOK
  <2> QED BY <2>1, <2>2, <2>4 DEF TypeOK, CallsNamed, SubmittedOnce, Submitters, StillNew, New
<1> HIDE DEF BaseInv, mapVars, riskVars
<1> QED BY <1>1, <1>2, <1>3, <1>4, <1>5, <1>6, <1>7, <1>8, <1>9 DEF Moves

(* Still so after the step, and the order is not in the book.               *)
StillKept(U) == \A t \in Tasks : Keeps(t)' =>
                  /\ call'[t].peer \in U /\ book'[call'[t].peer] = "absent"
                  /\ \A u \in Tasks : Keeps(u)' /\ call'[u].peer = call'[t].peer => u = t

LEMMA StepKept ==
  ASSUME BaseInv, NEW U, New(U), Kept(U), Moves(U) \/ UNCHANGED vars
  PROVE  StillKept(U)
<1>0. TypeOK /\ CallsNamed
  BY DEF BaseInv
<1> USE DEF StillKept, Kept, Keeps
<1>1. ASSUME NEW t \in Tasks, NEW b, BookAfter(t, b), Ends(t, b)
      PROVE  StillKept(U)
  <2>1. call' = [call EXCEPT ![t] = Idle] /\ book' = b
    BY <1>1 DEF Ends, Return
  <2> QED BY <1>0, <1>1, <2>1, BookAfterType DEF Idle, New, TypeOK
<1>2. ASSUME NEW t \in Tasks, NEW b, NEW o \in Orders, NEW peer \in Peers,
             BookAfter(t, b), MayAdmit(t, o, U), Admits(t, o, peer, b)
      PROVE  StillKept(U)
  <2>1. /\ call' = [call EXCEPT ![t] = [at |-> "submit", order |-> o, peer |-> peer, ts |-> now]]
        /\ book' = [b EXCEPT ![o] = "open"]
    BY <1>2 DEF Admits, Suspend
  <2>2. \A u \in Tasks : Keeps(u) /\ u # t => call[u].peer # o
    BY <1>2 DEF MayAdmit, Reserved
  <2>3. \A u \in Tasks : Keeps(u)' => u # t /\ Keeps(u) /\ call'[u] = call[u]
    BY <1>0, <2>1 DEF TypeOK
  <2>4. \A p \in U : p # o => book'[p] = "absent"
    BY <1>0, <1>2, <2>1, BookAfterType DEF New
  <2> QED BY <2>2, <2>3, <2>4
<1>3. ASSUME NEW t \in Tasks, NEW o \in Orders, NEW n \in Peers,
             n # NoOrder => n \in U \ Reserved, SendsDelete(t, o, n)
      PROVE  StillKept(U)
  <2>1. /\ call' = [call EXCEPT ![t] = [at |-> "delete", order |-> o, peer |-> n, ts |-> now]]
        /\ book' = book
    BY <1>3 DEF SendsDelete, Suspend
  <2>2. \A u \in Tasks : Keeps(u) => call[u].peer \in Reserved
    BY DEF Reserved
  <2>3. call'[t].at = "delete" /\ call'[t].peer = n
    BY <1>0, <2>1 DEF TypeOK
  <2>4. \A u \in Tasks : u # t => call'[u] = call[u]
    BY <1>0, <2>1 DEF TypeOK
  <2> QED BY <1>3, <2>1, <2>2, <2>3, <2>4 DEF New
<1>4. ASSUME NEW t \in Tasks, SubmitReturns(t) \/ SubmitRejected(t) \/ Raise(t)
      PROVE  StillKept(U)
  <2>1. call' = [call EXCEPT ![t] = Idle]
    BY <1>4 DEF SubmitReturns, SubmitRejected, Raise, Return
  <2>2. \A o \in U : book'[o] = "absent"
    BY <1>0, <1>4 DEF SubmitReturns, SubmitRejected, Rejected, Raise, New, CallsNamed, TypeOK
  <2> QED BY <1>0, <2>1, <2>2 DEF Idle, TypeOK
<1>5. ASSUME NEW t \in Tasks,
             VenueAccepts(t) \/ VenueCancels(t) \/ VenueRefusesCancel(t)
      PROVE  StillKept(U)
  <2>1. \/ call[t].at = "submit" /\ call' = [call EXCEPT ![t].at = "accepted"]
        \/ call[t].at = "delete" /\ call' = [call EXCEPT ![t].at = "deleted"]
    BY <1>5 DEF VenueAccepts, VenueCancels, VenueRefusesCancel, VenueStep
  <2>2. book' = book
    BY <1>5 DEF VenueAccepts, VenueCancels, VenueRefusesCancel, VenueStep
  <2>3. \A u \in Tasks : (Keeps(u)' <=> Keeps(u)) /\ call'[u].peer = call[u].peer
    BY <1>0, <2>1 DEF TypeOK
  <2> QED BY <2>2, <2>3 DEF New
<1>6. CASE \/ \E o \in Orders : VenueFills(o)
           \/ EngageKillSwitch \/ ReleaseKillSwitch \/ Tick \/ UNCHANGED vars
  <2>1. UNCHANGED <<book, call>>
    BY <1>6 DEF VenueFills, EngageKillSwitch, ReleaseKillSwitch, Tick, vars
  <2> QED BY <2>1 DEF New
<1> HIDE DEF StillKept, Kept, Keeps
<1>7. ASSUME NEW t \in Tasks, CallStep(t, U)
      PROVE  StillKept(U)
  BY <1>1, <1>2, <1>3, <1>7 DEF CallStep
<1> QED BY <1>4, <1>5, <1>6, <1>7 DEF Moves

LEMMA GatewayMoves ==
  ASSUME GatewayInv, [Next]_vars
  PROVE  Moves(Absent) \/ UNCHANGED vars
<1>1. CASE Next
  <2> DEFINE U == Absent
  <2>1. NextWith(Orders)
    BY <1>1 DEF Next, NextWith
  <2>2. \A o \in Orders \cup Reserved : o # NoOrder /\ book[o] = "absent" => o \in U
    <3> SUFFICES ASSUME NEW o \in Reserved, o # NoOrder PROVE o \in Orders
      BY DEF Absent
    <3> QED BY DEF Reserved, GatewayInv, BaseInv, TypeOK
  <2> HIDE DEF U
  <2>3. Moves(U)
    BY <2>1, <2>2, NextSplits DEF GatewayInv, BaseInv
  <2> QED BY <2>3 DEF U
<1> QED BY <1>1

LEMMA StepGatewayInv == GatewayInv /\ [Next]_vars => GatewayInv'
<1> SUFFICES ASSUME GatewayInv, [Next]_vars PROVE GatewayInv'
  OBVIOUS
<1> DEFINE U == Absent
<1>1. Moves(U) \/ UNCHANGED vars
  BY GatewayMoves
<1>2. New(U) /\ Kept(U) /\ BaseInv
  BY DEF GatewayInv
<1>3. BaseInv' /\ StillNew(U) /\ StillKept(U)
  <2> HIDE DEF U
  <2> QED BY <1>1, <1>2, StepBaseInv, StepKept
<1>4. \A o \in Orders : book'[o] = "absent" => o \in U
  BY <1>1, <1>2, NeverAbsentAgain DEF Absent
<1>5. New(Absent)'
  BY <1>3, <1>4 DEF New, Absent, StillNew
<1>6. Kept(Absent)'
  BY <1>3 DEF Kept, StillKept, Absent
<1> QED BY <1>3, <1>5, <1>6 DEF GatewayInv

(* The gateway's variables keep their types under every interleaving.       *)
THEOREM TypeCorrect == Spec => []TypeOK
<1>1. Spec => []GatewayInv
  BY InitGatewayInv, StepGatewayInv, PTL DEF Spec
<1> QED BY <1>1, PTL DEF GatewayInv, BaseInv

(* No order id is ever sent to the venue twice.                             *)
THEOREM NoDoubleSubmission == Spec => []SubmittedOnce
<1>1. Spec => []GatewayInv
  BY InitGatewayInv, StepGatewayInv, PTL DEF Spec
<1> QED BY <1>1, PTL DEF GatewayInv, BaseInv

-----------------------------------------------------------------------------
(* The open-order limit.                                                    *)

LEMMA BoundedSubset ==
  ASSUME NEW S, NEW T \in SUBSET S, NEW n \in Nat,
         IsFiniteSet(S), Cardinality(S) <= n
  PROVE  IsFiniteSet(T) /\ Cardinality(T) <= n
BY FS_Subset, FS_CardinalityType

LEMMA OpenOrdersFinite ==
  ASSUME NEW b
  PROVE  IsFiniteSet(OpenIn(b)) /\ Cardinality(OpenIn(b)) \in Nat
BY OrdersAssumption, FS_Subset, FS_CardinalityType DEF OpenIn

(* A step that admits nothing: no order opens or starts towards the venue,  *)
(* and the gateway learns exchange ids only of orders it was submitting.    *)
Settles == /\ OpenOrders' \subseteq OpenOrders
           /\ Submitting' \subseteq Submitting
           /\ exchangeIds' \subseteq exchangeIds \cup Submitting
           /\ admittedAt' = admittedAt
           /\ now' \in {now, now + 1}

SomeAdmission == \E t \in Tasks : \E b : \E o \in Orders, peer \in Peers :
                   BookAfter(t, b) /\ Admits(t, o, peer, b)

LEMMA SettlesOrAdmits ==
  ASSUME BaseInv, NEW U, Moves(U) \/ UNCHANGED vars
  PROVE  Settles \/ SomeAdmission
<1> USE DEF Settles, Submitting, Submitters, OpenOrders, OpenIn
<1>0. TypeOK /\ CallsNamed
  BY DEF BaseInv
<1>1. ASSUME NEW t \in Tasks, NEW b, BookAfter(t, b), Ends(t, b)
      PROVE  Settles
  BY <1>0, <1>1, BookAfterType DEF Ends, Return, Idle, Calm, TypeOK
<1>2. ASSUME NEW t \in Tasks, NEW o \in Orders, NEW n \in Peers, SendsDelete(t, o, n)
      PROVE  Settles
  BY <1>0, <1>2 DEF SendsDelete, Suspend, Calm, TypeOK
<1>3. ASSUME NEW t \in Tasks, SubmitReturns(t)
      PROVE  Settles
  BY <1>0, <1>3 DEF SubmitReturns, Tracked, Return, Idle, TypeOK
<1>4. ASSUME NEW t \in Tasks, SubmitRejected(t)
      PROVE  Settles
  BY <1>0, <1>4 DEF SubmitRejected, Rejected, Return, Idle, TypeOK, Statuses, mapVars
<1>5. ASSUME NEW t \in Tasks, Raise(t)
      PROVE  Settles
  BY <1>0, <1>5 DEF Raise, Return, Idle, TypeOK, mapVars
<1>6. ASSUME NEW t \in Tasks,
             VenueAccepts(t) \/ VenueCancels(t) \/ VenueRefusesCancel(t)
      PROVE  Settles
  BY <1>0, <1>6 DEF VenueAccepts, VenueCancels, VenueRefusesCancel, VenueStep, TypeOK, mapVars
<1>7. CASE \/ \E o \in Orders : VenueFills(o)
           \/ EngageKillSwitch \/ ReleaseKillSwitch \/ Tick \/ UNCHANGED vars
  BY <1>7 DEF VenueFills, EngageKillSwitch, ReleaseKillSwitch, Tick, vars, mapVars
<1> HIDE DEF Settles, Submitting, Submitters, OpenOrders, OpenIn
<1>8. ASSUME NEW t \in Tasks, CallStep(t, U)
      PROVE  Settles \/ SomeAdmission
  BY <1>1, <1>2, <1>8 DEF CallStep, SomeAdmission
<1> QED BY <1>3, <1>4, <1>5, <1>6, <1>7, <1>8 DEF Moves

LEMMA GatewaySettlesOrAdmits ==
  ASSUME GatewayInv, [Next]_vars
  PROVE  Settles \/ SomeAdmission
<1> DEFINE U == Absent
<1>1. Moves(U) \/ UNCHANGED vars
  BY GatewayMoves
<1> HIDE DEF U
<1> QED BY <1>1, SettlesOrAdmits DEF GatewayInv

LEMMA AdmissionKeepsBound ==
  ASSUME BaseInv, NEW t \in Tasks, NEW b, NEW o \in Orders, NEW peer \in Peers,
         BookAfter(t, b), Admits(t, o, peer, b)
  PROVE  OpenOrdersBounded'
<1>1. OpenOrders' \subseteq OpenIn(b) \cup {o}
  BY BookAfterType DEF BaseInv, Admits, OpenOrders, OpenIn
<1>2. IsFiniteSet(OpenIn(b) \cup {o})
      /\ Cardinality(OpenIn(b) \cup {o}) <= MaxOpenOrders
  <2>1. IsFiniteSet(OpenIn(b)) /\ Cardinality(OpenIn(b)) \in Nat
    BY OpenOrdersFinite
  <2>2. IsFiniteSet(OpenIn(b) \cup {o})
        /\ \/ Cardinality(OpenIn(b) \cup {o}) = Cardinality(OpenIn(b))
           \/ Cardinality(OpenIn(b) \cup {o}) = Cardinality(OpenIn(b)) + 1
    BY <2>1, FS_AddElement
  <2>3. Cardinality(OpenIn(b)) < MaxOpenOrders
    BY DEF Admits
  <2> QED BY <2>1, <2>2, <2>3, LimitsAssumption
<1> QED BY <1>1, <1>2, BoundedSubset, LimitsAssumption DEF OpenOrdersBounded

LEMMA StepKeepsBound ==
  ASSUME BaseInv, OpenOrdersBounded, NEW U, Moves(U) \/ UNCHANGED vars
  PROVE  OpenOrdersBounded'
<1>1. CASE Settles
  BY <1>1, BoundedSubset, OpenOrdersFinite, LimitsAssumption
     DEF OpenOrdersBounded, OpenOrders, Settles
<1>2. CASE SomeAdmission
  BY <1>2, AdmissionKeepsBound DEF SomeAdmission
<1> QED BY <1>1, <1>2, SettlesOrAdmits

(* No interleaving of place, cancel and replace holds more open orders than *)
(* max_open_orders.                                                         *)
THEOREM OpenOrdersStayBounded == Spec => []OpenOrdersBounded
<1>1. Init => OpenOrdersBounded
  <2> SUFFICES ASSUME Init PROVE OpenOrdersBounded
    OBVIOUS
  <2>1. OpenOrders = Recovered
    BY RecoveredAssumption DEF Init, OpenOrders, OpenIn
  <2> QED BY <2>1, RecoveredAssumption DEF OpenOrdersBounded
<1>2. GatewayInv /\ OpenOrdersBounded /\ [Next]_vars => OpenOrdersBounded'
  BY GatewayMoves, StepKeepsBound DEF GatewayInv
<1> QED BY <1>1, <1>2, InitGatewayInv, StepGatewayInv, PTL DEF Spec

-----------------------------------------------------------------------------
(* The kill switch.                                                         *)

(* While the kill switch is engaged nothing new is sent, not even the order *)
(* of a replace whose cancel was already under way.                         *)
THEOREM KillSwitchFreezes == Spec => KillFreezesAdmission
<1>1. GatewayInv /\ [Next]_vars
        => [killSwitch /\ killSwitch' => Submitting' \subseteq Submitting]_vars
  BY GatewaySettlesOrAdmits DEF Settles, SomeAdmission, Admits
<1> QED BY <1>1, InitGatewayInv, StepGatewayInv, PTL DEF Spec, KillFreezesAdmission

-----------------------------------------------------------------------------
(* The order rate.                                                          *)

(* The timestamps kept are enough to count the recent orders: every recent  *)
(* order with an exchange id is still recorded, and an order being          *)
(* submitted carries the time of its checks.                                *)
RatesKnown ==
  /\ IsFiniteSet(orderTimestamps)
  /\ \A o \in exchangeIds : admittedAt[o] > now - Second =>
       [order |-> o, at |-> admittedAt[o]] \in orderTimestamps
  /\ \A t \in Submitters : /\ call[t].ts = admittedAt[call[t].order]
                           /\ call[t].ts <= now

(* The orders the rate check can know of, and those of them that are in     *)
(* flight; the rest of SentRecently is Unrecorded.                          *)
RecentOrders == {o \in exchangeIds \cup Submitting : admittedAt[o] > now - Second}

KnownBounded == Cardinality(RecentOrders) <= MaxOrdersPerSecond + Cardinality(Tasks) - 1

RateInv == RatesKnown /\ KnownBounded

LEMMA PrunedFinite ==
  ASSUME IsFiniteSet(orderTimestamps), NEW at
  PROVE  IsFiniteSet(Pruned(at))
BY FS_Subset DEF Pruned

LEMMA InitRatesKnown == Init => RatesKnown
<1> SUFFICES ASSUME Init PROVE RatesKnown
  OBVIOUS
<1>1. Submitters = {}
  BY DEF Init, Submitters, Idle
<1>2. IsFiniteSet(orderTimestamps)
  BY FS_EmptySet DEF Init
<1>3. \A o \in exchangeIds : ~(admittedAt[o] > now - Second)
  BY RecoveredAssumption, LimitsAssumption DEF Init
<1> QED BY <1>1, <1>2, <1>3 DEF RatesKnown

LEMMA StepRatesKnown ==
  ASSUME GatewayInv, RatesKnown, [Next]_vars
  PROVE  RatesKnown'
<1>0. TypeOK /\ CallsNamed /\ SubmittedOnce
  BY DEF GatewayInv, BaseInv
<1> USE LimitsAssumption DEF RatesKnown, Submitters
<1>1. ASSUME NEW t \in Tasks, NEW b, BookAfter(t, b), Ends(t, b)
      PROVE  RatesKnown'
  <2>1. IsFiniteSet(orderTimestamps')
    BY <1>1, PrunedFinite DEF Ends
  <2>2. \A s \in orderTimestamps : s.at > now - Second => s \in orderTimestamps'
    BY <1>1 DEF Ends, Pruned
  <2> QED BY <1>0, <1>1, <2>1, <2>2 DEF Ends, Return, Idle, Calm, TypeOK
<1>2. ASSUME NEW t \in Tasks, NEW b, NEW o \in Orders, NEW peer \in Peers,
             BookAfter(t, b), Admits(t, o, peer, b)
      PROVE  RatesKnown'
  <2>1. IsFiniteSet(orderTimestamps')
    BY <1>2, PrunedFinite DEF Admits
  <2>2. \A s \in orderTimestamps : s.at > now - Second => s \in orderTimestamps'
    BY <1>2 DEF Admits, Pruned
  <2>3. o \notin exchangeIds /\ \A u \in Submitters : call[u].order # o
    BY <1>0, <1>2, BookAfterType DEF Admits, CallsNamed
  <2>4. \A p \in exchangeIds' : admittedAt'[p] = admittedAt[p] /\ p \in exchangeIds
    BY <1>0, <1>2, <2>3 DEF Admits, Calm, TypeOK
  <2>5. \A u \in Submitters' : /\ call'[u].ts = admittedAt'[call'[u].order]
                               /\ call'[u].ts <= now'
    BY <1>0, <1>2, <2>3 DEF Admits, Suspend, Calm, TypeOK, CallsNamed
  <2> QED BY <1>2, <2>1, <2>2, <2>4, <2>5 DEF Admits, Calm
<1>3. ASSUME NEW t \in Tasks, NEW o \in Orders, NEW n \in Peers, SendsDelete(t, o, n)
      PROVE  RatesKnown'
  BY <1>0, <1>3 DEF SendsDelete, Suspend, Calm, TypeOK
<1>4. ASSUME NEW t \in Tasks, SubmitReturns(t)
      PROVE  RatesKnown'
  <2> DEFINE rec == [order |-> call[t].order, at |-> call[t].ts]
  <2>1. IsFiniteSet(orderTimestamps')
    BY <1>4, PrunedFinite, FS_AddElement DEF SubmitReturns
  <2>2. call[t].ts <= now /\ call[t].ts = admittedAt[call[t].order]
    BY <1>4 DEF SubmitReturns
  <2>3. \A s \in orderTimestamps : s.at > now - Second => s \in orderTimestamps'
    BY <1>0, <1>4, <2>2 DEF SubmitReturns, Pruned, TypeOK, Submission
  <2>4. rec \in orderTimestamps'
    BY <1>4 DEF SubmitReturns
  <2>5. \A p \in exchangeIds' : admittedAt'[p] > now' - Second =>
          [order |-> p, at |-> admittedAt'[p]] \in orderTimestamps'
    BY <1>4, <2>2, <2>3, <2>4 DEF SubmitReturns, Tracked
  <2>6. \A u \in Submitters' : /\ call'[u].ts = admittedAt'[call'[u].order]
                               /\ call'[u].ts <= now'
    BY <1>0, <1>4 DEF SubmitReturns, Return, Idle, TypeOK
  <2> QED BY <2>1, <2>5, <2>6
<1>5. ASSUME NEW t \in Tasks, SubmitRejected(t) \/ Raise(t)
      PROVE  RatesKnown'
  BY <1>0, <1>5 DEF SubmitRejected, Raise, Return, Idle, TypeOK, mapVars, riskVars
<1>6. ASSUME NEW t \in Tasks,
             VenueAccepts(t) \/ VenueCancels(t) \/ VenueRefusesCancel(t)
      PROVE  RatesKnown'
  <2>1. UNCHANGED <<exchangeIds, orderTimestamps, now, admittedAt>>
    BY <1>6 DEF VenueAccepts, VenueCancels, VenueRefusesCancel, VenueStep,
                mapVars, riskVars
  <2>2. \A u \in Tasks : call'[u].order = call[u].order /\ call'[u].ts = call[u].ts
    BY <1>0, <1>6 DEF VenueAccepts, VenueCancels, VenueRefusesCancel, VenueStep, TypeOK
  <2>3. Submitters' \subseteq Submitters
    BY <1>0, <1>6 DEF VenueAccepts, VenueCancels, VenueRefusesCancel, VenueStep, TypeOK
  <2> QED BY <2>1, <2>2, <2>3
<1>7. CASE \/ \E o \in Orders : VenueFills(o)
           \/ EngageKillSwitch \/ ReleaseKillSwitch \/ Tick \/ UNCHANGED vars
  <2>1. UNCHANGED <<exchangeIds, orderTimestamps, call, admittedAt>>
    BY <1>7 DEF VenueFills, EngageKillSwitch, ReleaseKillSwitch, Tick, vars, mapVars, riskVars
  <2>2. now' = now \/ now' = now + 1
    BY <1>7 DEF VenueFills, EngageKillSwitch, ReleaseKillSwitch, Tick, vars
  <2> QED BY <1>0, <2>1, <2>2 DEF TypeOK
<1> HIDE DEF RatesKnown, Submitters
<1>8. ASSUME NEW t \in Tasks, CallStep(t, Absent)
      PROVE  RatesKnown'
  BY <1>1, <1>2, <1>3, <1>8 DEF CallStep
<1> QED BY <1>4, <1>5, <1>6, <1>7, <1>8, GatewayMoves DEF Moves

(* The image of a finite set has no more elements than the set.             *)
LEMMA ImageBound ==
  ASSUME NEW S, IsFiniteSet(S), NEW f, f = [x \in S |-> f[x]]
  PROVE  /\ IsFiniteSet({f[x] : x \in S})
         /\ Cardinality({f[x] : x \in S}) <= Cardinality(S)
<1>1. f \in Surjection(S, {f[x] : x \in S})
  BY DEF Surjection
<1> QED BY <1>1, FS_Surjection

LEMMA AdmissionKeepsRate ==
  ASSUME GatewayInv, RatesKnown, NEW t \in Tasks, NEW b, NEW o \in Orders,
         NEW peer \in Peers, BookAfter(t, b), Admits(t, o, peer, b)
  PROVE  KnownBounded'
<1> DEFINE recorded == {p \in exchangeIds : admittedAt[p] > now - Second}
           f == [s \in Pruned(now) |-> s.order]
           g == [u \in Submitters' |-> call'[u].order]
<1>0. TypeOK /\ CallsNamed
  BY DEF GatewayInv, BaseInv
<1>1. IsFiniteSet(recorded) /\ Cardinality(recorded) <= MaxOrdersPerSecond - 1
  <2>1. IsFiniteSet(Pruned(now)) /\ Cardinality(Pruned(now)) \in Nat
    BY PrunedFinite, FS_CardinalityType DEF RatesKnown
  <2>2. Cardinality(Pruned(now)) < MaxOrdersPerSecond
    BY DEF Admits, WithinRate
  <2>3. IsFiniteSet({f[s] : s \in Pruned(now)})
        /\ Cardinality({f[s] : s \in Pruned(now)}) <= Cardinality(Pruned(now))
    <3> HIDE DEF f
    <3>1. f = [s \in Pruned(now) |-> f[s]]
      BY DEF f
    <3> QED BY <2>1, <3>1, ImageBound
  <2>4. recorded \subseteq {f[s] : s \in Pruned(now)}
    <3> SUFFICES ASSUME NEW p \in recorded
                 PROVE  p \in {f[s] : s \in Pruned(now)}
      OBVIOUS
    <3>1. [order |-> p, at |-> admittedAt[p]] \in Pruned(now)
      BY DEF RatesKnown, Pruned
    <3> QED BY <3>1
  <2>5. Cardinality({f[s] : s \in Pruned(now)}) \in Nat
    BY <2>3, FS_CardinalityType
  <2> HIDE DEF recorded, f
  <2>6. IsFiniteSet(recorded)
        /\ Cardinality(recorded) <= Cardinality({f[s] : s \in Pruned(now)})
        /\ Cardinality(recorded) \in Nat
    BY <2>3, <2>4, FS_Subset, FS_CardinalityType
  <2> QED BY <2>1, <2>2, <2>3, <2>5, <2>6, LimitsAssumption
<1>2. IsFiniteSet(Submitting') /\ Cardinality(Submitting') <= Cardinality(Tasks)
  <2>1. IsFiniteSet(Submitters') /\ Cardinality(Submitters') <= Cardinality(Tasks)
        /\ Cardinality(Submitters') \in Nat
    BY TasksAssumption, FS_Subset, FS_CardinalityType DEF Submitters
  <2>2. Submitting' = {g[u] : u \in Submitters'}
    BY DEF Submitting
  <2>3. IsFiniteSet({g[u] : u \in Submitters'})
        /\ Cardinality({g[u] : u \in Submitters'}) <= Cardinality(Submitters')
    <3> HIDE DEF g
    <3>1. g = [u \in Submitters' |-> g[u]]
      BY DEF g
    <3> QED BY <2>1, <3>1, ImageBound
  <2> HIDE DEF g
  <2>4. Cardinality({g[u] : u \in Submitters'}) \in Nat /\ Cardinality(Tasks) \in Nat
    BY <2>3, TasksAssumption, FS_CardinalityType
  <2> QED BY <2>1, <2>2, <2>3, <2>4
<1>3. RecentOrders' \subseteq recorded \cup Submitting'
  <2>1. o \notin exchangeIds
    BY <1>0, BookAfterType DEF Admits, CallsNamed
  <2> QED BY <1>0, <2>1 DEF RecentOrders, Admits, Calm, TypeOK
<1> HIDE DEF recorded, f, g
<1>4. IsFiniteSet(recorded \cup Submitting')
      /\ Cardinality(recorded \cup Submitting')
           <= MaxOrdersPerSecond - 1 + Cardinality(Tasks)
  <2>1. Cardinality(recorded \cup Submitting') =
          Cardinality(recorded) + Cardinality(Submitting')
            - Cardinality(recorded \cap Submitting')
    BY <1>1, <1>2, FS_Union
  <2>2. IsFiniteSet(recorded \cap Submitting')
    BY <1>1, FS_Subset
  <2>3. /\ Cardinality(recorded) \in Nat /\ Cardinality(Submitting') \in Nat
        /\ Cardinality(recorded \cap Submitting') \in Nat
        /\ Cardinality(Tasks) \in Nat
    BY <1>1, <1>2, <2>2, TasksAssumption, FS_CardinalityType
  <2>4. IsFiniteSet(recorded \cup Submitting')
    BY <1>1, <1>2, FS_Union
  <2> QED BY <1>1, <1>2, <2>1, <2>3, <2>4, LimitsAssumption
<1>5. Cardinality(RecentOrders') <= Cardinality(recorded \cup Submitting')
  BY <1>3, <1>4, FS_Subset
<1>6. /\ Cardinality(RecentOrders') \in Nat
      /\ Cardinality(recorded \cup Submitting') \in Nat
      /\ Cardinality(Tasks) \in Nat
  BY <1>3, <1>4, TasksAssumption, FS_Subset, FS_CardinalityType
<1> QED BY <1>4, <1>5, <1>6, LimitsAssumption DEF KnownBounded

LEMMA SentIsKnownOrUnrecorded ==
  ASSUME TypeOK, CallsNamed, KnownBounded
  PROVE  RateOvershootBounded
<1>1. RecentOrders \subseteq Orders /\ Unrecorded \subseteq Orders
  BY DEF RecentOrders, Submitting, Submitters, TypeOK, CallsNamed, Unrecorded, SentRecently
<1>2. SentRecently = RecentOrders \cup Unrecorded
  BY <1>1 DEF RecentOrders, Unrecorded, SentRecently
<1>3. IsFiniteSet(RecentOrders) /\ IsFiniteSet(Unrecorded)
  BY <1>1, OrdersAssumption, FS_Subset
<1>4. RecentOrders \cap Unrecorded = {}
  BY DEF RecentOrders, Unrecorded
<1>5. Cardinality(SentRecently) = Cardinality(RecentOrders) + Cardinality(Unrecorded)
  <2>1. Cardinality(RecentOrders \cup Unrecorded) =
          Cardinality(RecentOrders) + Cardinality(Unrecorded)
            - Cardinality(RecentOrders \cap Unrecorded)
    BY <1>3, FS_Union
  <2>2. Cardinality(RecentOrders) \in Nat /\ Cardinality(Unrecorded) \in Nat
    BY <1>3, FS_CardinalityType
  <2>3. Cardinality(RecentOrders \cap Unrecorded) = 0
    BY <1>4, FS_EmptySet
  <2> QED BY <1>2, <2>1, <2>2, <2>3
<1>6. /\ Cardinality(RecentOrders) \in Nat /\ Cardinality(Unrecorded) \in Nat
      /\ Cardinality(Tasks) \in Nat
  BY <1>3, TasksAssumption, FS_CardinalityType
<1> QED BY <1>5, <1>6, LimitsAssumption DEF KnownBounded, RateOvershootBounded

(* The orders sent within one second exceed the configured rate by at most  *)
(* the calls that can be in flight beside the last one, and those whose     *)
(* submission failed.                                                       *)
THEOREM RateOvershootStaysBounded == Spec => []RateOvershootBounded
<1>1. Init => KnownBounded
  <2> SUFFICES ASSUME Init PROVE KnownBounded
    OBVIOUS
  <2>1. RecentOrders = {}
    BY RecoveredAssumption, LimitsAssumption
       DEF Init, RecentOrders, Submitting, Submitters, Idle
  <2>2. Cardinality(Tasks) \in Nat /\ Cardinality(Tasks) # 0
    BY TasksAssumption, FS_EmptySet, FS_CardinalityType
  <2> QED BY <2>1, <2>2, FS_EmptySet, LimitsAssumption DEF KnownBounded
<1>2. GatewayInv /\ RateInv /\ [Next]_vars => KnownBounded'
  <2> SUFFICES ASSUME GatewayInv, RateInv, [Next]_vars
               PROVE  KnownBounded'
    OBVIOUS
  <2>1. CASE Settles
    <3>1. RecentOrders' \subseteq RecentOrders
      <4> SUFFICES ASSUME NEW o \in RecentOrders' PROVE o \in RecentOrders
        OBVIOUS
      <4>1. o \in exchangeIds \cup Submitting
        BY <2>1 DEF Settles, RecentOrders
      <4>2. o \in Orders
        BY <4>1 DEF Submitting, Submitters, GatewayInv, BaseInv, TypeOK, CallsNamed
      <4>3. admittedAt[o] \in Int /\ now \in Nat
        BY <4>2 DEF GatewayInv, BaseInv, TypeOK
      <4>4. admittedAt[o] > now' - Second /\ (now' = now \/ now' = now + 1)
        BY <2>1 DEF Settles, RecentOrders
      <4> QED BY <4>1, <4>3, <4>4, LimitsAssumption DEF RecentOrders
    <3>2. IsFiniteSet(RecentOrders)
      <4>1. RecentOrders \subseteq Orders
        BY DEF RecentOrders, Submitting, Submitters, GatewayInv, BaseInv, TypeOK, CallsNamed
      <4> QED BY <4>1, OrdersAssumption, FS_Subset
    <3>3. Cardinality(RecentOrders') <= Cardinality(RecentOrders)
      BY <3>1, <3>2, FS_Subset
    <3>4. /\ Cardinality(RecentOrders') \in Nat /\ Cardinality(RecentOrders) \in Nat
          /\ Cardinality(Tasks) \in Nat
      BY <3>1, <3>2, TasksAssumption, FS_Subset, FS_CardinalityType
    <3> QED BY <3>3, <3>4, LimitsAssumption DEF RateInv, KnownBounded
  <2>2. CASE SomeAdmission
    BY <2>2, AdmissionKeepsRate DEF SomeAdmission, RateInv
  <2> QED BY <2>1, <2>2, GatewaySettlesOrAdmits
<1>3. GatewayInv /\ RateInv /\ [Next]_vars => RateInv'
  BY <1>2, StepRatesKnown DEF RateInv
<1>4. Init => RateInv
  BY <1>1, InitRatesKnown DEF RateInv
<1>5. GatewayInv /\ RateInv => RateOvershootBounded
  BY SentIsKnownOrUnrecorded DEF RateInv, GatewayInv, BaseInv
<1> QED BY <1>3, <1>4, <1>5, InitGatewayInv, StepGatewayInv, PTL DEF Spec

-----------------------------------------------------------------------------
(* The refinement of OrderLifecycle.                                        *)

LEMMA CallStepIsLifecycleStep ==
  ASSUME GatewayInv, NEW U, NEW t \in Tasks, CallStep(t, U)
  PROVE  [Lifecycle!Next]_Lifecycle!vars
<1> USE DEF Lifecycle!Next, Lifecycle!vars
<1>0. TypeOK
  BY DEF GatewayInv, BaseInv
<1>1. ASSUME NEW b, BookAfter(t, b), Ends(t, b)
      PROVE  [Lifecycle!Next]_Lifecycle!vars
  <2>1. UNCHANGED <<exchangeIds, killSwitch>> /\ book' = b
    BY <1>1 DEF Ends, Calm
  <2>2. CASE b = book
    BY <2>1, <2>2
  <2>3. ASSUME NEW o \in Orders, book[o] = "open", b = Cancelled(o)
        PROVE  Lifecycle!Cancel(o)
    BY <2>1, <2>3 DEF Lifecycle!Cancel, Cancelled
  <2> QED BY <1>1, <2>2, <2>3 DEF BookAfter
<1>2. ASSUME NEW b, NEW o \in Orders, NEW peer \in Peers,
             BookAfter(t, b), Admits(t, o, peer, b)
      PROVE  [Lifecycle!Next]_Lifecycle!vars
  <2>1. UNCHANGED <<exchangeIds, killSwitch>>
    BY <1>2 DEF Admits, Calm
  <2>2. Lifecycle!Open(o, b)
    <3>1. Lifecycle!OpenIn(b) = OpenIn(b)
      BY DEF Lifecycle!OpenIn, OpenIn
    <3>2. /\ ~killSwitch /\ b[o] = "absent"
          /\ Cardinality(OpenIn(b)) < MaxOpenOrders
          /\ book' = [b EXCEPT ![o] = "open"]
      BY <1>2 DEF Admits
    <3>3. Lifecycle!Cardinality(OpenIn(b)) = Cardinality(OpenIn(b))
      BY DEF Lifecycle!Cardinality, Cardinality
    <3> QED BY <3>1, <3>2, <3>3, Zenon DEF Lifecycle!Open
  <2>3. CASE b = book
    BY <2>1, <2>2, <2>3 DEF Lifecycle!Accept
  <2>4. ASSUME NEW p \in Orders, book[p] = "open", b = Cancelled(p)
        PROVE  Lifecycle!Replace(p, o)
    BY <2>1, <2>2, <2>4 DEF Lifecycle!Replace, Cancelled
  <2> QED BY <1>2, <2>3, <2>4 DEF BookAfter
<1>3. ASSUME NEW o \in Orders, NEW n \in Peers, SendsDelete(t, o, n)
      PROVE  [Lifecycle!Next]_Lifecycle!vars
  BY <1>3 DEF SendsDelete, Calm
<1> QED BY <1>1, <1>2, <1>3 DEF CallStep

LEMMA StepIsLifecycleStep ==
  GatewayInv /\ GatewayInv' /\ [Next]_vars => [Lifecycle!Next]_Lifecycle!vars
<1> SUFFICES ASSUME GatewayInv, GatewayInv', [Next]_vars
             PROVE  [Lifecycle!Next]_Lifecycle!vars
  OBVIOUS
<1>0. TypeOK /\ CallsNamed
  BY DEF GatewayInv, BaseInv
<1>1. ASSUME NEW t \in Tasks, SubmitReturns(t)
      PROVE  Lifecycle!Next
  <2>1. call[t].order \in Orders /\ book[call[t].order] # "absent"
    BY <1>0, <1>1 DEF CallsNamed, SubmitReturns
  <2>2. Lifecycle!Acknowledge(call[t].order)
    BY <1>1, <2>1 DEF SubmitReturns, Tracked, Lifecycle!Acknowledge
  <2> QED BY <2>1, <2>2 DEF Lifecycle!Next
<1>2. ASSUME NEW t \in Tasks, SubmitRejected(t)
      PROVE  [Lifecycle!Next]_Lifecycle!vars
  <2> DEFINE o == call[t].order
  <2>1. o \in Orders /\ book[o] # "absent"
    BY <1>0, <1>2 DEF CallsNamed, SubmitRejected
  <2>2. UNCHANGED <<exchangeIds, killSwitch>> /\ book' = [book EXCEPT ![o] = "rejected"]
    BY <1>2 DEF SubmitRejected, Rejected, mapVars, riskVars
  <2>3. CASE book[o] = "rejected"
    <3>1. book' = book
      BY <1>0, <2>1, <2>2, <2>3 DEF TypeOK
    <3> QED BY <2>2, <3>1 DEF Lifecycle!vars
  <2>4. CASE book[o] # "rejected"
    <3>1. book[o] \in {"open", "cancelled"}
      BY <1>0, <2>1, <2>4 DEF TypeOK, Statuses
    <3>2. Lifecycle!Reject(o)
      BY <2>2, <3>1 DEF Lifecycle!Reject
    <3> QED BY <2>1, <3>2 DEF Lifecycle!Next
  <2> QED BY <2>3, <2>4
<1>3. ASSUME NEW t \in Tasks,
             \/ VenueAccepts(t) \/ VenueCancels(t) \/ VenueRefusesCancel(t) \/ Raise(t)
      PROVE  UNCHANGED Lifecycle!vars
  BY <1>3 DEF VenueAccepts, VenueCancels, VenueRefusesCancel, VenueStep, Raise,
              Lifecycle!vars, mapVars, riskVars
<1>4. CASE (\E o \in Orders : VenueFills(o)) \/ Tick \/ UNCHANGED vars
  BY <1>4 DEF VenueFills, Tick, vars, Lifecycle!vars, mapVars, riskVars
<1>5. CASE EngageKillSwitch \/ ReleaseKillSwitch
  <2>1. killSwitch' \in BOOLEAN
    BY DEF GatewayInv, BaseInv, TypeOK
  <2>2. UNCHANGED <<book, exchangeIds>>
    BY <1>5 DEF EngageKillSwitch, ReleaseKillSwitch, mapVars
  <2> QED BY <2>1, <2>2 DEF Lifecycle!Next, Lifecycle!SetHalted
<1>6. ASSUME NEW t \in Tasks, CallStep(t, Absent)
      PROVE  [Lifecycle!Next]_Lifecycle!vars
  BY <1>6, CallStepIsLifecycleStep
<1> QED BY <1>1, <1>2, <1>3, <1>4, <1>5, <1>6, GatewayMoves DEF Moves

(* Whatever the tasks, the venue and the faults do, an order moves through  *)
(* the book only as OrderLifecycle allows.                                  *)
THEOREM GatewayImplementsLifecycle == Spec => ImplementsLifecycle
<1>1. Init => Lifecycle!Init
  BY DEF Init, Lifecycle!Init
<1>2. Spec => []GatewayInv
  BY InitGatewayInv, StepGatewayInv, PTL DEF Spec
<1> QED BY <1>1, <1>2, StepIsLifecycleStep, PTL DEF Spec, ImplementsLifecycle, Lifecycle!Spec

-----------------------------------------------------------------------------
(* One caller at a time, and a venue that only ever refuses cleanly: the    *)
(* book and the exchange then agree.                                        *)

Serial == Faults = {} /\ \A t, u \in Tasks : t = u

(* A live order is open and known by its exchange id, or about to be; the   *)
(* order of a call in progress is open until the call ends; a cancel that   *)
(* has been answered left the order off the exchange; a replacement on its  *)
(* way has its peer cancelled.                                              *)
LiveIsOpen ==
  \A o \in Orders : venue[o] = "live" =>
    /\ book[o] = "open"
    /\ o \in exchangeIds \/ (\E t \in Tasks : call[t].at = "accepted" /\ call[t].order = o)

CallsAgree ==
  \A t \in Tasks :
    /\ call[t].at # "idle" => book[call[t].order] = "open"
    /\ call[t].at = "deleted" => venue[call[t].order] # "live"
    /\ t \in Submitters /\ call[t].peer # NoOrder => book[call[t].peer] = "cancelled"

SerialInv == LiveIsOpen /\ CallsAgree

(* No call cancels an order that is live: it has an exchange id, so that    *)
(* the venue was asked, and has answered.                                   *)
LEMMA SerialCancel ==
  ASSUME Serial, GatewayInv, SerialInv, NEW t \in Tasks, call[t].at \in {"idle", "deleted"},
         NEW b, BookAfter(t, b)
  PROVE  \A o \in Orders : venue[o] = "live" => b[o] = "open"
<1>1. CASE b = book
  BY <1>1 DEF SerialInv, LiveIsOpen
<1>2. ASSUME NEW p \in Orders, b = Cancelled(p),
             p \notin exchangeIds \/ (call[t].at = "deleted" /\ call[t].order = p)
      PROVE  \A o \in Orders : venue[o] = "live" => b[o] = "open"
  <2>1. venue[p] # "live"
    BY <1>2 DEF Serial, SerialInv, LiveIsOpen, CallsAgree
  <2> QED BY <1>2, <2>1 DEF Cancelled, SerialInv, LiveIsOpen, GatewayInv, BaseInv, TypeOK
<1> QED BY <1>1, <1>2 DEF BookAfter

LEMMA CallStepKeepsSerialInv ==
  ASSUME Serial, GatewayInv, SerialInv, NEW t \in Tasks, NEW U, CallStep(t, U)
  PROVE  SerialInv'
<1>0. TypeOK /\ CallsNamed /\ \A u \in Tasks : u = t
  BY DEF GatewayInv, BaseInv, Serial
<1>1. call[t].at \in {"idle", "deleted"}
  BY DEF CallStep
<1>2. \A o \in Orders : venue[o] = "live" => o \in exchangeIds
  BY <1>0, <1>1 DEF SerialInv, LiveIsOpen
<1>3. ASSUME NEW b, BookAfter(t, b), Ends(t, b)
      PROVE  SerialInv'
  <2>1. LiveIsOpen'
    BY <1>1, <1>2, <1>3, SerialCancel DEF LiveIsOpen, Ends, Calm
  <2>2. call'[t].at = "idle"
    BY <1>0, <1>3 DEF Ends, Return, Idle, TypeOK
  <2>3. CallsAgree'
    BY <1>0, <2>2 DEF CallsAgree, Submitters
  <2> QED BY <2>1, <2>3 DEF SerialInv
<1>4. ASSUME NEW b, NEW o \in Orders, NEW peer \in Peers,
             BookAfter(t, b), Admits(t, o, peer, b)
      PROVE  SerialInv'
  <2>1. LiveIsOpen'
    <3>1. \A p \in Orders : b[p] = "open" => book'[p] = "open"
      BY <1>0, <1>4, BookAfterType DEF Admits
    <3> QED BY <1>1, <1>2, <1>4, <3>1, SerialCancel DEF LiveIsOpen, Admits, Calm
  <2>2. call'[t] = [at |-> "submit", order |-> o, peer |-> peer, ts |-> now]
    BY <1>0, <1>4 DEF Admits, Suspend, TypeOK
  <2>3. book'[o] = "open" /\ (peer # NoOrder => book'[peer] = "cancelled")
    BY <1>0, <1>4, BookAfterType DEF Admits, Peers
  <2>4. CallsAgree'
    BY <1>0, <2>2, <2>3 DEF CallsAgree, Submitters
  <2> QED BY <2>1, <2>4 DEF SerialInv
<1>5. ASSUME NEW o \in Orders, NEW n \in Peers, SendsDelete(t, o, n)
      PROVE  SerialInv'
  <2>1. LiveIsOpen'
    BY <1>2, <1>5 DEF LiveIsOpen, SerialInv, SendsDelete, Calm
  <2>2. call'[t] = [at |-> "delete", order |-> o, peer |-> n, ts |-> now]
    BY <1>0, <1>5 DEF SendsDelete, Suspend, TypeOK
  <2>3. CallsAgree'
    BY <1>0, <1>5, <2>2 DEF CallsAgree, Submitters, SendsDelete
  <2> QED BY <2>1, <2>3 DEF SerialInv
<1> QED BY <1>3, <1>4, <1>5 DEF CallStep

LEMMA StepSerialInv ==
  ASSUME Serial, GatewayInv, SerialInv, [Next]_vars
  PROVE  SerialInv'
<1>0. TypeOK /\ CallsNamed /\ SubmittedOnce
  BY DEF GatewayInv, BaseInv
<1> USE DEF SerialInv, LiveIsOpen, CallsAgree, mapVars, riskVars
<1>1. ASSUME NEW t \in Tasks, CallStep(t, Absent) PROVE SerialInv'
  BY <1>1, CallStepKeepsSerialInv
<1>2. ASSUME NEW t \in Tasks, VenueAccepts(t) PROVE SerialInv'
  <2>1. /\ call[t].at = "submit" /\ call[t].order \in Orders
        /\ call' = [call EXCEPT ![t].at = "accepted"]
        /\ venue' = [venue EXCEPT ![call[t].order] = "live"]
        /\ UNCHANGED <<book, exchangeIds>>
    BY <1>0, <1>2 DEF VenueAccepts, VenueStep, CallsNamed
  <2> QED BY <1>0, <2>1 DEF Serial, TypeOK, Submitters
<1>3. ASSUME NEW t \in Tasks, SubmitReturns(t) PROVE SerialInv'
  <2>1. /\ exchangeIds' = exchangeIds \cup {call[t].order} /\ UNCHANGED <<book, venue>>
        /\ call'[t].at = "idle"
    BY <1>0, <1>3 DEF SubmitReturns, Tracked, Return, Idle, TypeOK
  <2> QED BY <1>0, <1>3, <2>1 DEF Serial, Submitters
<1>4. ASSUME NEW t \in Tasks, SubmitRejected(t) PROVE SerialInv'
  <2>1. call[t].at = "submit" /\ call[t].order \in Orders
    BY <1>0, <1>4 DEF SubmitRejected, Serial, CallsNamed
  <2>2. venue[call[t].order] = "none"
    BY <1>0, <2>1 DEF SubmittedOnce, Submitters
  <2>3. /\ book' = [book EXCEPT ![call[t].order] = "rejected"]
        /\ UNCHANGED <<exchangeIds, venue>> /\ call'[t].at = "idle"
    BY <1>0, <1>4 DEF SubmitRejected, Rejected, Return, Idle, TypeOK
  <2> QED BY <1>0, <2>1, <2>2, <2>3 DEF Serial, TypeOK, Submitters
<1>5. ASSUME NEW t \in Tasks, VenueCancels(t) PROVE SerialInv'
  <2>1. /\ call[t].at = "delete" /\ call[t].order \in Orders
        /\ call' = [call EXCEPT ![t].at = "deleted"]
        /\ venue' = [venue EXCEPT ![call[t].order] = "cancelled"]
        /\ UNCHANGED <<book, exchangeIds>>
    BY <1>0, <1>5 DEF VenueCancels, VenueStep, CallsNamed
  <2> QED BY <1>0, <2>1 DEF Serial, TypeOK, Submitters
<1>6. ASSUME NEW t \in Tasks, VenueRefusesCancel(t) PROVE SerialInv'
  <2>1. /\ call[t].at = "delete" /\ call[t].order \in Orders
        /\ venue[call[t].order] # "live"
        /\ call' = [call EXCEPT ![t].at = "deleted"]
        /\ venue' = venue
        /\ UNCHANGED <<book, exchangeIds>>
    BY <1>0, <1>6 DEF VenueRefusesCancel, VenueStep, CallsNamed, Serial, TypeOK
  <2> QED BY <1>0, <2>1 DEF Serial, TypeOK, Submitters
<1>7. ASSUME NEW t \in Tasks, Raise(t) PROVE SerialInv'
  BY <1>7 DEF Raise, Serial
<1>8. ASSUME NEW o \in Orders, VenueFills(o) PROVE SerialInv'
  BY <1>0, <1>8 DEF VenueFills, TypeOK, Submitters
<1>9. CASE EngageKillSwitch \/ ReleaseKillSwitch \/ Tick \/ UNCHANGED vars
  <2>1. UNCHANGED <<book, exchangeIds, call, venue>>
    BY <1>9 DEF EngageKillSwitch, ReleaseKillSwitch, Tick, vars
  <2> QED BY <2>1 DEF Submitters
<1> HIDE DEF SerialInv, LiveIsOpen, CallsAgree, mapVars, riskVars
<1> QED BY <1>1, <1>2, <1>3, <1>4, <1>5, <1>6, <1>7, <1>8, <1>9, GatewayMoves DEF Moves

LEMMA SerialInvariant == Serial /\ Spec => [](GatewayInv /\ SerialInv)
<1> SUFFICES ASSUME Serial PROVE Spec => [](GatewayInv /\ SerialInv)
  OBVIOUS
<1>1. Init => SerialInv
  BY RecoveredAssumption DEF Init, SerialInv, LiveIsOpen, CallsAgree, Submitters, Idle
<1>2. GatewayInv /\ SerialInv /\ [Next]_vars => SerialInv'
  BY StepSerialInv
<1> QED BY <1>1, <1>2, InitGatewayInv, StepGatewayInv, PTL DEF Spec

(* With one caller and no faults a cancelled or rejected order is not live  *)
(* on the exchange.                                                         *)
THEOREM TerminalStaysOffVenue == Serial /\ Spec => []TerminalNotLive
<1>1. SerialInv => TerminalNotLive
  BY DEF SerialInv, LiveIsOpen, TerminalNotLive
<1> QED BY <1>1, SerialInvariant, PTL

(* With one caller and no faults a replacement is sent when the order it    *)
(* replaces is off the exchange.                                            *)
THEOREM ReplacementStaysSingle == Serial /\ Spec => []ReplacementNeverDoubles
<1>1. GatewayInv /\ SerialInv => ReplacementNeverDoubles
  <2> SUFFICES ASSUME GatewayInv, SerialInv, NEW t \in Submitters, call[t].peer # NoOrder
               PROVE  venue[call[t].peer] # "live"
    BY DEF ReplacementNeverDoubles
  <2>1. call[t].peer \in Orders /\ t \in Tasks
    BY DEF GatewayInv, BaseInv, TypeOK, Submitters
  <2> QED BY <2>1 DEF SerialInv, LiveIsOpen, CallsAgree
<1> QED BY <1>1, SerialInvariant, PTL

(* With one caller and no faults a cancelled or rejected order stays as it  *)
(* is: the order the venue refuses is still open.                           *)
THEOREM SerialTerminalIsFinal == Serial /\ Spec => TerminalIsFinal
<1> SUFFICES ASSUME Serial PROVE Spec => TerminalIsFinal
  OBVIOUS
<1> DEFINE Final == \A o \in Orders :
                      book[o] \in {"cancelled", "rejected"} => book'[o] = book[o]
<1>1. GatewayInv /\ SerialInv /\ [Next]_vars => [Final]_vars
  <2> SUFFICES ASSUME GatewayInv, SerialInv, [Next]_vars PROVE Final
    OBVIOUS
  <2>0. TypeOK /\ CallsNamed
    BY DEF GatewayInv, BaseInv
  <2>1. ASSUME NEW t \in Tasks, NEW b, BookAfter(t, b)
        PROVE  \A o \in Orders :
                 book[o] \in {"cancelled", "rejected"} => b[o] = book[o]
    BY <2>0, <2>1 DEF BookAfter, Cancelled, TypeOK
  <2>2. ASSUME NEW t \in Tasks, CallStep(t, Absent)
        PROVE  Final
    <3>1. ASSUME NEW b, NEW o \in Orders, NEW peer \in Peers,
                 BookAfter(t, b), Admits(t, o, peer, b)
          PROVE  Final
      BY <2>0, <2>1, <3>1, BookAfterType DEF Admits
    <3> QED BY <2>1, <2>2, <3>1 DEF CallStep, Ends, SendsDelete
  <2>3. ASSUME NEW t \in Tasks, SubmitRejected(t)
        PROVE  Final
    <3>1. call[t].at = "submit" \/ call[t].at = "accepted"
      BY <2>3 DEF SubmitRejected
    <3>2. call[t].order \in Orders /\ book[call[t].order] = "open"
      BY <2>0, <3>1 DEF SerialInv, CallsAgree, CallsNamed
    <3> QED BY <2>0, <2>3, <3>2 DEF SubmitRejected, Rejected, TypeOK
  <2>4. CASE book' = book
    BY <2>4
  <2> HIDE DEF Final
  <2> QED BY <2>2, <2>3, <2>4, GatewayMoves, Zenon
          DEF Moves, VenueAccepts, SubmitReturns, VenueCancels, VenueRefusesCancel, VenueStep,
              Raise, VenueFills, EngageKillSwitch, ReleaseKillSwitch, Tick, vars
<1> QED BY <1>1, SerialInvariant, PTL DEF Spec, TerminalIsFinal

(* A call of task t begins.                                                 *)
CallStarts(t) == \/ \E o \in Orders : PlaceOrder(t, o)
                 \/ \E o \in Orders, idempotent \in BOOLEAN : CancelOrder(t, o, idempotent)
                 \/ \E o, n \in Orders : ReplaceOrder(t, o, n)

(* With one caller and no faults a cancel that waited on the venue finds    *)
(* its order still open and a replacement's id unused, and so raises        *)
(* nothing.                                                                 *)
THEOREM SerialCancelNeverRaises == Serial /\ Spec => CancelNeverRaises
<1> SUFFICES ASSUME Serial PROVE Spec => CancelNeverRaises
  OBVIOUS
<1> DEFINE Quietly == \A t \in Tasks : call[t].at = "deleted" /\ call'[t].at = "idle"
                                         => result'[t] # "raised"
<1>1. GatewayInv /\ SerialInv /\ [Next]_vars => [Quietly]_vars
  <2> SUFFICES ASSUME GatewayInv, SerialInv, Next,
                      NEW t \in Tasks, call[t].at = "deleted", call'[t].at = "idle"
               PROVE  result'[t] # "raised"
    BY DEF vars
  <2> DEFINE o == call[t].order
             n == call[t].peer
  <2>0. TypeOK /\ CallsNamed /\ \A u \in Tasks : u = t
    BY DEF GatewayInv, BaseInv, Serial
  <2>1. CancelReturns(t)
    <3>1. ASSUME NEW u \in Tasks, CallStarts(u) PROVE FALSE
      BY <2>0, <3>1 DEF CallStarts, PlaceOrder, CancelOrder, ReplaceOrder
    <3>2. ASSUME NEW u \in Tasks, Answer(u) PROVE CancelReturns(t)
      BY <2>0, <3>2 DEF Answer, VenueAccepts, SubmitReturns, SubmitRejected, VenueCancels,
                        VenueRefusesCancel, VenueStep, Raise, Serial
    <3>3. ASSUME (\E p \in Orders : VenueFills(p)) \/ EngageKillSwitch
                   \/ ReleaseKillSwitch \/ Tick
          PROVE  FALSE
      BY <3>3 DEF VenueFills, EngageKillSwitch, ReleaseKillSwitch, Tick
    <3> QED BY <3>1, <3>2, <3>3 DEF Next, CallStarts
  <2>2. o \in Orders /\ book[o] = "open"
    BY <2>0 DEF SerialInv, CallsAgree, CallsNamed
  <2>3. AfterCancel(t, o, n, Cancelled(o))
    BY <2>1, <2>2 DEF CancelReturns
  <2>4. \A r : Return(t, r) => result'[t] = r
    BY <2>0 DEF Return, TypeOK
  <2>5. CASE n = NoOrder
    BY <2>3, <2>4, <2>5 DEF AfterCancel
  <2>6. CASE n # NoOrder
    <3>1. n \in Orders /\ book[n] = "absent"
      BY <2>6 DEF GatewayInv, Kept, Keeps, Absent
    <3>2. ~Duplicate(n, Cancelled(o))
      BY <2>0, <2>2, <3>1 DEF Duplicate, Cancelled, TypeOK
    <3>3. Place(t, n, o, Cancelled(o))
      BY <2>3, <2>6 DEF AfterCancel
    <3>4. Return(t, "refused") \/ Suspend(t, "submit", n, o)
      BY <3>2, <3>3 DEF Place
    <3> QED BY <2>0, <2>4, <3>4 DEF Suspend, TypeOK
  <2> QED BY <2>5, <2>6
<1> QED BY <1>1, SerialInvariant, PTL DEF Spec, CancelNeverRaises

-----------------------------------------------------------------------------
(* Crashes, restarts and saves (EngineRecovery).  The engine's steps are    *)
(* steps of the gateway, with order ids no life of the process has used, or *)
(* begin and end such a life.                                               *)

Fresh == Orders \ used

(* A snapshot that may be restored at any time.                             *)
Sound(s) == /\ s \in Snapshots
            /\ s.ids \subseteq s.orders /\ s.orders \subseteq used
            /\ Cardinality(s.orders) <= MaxOpenOrders
            /\ \A o \in s.ids : venue[o] # "none"

SavesSound == /\ \A w \in writing : w.by \in Savers /\ Sound(w.snapshot)
              /\ stored # NoSnapshot => Sound(stored)

KnownAreReal == \A o \in exchangeIds : venue[o] # "none"

QuietWhenDown == phase # "up" => \A t \in Tasks : call[t] = Idle

EngineInv ==
  /\ BaseInv /\ New(Fresh) /\ Kept(Fresh)
  /\ OpenOrdersBounded /\ KnownAreReal
  /\ EngineTypeOK /\ SavesSound /\ QuietWhenDown

LEMMA InitEngineInv == Recovered = {} /\ EngineInit => EngineInv
<1> SUFFICES ASSUME Recovered = {}, EngineInit PROVE EngineInv
  OBVIOUS
<1>1. BaseInv
  BY InitGatewayInv DEF EngineInit, GatewayInv
<1>2. New(Fresh) /\ KnownAreReal /\ Kept(Fresh) /\ QuietWhenDown
  BY DEF EngineInit, Init, New, Fresh, KnownAreReal, Kept, Keeps, QuietWhenDown, Idle
<1>3. OpenOrdersBounded
  <2>1. OpenOrders = {}
    BY DEF EngineInit, Init, OpenOrders, OpenIn
  <2> QED BY <2>1, FS_EmptySet, LimitsAssumption DEF OpenOrdersBounded
<1>4. EngineTypeOK /\ SavesSound
  BY DEF EngineInit, EngineTypeOK, SavesSound
<1> QED BY <1>1, <1>2, <1>3, <1>4 DEF EngineInv

(* What is saved now may be restored at any time.                           *)
LEMMA SnapshotSound == EngineInv => Sound(Snapshot)
<1> SUFFICES ASSUME EngineInv PROVE Sound(Snapshot)
  OBVIOUS
<1>1. OpenOrders \subseteq used
  BY DEF EngineInv, New, Fresh, OpenOrders, OpenIn
<1>2. Snapshot \in Snapshots
  BY DEF Snapshot, Snapshots, OpenOrders, OpenIn, EngineInv, BaseInv, TypeOK
<1> QED BY <1>1, <1>2 DEF Sound, Snapshot, EngineInv, OpenOrdersBounded, KnownAreReal

(* ... as long as no id becomes unused and no order leaves the exchange as  *)
(* if it had never been there.                                              *)
Onwards == /\ used \subseteq used'
           /\ \A o \in Orders : venue[o] # "none" => venue'[o] # "none"

LEMMA StaysSound ==
  ASSUME NEW s, Sound(s), Onwards
  PROVE  Sound(s)'
BY DEF Sound, Onwards, Snapshots

(* What the exchange makes of the last requests: no order comes or goes     *)
(* that was not sent to it.                                                 *)
LEMMA RequestsEndType ==
  ASSUME TypeOK, RequestsEnd
  PROVE  /\ venue' \in [Orders -> VenueStates]
         /\ \A o \in Orders : venue[o] # "none" => venue'[o] # "none"
         /\ \A o \in Orders : venue[o] = "none" /\ venue'[o] # "none" =>
              \E t \in Tasks : call[t].at # "idle" /\ call[t].order = o
<1> PICK handled \in SUBSET {t \in Tasks : call[t].at \in {"submit", "delete"}} :
      venue' = [o \in Orders |->
        IF \E t \in handled : call[t].at = "submit" /\ call[t].order = o THEN "live"
        ELSE IF venue[o] = "live" /\ \E t \in handled : call[t].at = "delete" /\ call[t].order = o
        THEN "cancelled" ELSE venue[o]]
  BY DEF RequestsEnd
<1> QED BY DEF TypeOK, VenueStates

(* A step of the gateway's tasks or of the exchange.                        *)
LEMMA GatewayKeepsReal ==
  ASSUME BaseInv, KnownAreReal, NEW U, Moves(U) \/ UNCHANGED vars
  PROVE  /\ KnownAreReal'
         /\ \A o \in Orders : venue[o] # "none" => venue'[o] # "none"
<1>0. TypeOK /\ CallsNamed /\ SubmittedOnce
  BY DEF BaseInv
<1> USE DEF KnownAreReal, mapVars, riskVars
<1>1. ASSUME UNCHANGED <<exchangeIds, venue>>
      PROVE  /\ KnownAreReal'
             /\ \A o \in Orders : venue[o] # "none" => venue'[o] # "none"
  BY <1>1
<1>2. ASSUME NEW t \in Tasks, CallStep(t, U)
      PROVE  UNCHANGED <<exchangeIds, venue>>
  BY <1>2 DEF CallStep, Ends, Admits, SendsDelete, Calm
<1>3. ASSUME NEW t \in Tasks, SubmitReturns(t)
      PROVE  /\ KnownAreReal'
             /\ \A o \in Orders : venue[o] # "none" => venue'[o] # "none"
  BY <1>0, <1>3 DEF SubmitReturns, Tracked, SubmittedOnce, Submitters
<1>4. ASSUME NEW t \in Tasks,
             VenueAccepts(t) \/ VenueCancels(t) \/ VenueRefusesCancel(t)
      PROVE  /\ KnownAreReal'
             /\ \A o \in Orders : venue[o] # "none" => venue'[o] # "none"
  <2>1. PICK s \in VenueStates :
          /\ venue' = [venue EXCEPT ![call[t].order] = s]
          /\ s = "none" => venue' = venue
    BY <1>0, <1>4 DEF VenueAccepts, VenueCancels, VenueRefusesCancel, VenueStep,
                      VenueStates, TypeOK, CallsNamed
  <2>2. exchangeIds' = exchangeIds
    BY <1>4 DEF VenueAccepts, VenueCancels, VenueRefusesCancel, VenueStep
  <2> QED BY <1>0, <2>1, <2>2 DEF TypeOK
<1>5. ASSUME NEW o \in Orders, VenueFills(o)
      PROVE  /\ KnownAreReal'
             /\ \A p \in Orders : venue[p] # "none" => venue'[p] # "none"
  BY <1>0, <1>5 DEF VenueFills, TypeOK
<1>6. ASSUME NEW t \in Tasks, SubmitRejected(t) \/ Raise(t)
      PROVE  UNCHANGED <<exchangeIds, venue>>
  BY <1>6 DEF SubmitRejected, Raise
<1>7. CASE EngageKillSwitch \/ ReleaseKillSwitch \/ Tick \/ UNCHANGED vars
  BY <1>7 DEF EngageKillSwitch, ReleaseKillSwitch, Tick, vars
<1> HIDE DEF KnownAreReal, mapVars, riskVars
<1> QED BY <1>1, <1>2, <1>3, <1>4, <1>5, <1>6, <1>7 DEF Moves

(* The engine's steps in which the gateway's tasks run or the exchange goes *)
(* on, and those in which neither does.                                     *)
LEMMA RunsGateway ==
  ASSUME EngineInv,
         \/ GatewayStep \/ ExchangeStep
         \/ UNCHANGED <<vars, phase, used>>
  PROVE  /\ Moves(Fresh) \/ UNCHANGED vars
         /\ UNCHANGED phase
         /\ used' = used \cup {o \in Orders : book'[o] # "absent"}
<1> DEFINE U == Fresh
<1>0. BaseInv /\ New(U) /\ Kept(U) /\ used \subseteq Orders
  BY DEF EngineInv, EngineTypeOK
<1>1. CASE GatewayStep
  <2>1. NextWith(U)
    BY <1>1 DEF GatewayStep, NextWith, Fresh
  <2>2. \A o \in U \cup Reserved : o # NoOrder /\ book[o] = "absent" => o \in U
    BY <1>0 DEF Reserved, Kept, Keeps
  <2>3. Moves(U)
    <3> HIDE DEF U
    <3> QED BY <1>0, <2>1, <2>2, NextSplits DEF BaseInv, New
  <2> QED BY <1>1, <2>3 DEF GatewayStep
<1>2. CASE ExchangeStep \/ UNCHANGED <<vars, phase, used>>
  <2>1. UNCHANGED <<book, phase, used>>
    BY <1>2 DEF ExchangeStep, VenueFills, engineVars, vars
  <2>2. Moves(U) \/ UNCHANGED vars
    BY <1>2 DEF ExchangeStep, Moves
  <2>3. {o \in Orders : book[o] # "absent"} \subseteq used
    BY <1>0 DEF New, Fresh
  <2> QED BY <2>1, <2>2, <2>3
<1> QED BY <1>1, <1>2

LEMMA RunningKeepsEngineInv ==
  ASSUME EngineInv, NEW U, U = Fresh,
         Moves(U) \/ UNCHANGED vars,
         UNCHANGED phase, used' = used \cup {o \in Orders : book'[o] # "absent"}
  PROVE  /\ BaseInv' /\ New(Fresh)' /\ Kept(Fresh)'
         /\ OpenOrdersBounded' /\ KnownAreReal' /\ Onwards
<1>0. BaseInv /\ New(U) /\ Kept(U) /\ OpenOrdersBounded /\ KnownAreReal
  BY DEF EngineInv
<1>1. BaseInv' /\ StillNew(U) /\ StillKept(U)
  BY <1>0, StepBaseInv, StepKept
<1>2. Fresh' = {o \in U : book'[o] = "absent"}
  BY DEF Fresh
<1>3. New(Fresh)'
  BY <1>1, <1>2 DEF New, StillNew, Fresh
<1>4. Kept(Fresh)'
  BY <1>1, <1>2 DEF Kept, StillKept
<1>5. OpenOrdersBounded'
  BY <1>0, StepKeepsBound
<1>6. KnownAreReal' /\ Onwards
  BY <1>0, GatewayKeepsReal DEF Onwards
<1> QED BY <1>1, <1>3, <1>4, <1>5, <1>6

(* A step that ends every call and leaves the process with what it is told: *)
(* a snapshot's orders and ids, or nothing.                                 *)
LEMMA KnowsKeepsEngineInv ==
  ASSUME EngineInv, NEW orders \in SUBSET used, NEW ids \in SUBSET orders,
         NEW kill \in BOOLEAN,
         Knows(orders, ids, kill), Cardinality(orders) <= MaxOpenOrders,
         \A o \in ids : venue[o] # "none",
         RequestsEnd \/ UNCHANGED venue,
         call' = [t \in Tasks |-> Idle], result' \in [Tasks -> Results],
         UNCHANGED <<now, admittedAt, used>>
  PROVE  /\ BaseInv' /\ New(Fresh)' /\ Kept(Fresh)'
         /\ OpenOrdersBounded' /\ KnownAreReal' /\ Onwards
<1>0. TypeOK /\ CallsNamed /\ New(Fresh) /\ used \subseteq Orders
  BY DEF EngineInv, BaseInv, EngineTypeOK
<1>1. /\ venue' \in [Orders -> VenueStates]
      /\ \A o \in Orders : venue[o] # "none" => venue'[o] # "none"
      /\ \A o \in Fresh : venue'[o] = "none"
  <2>1. CASE UNCHANGED venue
    BY <1>0, <2>1 DEF TypeOK, New
  <2>2. CASE RequestsEnd
    BY <1>0, <2>2, RequestsEndType DEF CallsNamed, New
  <2> QED BY <2>1, <2>2
<1>2. TypeOK'
  BY <1>0, <1>1 DEF TypeOK, Knows, Idle, Statuses, ControlPoints
<1>3. CallsNamed' /\ SubmittedOnce' /\ Kept(Fresh)'
  BY <1>0 DEF CallsNamed, SubmittedOnce, Submitters, Kept, Keeps, Knows, Idle
<1>4. New(Fresh)'
  BY <1>0, <1>1 DEF New, Fresh, Knows
<1>5. OpenOrdersBounded'
  <2>1. OpenOrders' = orders
    BY <1>0 DEF OpenOrders, OpenIn, Knows
  <2> QED BY <2>1 DEF OpenOrdersBounded
<1>6. KnownAreReal' /\ Onwards
  BY <1>0, <1>1 DEF KnownAreReal, Onwards, Knows
<1> QED BY <1>2, <1>3, <1>4, <1>5, <1>6 DEF BaseInv

LEMMA SavesStaySound ==
  ASSUME EngineInv, Onwards,
         writing' \subseteq writing \cup {[by |-> by, snapshot |-> Snapshot] : by \in Savers},
         \/ UNCHANGED stored
         \/ \E w \in writing : stored' = w.snapshot
  PROVE  /\ SavesSound'
         /\ writing' \subseteq [by : Savers, snapshot : Snapshots]
         /\ stored' \in Snapshots \cup {NoSnapshot}
<1>1. Sound(Snapshot) /\ SavesSound
  BY SnapshotSound DEF EngineInv
<1>2. \A s : Sound(s) => Sound(s)' /\ s \in Snapshots
  BY StaysSound DEF Sound
<1>3. \A w \in writing' : w.by \in Savers /\ Sound(w.snapshot)
  BY <1>1 DEF SavesSound
<1>4. stored' # NoSnapshot => Sound(stored')
  BY <1>1 DEF SavesSound
<1>5. writing' \subseteq [by : Savers, snapshot : Snapshots]
  BY <1>1, <1>2 DEF EngineInv, EngineTypeOK
<1>6. stored' \in Snapshots \cup {NoSnapshot}
  BY <1>2, <1>4
<1> QED BY <1>2, <1>3, <1>4, <1>5, <1>6 DEF SavesSound

(* The gateway's part, in every step.                                       *)
GatewayPart == /\ BaseInv' /\ New(Fresh)' /\ Kept(Fresh)'
               /\ OpenOrdersBounded' /\ KnownAreReal' /\ Onwards

LEMMA BeginStopKeepsGateway ==
  ASSUME EngineInv, BeginStop
  PROVE  GatewayPart
<1>0. TypeOK /\ CallsNamed /\ New(Fresh) /\ OpenOrdersBounded /\ KnownAreReal
  BY DEF EngineInv, BaseInv
<1>1. /\ UNCHANGED <<book, exchangeIds, orderSymbols, cancelNonce, killSwitch,
                     orderTimestamps, now, admittedAt, used>>
      /\ RequestsEnd
      /\ call' = [t \in Tasks |-> Idle]
      /\ result' = [t \in Tasks |-> "none"]
  BY DEF BeginStop, CallsEnd, mapVars, riskVars
<1>2. /\ venue' \in [Orders -> VenueStates]
      /\ \A o \in Orders : venue[o] # "none" => venue'[o] # "none"
      /\ \A o \in Fresh : venue'[o] = "none"
  BY <1>0, <1>1, RequestsEndType DEF CallsNamed, New
<1>3. TypeOK'
  BY <1>0, <1>1, <1>2 DEF TypeOK, Idle, ControlPoints, Results
<1>4. CallsNamed' /\ SubmittedOnce' /\ Kept(Fresh)'
  BY <1>0, <1>1 DEF CallsNamed, SubmittedOnce, Submitters, Kept, Keeps, Idle
<1>5. New(Fresh)'
  BY <1>0, <1>1, <1>2 DEF New, Fresh
<1>6. OpenOrdersBounded' /\ KnownAreReal' /\ Onwards
  BY <1>0, <1>1, <1>2 DEF OpenOrdersBounded, OpenOrders, OpenIn, KnownAreReal, Onwards, TypeOK
<1> QED BY <1>3, <1>4, <1>5, <1>6 DEF BaseInv, GatewayPart

LEMMA GoDownKeepsGateway ==
  ASSUME EngineInv, GoDown, RequestsEnd \/ UNCHANGED venue,
         call' = [t \in Tasks |-> Idle], result' \in [Tasks -> Results]
  PROVE  GatewayPart
<1>1. Cardinality({}) <= MaxOpenOrders
  BY FS_EmptySet, LimitsAssumption
<1>2. Knows({}, {}, FALSE) /\ UNCHANGED <<now, admittedAt, used>>
  BY DEF GoDown
<1> DEFINE none == {}
<1>3. none \in SUBSET used /\ none \in SUBSET none /\ \A o \in none : venue[o] # "none"
  OBVIOUS
<1>4. Knows(none, none, FALSE) /\ Cardinality(none) <= MaxOpenOrders
  BY <1>1, <1>2
<1> HIDE DEF none
<1> QED BY <1>2, <1>3, <1>4, KnowsKeepsEngineInv, Zenon DEF GatewayPart

LEMMA BootKeepsGateway ==
  ASSUME EngineInv, Boot
  PROVE  GatewayPart
<1>0. TypeOK /\ EngineTypeOK /\ SavesSound
  BY DEF EngineInv, BaseInv
<1>1. /\ call' = [t \in Tasks |-> Idle] /\ result' \in [Tasks -> Results]
      /\ UNCHANGED <<now, admittedAt, used, venue>>
  BY <1>0 DEF Boot, EngineInv, QuietWhenDown, TypeOK
<1>2. PICK orders, ids, kill :
        /\ orders \in SUBSET used /\ ids \in SUBSET orders /\ kill \in BOOLEAN
        /\ Knows(orders, ids, kill) /\ Cardinality(orders) <= MaxOpenOrders
        /\ \A o \in ids : venue[o] # "none"
  <2>1. CASE Knows({}, {}, FALSE)
    <3> DEFINE none == {}
    <3>1. Cardinality(none) <= MaxOpenOrders
      BY FS_EmptySet, LimitsAssumption
    <3>2. /\ none \in SUBSET used /\ none \in SUBSET none /\ FALSE \in BOOLEAN
          /\ \A o \in none : venue[o] # "none"
      OBVIOUS
    <3>3. Knows(none, none, FALSE)
      BY <2>1
    <3> HIDE DEF none
    <3> QED BY <3>1, <3>2, <3>3, Zenon
  <2>2. CASE stored # NoSnapshot /\ Knows(Restored(stored), stored.ids, stored.kill)
    <3>1. Sound(stored)
      BY <1>0, <2>2 DEF SavesSound
    <3>2. /\ stored.orders \in SUBSET used /\ stored.ids \in SUBSET stored.orders
          /\ stored.kill \in BOOLEAN
          /\ Cardinality(stored.orders) <= MaxOpenOrders
          /\ \A o \in stored.ids : venue[o] # "none"
      BY <3>1 DEF Sound, Snapshots
    <3> QED BY <2>2, <3>2, Zenon DEF Restored
  <2> QED BY <2>1, <2>2 DEF Boot
<1> QED BY <1>1, <1>2, KnowsKeepsEngineInv, Zenon DEF GatewayPart

LEMMA RunningKeepsGateway ==
  ASSUME EngineInv,
         \/ GatewayStep \/ ExchangeStep
         \/ UNCHANGED <<vars, phase, used>>
  PROVE  GatewayPart
BY RunsGateway, RunningKeepsEngineInv DEF GatewayPart

LEMMA StepEngineInv ==
  ASSUME EngineInv, [EngineNext]_allVars
  PROVE  EngineInv'
<1>0. TypeOK /\ EngineTypeOK /\ QuietWhenDown
  BY DEF EngineInv, BaseInv
<1>q. ASSUME UNCHANGED vars PROVE UNCHANGED call
  BY <1>q DEF vars
<1> USE DEF QuietWhenDown
<1>1. CASE GatewayStep
  <2>1. GatewayPart
    BY <1>1, RunningKeepsGateway
  <2>2. /\ phase = "up" /\ scheduled' \in Nat
        /\ UNCHANGED <<phase, looping, starts, writing, stored, atStop>>
    BY <1>0, <1>1 DEF GatewayStep, EngineTypeOK
  <2>3. used' \subseteq Orders
    BY <1>0, <1>1 DEF GatewayStep, EngineTypeOK
  <2>4. SavesSound'
    BY <2>1, <2>2, SavesStaySound DEF GatewayPart
  <2> QED BY <1>0, <2>1, <2>2, <2>3, <2>4 DEF EngineInv, GatewayPart, EngineTypeOK
<1>2. CASE ExchangeStep
  <2>1. GatewayPart
    BY <1>2, RunningKeepsGateway
  <2>2. UNCHANGED <<phase, looping, starts, scheduled, writing, stored, used, atStop, call>>
    BY <1>2 DEF ExchangeStep, VenueFills, engineVars, saveVars
  <2>3. SavesSound'
    BY <2>1, <2>2, SavesStaySound DEF GatewayPart
  <2> QED BY <1>0, <2>1, <2>2, <2>3 DEF EngineInv, GatewayPart, EngineTypeOK
<1>3. CASE ChangeSave \/ LoopSave
  <2>1. /\ UNCHANGED <<vars, phase, looping, starts, stored, used, atStop>> /\ phase # "down"
        /\ scheduled' \in Nat
        /\ \E by \in Savers : writing' = writing \cup {[by |-> by, snapshot |-> Snapshot]}
    BY <1>0, <1>3 DEF ChangeSave, LoopSave, Save, Savers, EngineTypeOK
  <2>2. GatewayPart
    BY <2>1, RunningKeepsGateway
  <2>3. SavesSound' /\ writing' \subseteq [by : Savers, snapshot : Snapshots]
    BY <2>1, <2>2, SavesStaySound DEF GatewayPart
  <2> QED BY <1>0, <1>q, <2>1, <2>2, <2>3 DEF EngineInv, GatewayPart, EngineTypeOK
<1>4. ASSUME NEW w \in writing, Written(w) \/ SaveFails(w) PROVE EngineInv'
  <2>1. /\ UNCHANGED <<vars, phase, looping, starts, scheduled, used, atStop>>
        /\ writing' = writing \ {w}
        /\ stored' = stored \/ stored' = w.snapshot
    BY <1>4 DEF Written, SaveFails
  <2>2. GatewayPart
    BY <2>1, RunningKeepsGateway
  <2>3. SavesSound' /\ writing' \subseteq writing /\ stored' \in Snapshots \cup {NoSnapshot}
    BY <2>1, <2>2, SavesStaySound DEF GatewayPart
  <2> QED BY <1>0, <1>q, <2>1, <2>2, <2>3 DEF EngineInv, GatewayPart, EngineTypeOK
<1>5. CASE Crash \/ EndStop
  <2>1. /\ call' = [t \in Tasks |-> Idle] /\ result' \in [Tasks -> Results]
        /\ RequestsEnd \/ UNCHANGED venue
        /\ GoDown
    BY <1>0, <1>5 DEF Crash, EndStop, CallsEnd, TypeOK, Results
  <2>2. atStop' = NoSnapshot \/ atStop' = atStop
    BY <1>5 DEF Crash, EndStop
  <2>3. GatewayPart
    BY <2>1, GoDownKeepsGateway
  <2>4. /\ phase' = "down" /\ looping' = FALSE /\ scheduled' = 0 /\ writing' = {}
        /\ UNCHANGED <<starts, stored, used>>
    BY <2>1 DEF GoDown
  <2>5. SavesSound'
    BY <2>3, <2>4, SavesStaySound DEF GatewayPart
  <2> QED BY <1>0, <2>1, <2>2, <2>3, <2>4, <2>5 DEF EngineInv, GatewayPart, EngineTypeOK
<1>6. CASE BeginStop
  <2>1. GatewayPart
    BY <1>6, BeginStopKeepsGateway
  <2>2. /\ phase' = "stopping" /\ looping' = FALSE /\ call' = [t \in Tasks |-> Idle]
        /\ atStop' = Snapshot
        /\ writing' \subseteq writing \cup {[by |-> by, snapshot |-> Snapshot] : by \in Savers}
        /\ UNCHANGED <<starts, scheduled, stored, used>>
    BY <1>6 DEF BeginStop, CallsEnd, Savers
  <2>3. SavesSound' /\ writing' \subseteq [by : Savers, snapshot : Snapshots]
    BY <2>1, <2>2, SavesStaySound DEF GatewayPart
  <2>4. Snapshot \in Snapshots
    BY SnapshotSound DEF Sound
  <2> QED BY <1>0, <2>1, <2>2, <2>3, <2>4 DEF EngineInv, GatewayPart, EngineTypeOK
<1>7. CASE Boot
  <2>1. GatewayPart
    BY <1>7, BootKeepsGateway
  <2>2. /\ phase' = "up" /\ looping' \in BOOLEAN /\ starts' = starts + 1
        /\ UNCHANGED <<scheduled, writing, stored, used, atStop>>
    BY <1>7 DEF Boot, saveVars
  <2>3. SavesSound'
    BY <2>1, <2>2, SavesStaySound DEF GatewayPart
  <2> QED BY <1>0, <2>1, <2>2, <2>3 DEF EngineInv, GatewayPart, EngineTypeOK
<1>8. CASE UNCHANGED allVars
  <2>1. UNCHANGED <<vars, phase, looping, starts, scheduled, writing, stored, used, atStop>>
    BY <1>8 DEF allVars, engineVars, saveVars
  <2>2. GatewayPart
    BY <2>1, RunningKeepsGateway
  <2>3. SavesSound'
    BY <2>1, <2>2, SavesStaySound DEF GatewayPart
  <2> QED BY <1>0, <1>q, <2>1, <2>2, <2>3 DEF EngineInv, GatewayPart, EngineTypeOK
<1> QED BY <1>1, <1>2, <1>3, <1>4, <1>5, <1>6, <1>7, <1>8 DEF EngineNext

LEMMA EngineInvariant == Recovered = {} /\ EngineSpec => []EngineInv
<1> SUFFICES ASSUME Recovered = {} PROVE EngineSpec => []EngineInv
  OBVIOUS
<1>1. EngineInit => EngineInv
  BY InitEngineInv
<1>2. EngineInv /\ [EngineNext]_allVars => EngineInv'
  BY StepEngineInv
<1> QED BY <1>1, <1>2, PTL DEF EngineSpec

(* Through every crash, restart and save, the engine's variables keep their *)
(* types, and a process that is down has nothing under way.                 *)
THEOREM EngineTypeCorrect == Recovered = {} /\ EngineSpec => []EngineTypeOK
BY EngineInvariant, PTL DEF EngineInv

(* Through every crash, restart and overtaking save, the orders the engine  *)
(* or its snapshot has an exchange id for are orders the exchange took.     *)
THEOREM IdsStayReal == Recovered = {} /\ EngineSpec => []IdsAreReal
<1>1. EngineInv => IdsAreReal
  BY DEF EngineInv, KnownAreReal, SavesSound, Sound, IdsAreReal
<1> QED BY <1>1, EngineInvariant, PTL

(* No order id is sent to the venue twice, not even by two lives of the     *)
(* process.                                                                 *)
THEOREM NoDoubleSubmissionAcrossRestarts ==
  Recovered = {} /\ EngineSpec => []SubmittedOnce
BY EngineInvariant, PTL DEF EngineInv, BaseInv

(* What a restart brings back stays within max_open_orders: every snapshot  *)
(* was taken of a book that did, and nothing is restored on top of it.      *)
THEOREM OpenOrdersBoundedAcrossRestarts ==
  Recovered = {} /\ EngineSpec => []OpenOrdersBounded
BY EngineInvariant, PTL DEF EngineInv

(* Neither a start nor a restored order gets past an engaged kill switch.   *)
THEOREM KillSwitchFreezesAcrossRestarts ==
  Recovered = {} /\ EngineSpec => KillFreezesAdmission
<1> SUFFICES ASSUME Recovered = {} PROVE EngineSpec => KillFreezesAdmission
  OBVIOUS
<1> DEFINE Frozen == killSwitch /\ killSwitch' => Submitting' \subseteq Submitting
<1>1. EngineInv /\ [EngineNext]_allVars => [Frozen]_vars
  <2> SUFFICES ASSUME EngineInv, [EngineNext]_allVars PROVE Frozen
    BY Zenon
  <2>1. CASE GatewayStep \/ ExchangeStep \/ UNCHANGED <<vars, phase, used>>
    <3> DEFINE U == Fresh
    <3>1. Moves(U) \/ UNCHANGED vars
      BY <2>1, RunsGateway
    <3> HIDE DEF U
    <3>2. Settles \/ SomeAdmission
      BY <3>1, SettlesOrAdmits DEF EngineInv
    <3> QED BY <3>2 DEF Settles, SomeAdmission, Admits
  <2>2. CASE call' = [t \in Tasks |-> Idle] \/ UNCHANGED call
    BY <2>2 DEF Submitting, Submitters, Idle
  <2>3. CASE ChangeSave \/ LoopSave \/ (\E w \in writing : Written(w) \/ SaveFails(w))
    BY <2>1, <2>3 DEF ChangeSave, LoopSave, Written, SaveFails
  <2>4. CASE Crash \/ BeginStop \/ EndStop \/ Boot
    BY <2>2, <2>4, Zenon DEF Crash, BeginStop, EndStop, Boot, CallsEnd
  <2>5. CASE UNCHANGED allVars
    BY <2>1, <2>5 DEF allVars, engineVars
  <2> QED BY <2>1, <2>3, <2>4, <2>5, Zenon DEF EngineNext
<1> QED BY <1>1, EngineInvariant, PTL DEF EngineSpec, KillFreezesAdmission

(* What the stored snapshot holds, and what those on their way will put     *)
(* there, a process that is up has in its book: it read the one when it     *)
(* began, unless Redis did not answer, and wrote the others itself.         *)
Remembers(orders) == \A o \in orders : book[o] # "absent"

Remembered == phase # "down" =>
  /\ \A w \in writing : Remembers(w.snapshot.orders)
  /\ stored # NoSnapshot => Remembers(stored.orders)

LEMMA StepRemembered ==
  ASSUME EngineInv, Remembered, "boot" \notin StoreFaults, [EngineNext]_allVars
  PROVE  Remembered'
<1>0. /\ TypeOK /\ EngineTypeOK /\ SavesSound
      /\ \A w \in writing : w.snapshot \in Snapshots
  BY DEF EngineInv, BaseInv, SavesSound, Sound
<1>1. Remembers(Snapshot.orders)
  BY DEF Remembers, Snapshot, OpenOrders, OpenIn
<1>2. ASSUME \/ GatewayStep \/ ExchangeStep
             \/ UNCHANGED <<vars, phase, used>>
      PROVE  /\ UNCHANGED phase
             /\ \A orders \in SUBSET Orders : Remembers(orders) => Remembers(orders)'
  <2>1. UNCHANGED phase /\ (Moves(Fresh) \/ UNCHANGED vars)
    BY <1>2, RunsGateway
  <2>2. \A o \in Orders : book'[o] = "absent" => book[o] = "absent"
    <3> DEFINE U == Fresh
    <3>1. Moves(U) \/ UNCHANGED vars
      BY <2>1
    <3> HIDE DEF U
    <3> QED BY <3>1, NeverAbsentAgain DEF EngineInv
  <2> QED BY <2>1, <2>2 DEF Remembers
<1>3. ASSUME \/ GatewayStep \/ ExchangeStep
             \/ UNCHANGED <<vars, phase, used>>,
             writing' \subseteq writing \cup {[by |-> by, snapshot |-> Snapshot] : by \in Savers},
             \/ UNCHANGED stored
             \/ \E w \in writing : stored' = w.snapshot
      PROVE  Remembered'
  <2> SUFFICES ASSUME phase # "down" PROVE Remembered'
    BY <1>2, <1>3 DEF Remembered
  <2>1. \A orders \in SUBSET Orders : Remembers(orders) => Remembers(orders)'
    BY <1>2, <1>3
  <2>2. \A w \in writing' : w.snapshot.orders \in SUBSET Orders /\ Remembers(w.snapshot.orders)
    BY <1>0, <1>1, <1>3, SnapshotSound DEF Remembered, Snapshots, Sound
  <2>3. stored' # NoSnapshot =>
          stored'.orders \in SUBSET Orders /\ Remembers(stored'.orders)
    BY <1>0, <1>3 DEF Remembered, Snapshots, SavesSound, Sound
  <2> QED BY <2>1, <2>2, <2>3 DEF Remembered
<1>4. CASE GatewayStep \/ ExchangeStep
  <2>1. UNCHANGED <<writing, stored>>
    BY <1>4 DEF GatewayStep, ExchangeStep, engineVars, saveVars
  <2> QED BY <1>3, <1>4, <2>1
<1>5. CASE ChangeSave \/ LoopSave
  <2>1. /\ UNCHANGED <<vars, phase, stored, used>>
        /\ \E by \in Savers : writing' = writing \cup {[by |-> by, snapshot |-> Snapshot]}
    BY <1>5 DEF ChangeSave, LoopSave, Save, Savers
  <2> QED BY <1>3, <2>1
<1>6. ASSUME NEW w \in writing, Written(w) \/ SaveFails(w)
      PROVE  Remembered'
  <2>1. /\ UNCHANGED <<vars, phase, used>> /\ writing' = writing \ {w}
        /\ stored' = stored \/ stored' = w.snapshot
    BY <1>6 DEF Written, SaveFails
  <2> QED BY <1>3, <2>1
<1>7. CASE Crash \/ EndStop
  BY <1>7 DEF Crash, EndStop, GoDown, Remembered
<1>8. CASE BeginStop
  <2>1. /\ phase = "up" /\ UNCHANGED <<book, stored>>
        /\ writing' \subseteq writing \cup {[by |-> "stop", snapshot |-> Snapshot]}
    BY <1>8 DEF BeginStop
  <2> QED BY <1>1, <2>1 DEF Remembered, Remembers
<1>9. CASE Boot
  <2>1. writing' = {} /\ UNCHANGED stored
    BY <1>0, <1>9 DEF Boot, EngineTypeOK, saveVars
  <2>2. ASSUME stored # NoSnapshot PROVE \A o \in stored.orders : book'[o] = "open"
    <3>1. Knows(Restored(stored), stored.ids, stored.kill)
      BY <1>9, <2>2 DEF Boot
    <3>2. stored.orders \subseteq Orders
      BY <1>0, <2>2 DEF SavesSound, Sound, Snapshots
    <3> QED BY <3>1, <3>2 DEF Knows, Restored
  <2> QED BY <2>1, <2>2 DEF Remembered, Remembers
<1>10. CASE UNCHANGED allVars
  <2>1. UNCHANGED <<vars, phase, used, writing, stored>>
    BY <1>10 DEF allVars, engineVars, saveVars
  <2> QED BY <1>3, <2>1
<1> QED BY <1>4, <1>5, <1>6, <1>7, <1>8, <1>9, <1>10 DEF EngineNext

(* As long as Redis answers when the process starts, an order leaves the    *)
(* stored snapshot only by way of a process that has it in its book.        *)
THEOREM StoredOrdersNeverForgotten ==
  Recovered = {} /\ "boot" \notin StoreFaults /\ EngineSpec => NeverForgotten
<1> SUFFICES ASSUME Recovered = {}, "boot" \notin StoreFaults
             PROVE  EngineSpec => NeverForgotten
  OBVIOUS
<1> DEFINE Recalled == stored # NoSnapshot =>
                      \A o \in stored.orders \ stored'.orders : book[o] # "absent"
<1>1. EngineInit => Remembered
  BY DEF EngineInit, Remembered
<1>2. EngineInv /\ Remembered /\ [EngineNext]_allVars => Remembered'
  BY StepRemembered
<1>3. EngineInv /\ Remembered /\ [EngineNext]_allVars => [Recalled]_allVars
  <2> SUFFICES ASSUME EngineInv, Remembered, EngineNext PROVE Recalled
    BY Zenon
  <2>1. CASE UNCHANGED stored
    BY <2>1
  <2>2. ASSUME NEW w \in writing PROVE Recalled
    <3>1. phase # "down"
      BY <2>2 DEF EngineInv, EngineTypeOK
    <3> QED BY <3>1 DEF Remembered, Remembers
  <2> HIDE DEF Recalled
  <2> QED BY <2>1, <2>2, Zenon
          DEF EngineNext, GatewayStep, ExchangeStep, ChangeSave, LoopSave, Crash, BeginStop,
              EndStop, GoDown, Boot, engineVars, saveVars
<1>4. Recovered = {} /\ EngineSpec => []EngineInv
  BY EngineInvariant
<1> QED BY <1>1, <1>2, <1>3, <1>4, PTL DEF EngineSpec, NeverForgotten

-----------------------------------------------------------------------------
(* The refinement of OrderCustody.                                          *)

LEMMA IdsGrow ==
  ASSUME NEW U, Moves(U) \/ UNCHANGED vars
  PROVE  exchangeIds \subseteq exchangeIds'
BY DEF Moves, CallStep, Ends, Admits, SendsDelete, Calm, VenueAccepts, SubmitReturns, Tracked,
       SubmitRejected, VenueCancels, VenueRefusesCancel, VenueStep, Raise, VenueFills,
       EngageKillSwitch, ReleaseKillSwitch, Tick, vars, mapVars

LEMMA GatewayStepIsWork ==
  ASSUME EngineInv, EngineInv', GatewayStep
  PROVE  Custody!Work
<1>0. TypeOK /\ Snapshot' \in Snapshots
  BY DEF EngineInv, BaseInv, Snapshots, Snapshot, TypeOK, OpenOrders, OpenIn
<1>1. Moves(Fresh) \/ UNCHANGED vars
  BY RunsGateway
<1>2. exchangeIds \subseteq exchangeIds' /\ (Settles \/ SomeAdmission)
  <2> DEFINE U == Fresh
  <2>1. Moves(U) \/ UNCHANGED vars
    BY <1>1
  <2> HIDE DEF U
  <2> QED BY <2>1, IdsGrow, SettlesOrAdmits DEF EngineInv
<1>3. /\ phase # "down" /\ (phase # "down")' = (phase # "down")
      /\ UNCHANGED <<writing, stored>>
  BY DEF GatewayStep
<1>4. Snapshot' \in Custody!Charges
  BY <1>0 DEF Custody!Charges, Snapshots
<1>5. /\ Snapshot'.ids \subseteq Snapshot'.orders
      /\ Snapshot.ids \cap Snapshot'.orders \subseteq Snapshot'.ids
  BY <1>2 DEF Snapshot
<1>6. \/ Snapshot'.orders \subseteq Snapshot.orders
      \/ /\ ~Snapshot.kill
         /\ \E o \in Orders \ Snapshot.orders :
              Snapshot'.orders \subseteq Snapshot.orders \cup {o}
         /\ Cardinality(Snapshot'.orders) <= MaxOpenOrders
  <2>1. CASE Settles
    BY <2>1 DEF Settles, Snapshot
  <2>2. CASE SomeAdmission
    <3> SUFFICES ASSUME NEW t \in Tasks, NEW b, NEW o \in Orders, NEW peer \in Peers,
                        BookAfter(t, b), Admits(t, o, peer, b)
                 PROVE  /\ ~Snapshot.kill
                        /\ \E x \in Orders \ Snapshot.orders :
                             Snapshot'.orders \subseteq Snapshot.orders \cup {x}
                        /\ Cardinality(Snapshot'.orders) <= MaxOpenOrders
      BY <2>2 DEF SomeAdmission
    <3>2. OpenOrders' \subseteq OpenOrders \cup {o} /\ o \notin OpenOrders /\ ~killSwitch
      BY <1>0, BookAfterType DEF Admits, OpenOrders, OpenIn
    <3>3. Cardinality(OpenOrders') <= MaxOpenOrders
      BY DEF EngineInv, OpenOrdersBounded
    <3> QED BY <3>2, <3>3 DEF Snapshot
  <2> QED BY <1>2, <2>1, <2>2
<1>7. Custody!Cardinality(Snapshot'.orders) = Cardinality(Snapshot'.orders)
  BY DEF Custody!Cardinality, Cardinality
<1> QED BY <1>3, <1>4, <1>5, <1>6, <1>7 DEF Custody!Work

LEMMA SavingTakesDown ==
  ASSUME phase # "down", phase' # "down", Snapshot' = Snapshot, UNCHANGED stored,
         NEW by, NEW kept \in SUBSET writing,
         writing' = kept \cup {[by |-> by, snapshot |-> Snapshot]}
  PROVE  Custody!TakeDown
<1> DEFINE down  == {w.snapshot : w \in writing}
           saved == [by |-> by, snapshot |-> Snapshot]
<1>1. Snapshot \in down'
  <2>1. saved \in writing' /\ saved.snapshot = Snapshot
    OBVIOUS
  <2> HIDE DEF saved
  <2> QED BY <2>1
<1>2. down' \subseteq down \cup {Snapshot}
  OBVIOUS
<1>3. (phase # "down")' = (phase # "down")
  OBVIOUS
<1> QED BY <1>1, <1>2, <1>3 DEF Custody!TakeDown

LEMMA StepIsCustodyStep ==
  EngineInv /\ EngineInv' /\ [EngineNext]_allVars => [Custody!Next]_Custody!vars
<1> SUFFICES ASSUME EngineInv, EngineInv', [EngineNext]_allVars
             PROVE  [Custody!Next]_Custody!vars
  OBVIOUS
<1> USE DEF Custody!Next
<1>0. TypeOK /\ EngineTypeOK
  BY DEF EngineInv, BaseInv
<1>1. ASSUME UNCHANGED <<book, exchangeIds, killSwitch>>
      PROVE  Snapshot' = Snapshot
  BY <1>1 DEF Snapshot, OpenOrders, OpenIn
<1>2. CASE GatewayStep
  BY <1>2, GatewayStepIsWork
<1>3. CASE ExchangeStep \/ UNCHANGED allVars
  <2>1. UNCHANGED <<book, exchangeIds, killSwitch, phase, writing, stored>>
    BY <1>3 DEF ExchangeStep, VenueFills, allVars, vars, mapVars, riskVars, engineVars, saveVars
  <2> QED BY <1>1, <2>1 DEF Custody!vars
<1>4. CASE ChangeSave \/ LoopSave
  <2>1. /\ UNCHANGED <<book, exchangeIds, killSwitch, phase, stored>> /\ phase # "down"
        /\ \E by \in Savers : writing' = writing \cup {[by |-> by, snapshot |-> Snapshot]}
    BY <1>0, <1>4 DEF EngineTypeOK, ChangeSave, LoopSave, Save, Savers, vars, mapVars, riskVars
  <2>2. Custody!TakeDown
    BY <1>1, <2>1, SavingTakesDown
  <2> QED BY <2>2
<1>5. ASSUME NEW w \in writing, Written(w)
      PROVE  Custody!Store
  <2>1. /\ UNCHANGED <<book, exchangeIds, killSwitch, phase>>
        /\ writing' = writing \ {w} /\ stored' = w.snapshot
    BY <1>5 DEF Written, vars, mapVars, riskVars
  <2> QED BY <1>1, <2>1 DEF Custody!Store
<1>6. ASSUME NEW w \in writing, SaveFails(w)
      PROVE  Custody!GiveUp
  <2>1. /\ UNCHANGED <<book, exchangeIds, killSwitch, phase, stored>>
        /\ writing' = writing \ {w}
    BY <1>6 DEF SaveFails, vars, mapVars, riskVars
  <2> QED BY <1>1, <2>1 DEF Custody!GiveUp
<1>7. CASE Crash \/ EndStop
  <2>1. /\ phase # "down" /\ phase' = "down" /\ writing' = {} /\ UNCHANGED stored
        /\ Knows({}, {}, FALSE)
    BY <1>7 DEF Crash, EndStop, GoDown
  <2>2. Snapshot' = Custody!Nothing
    BY <2>1 DEF Knows, Snapshot, OpenOrders, OpenIn, Custody!Nothing
  <2>3. Custody!Die
    BY <2>1, <2>2 DEF Custody!Die
  <2> QED BY <2>3
<1>8. CASE BeginStop
  <2>1. /\ UNCHANGED <<book, exchangeIds, killSwitch, stored>>
        /\ phase = "up" /\ phase' = "stopping"
        /\ writing' = {w \in writing : w.by # "loop"}
                        \cup {[by |-> "stop", snapshot |-> Snapshot]}
    BY <1>8 DEF BeginStop, mapVars, riskVars
  <2>2. Custody!TakeDown
    BY <1>1, <2>1, SavingTakesDown
  <2> QED BY <2>2
<1>9. CASE Boot
  <2>1. phase = "down" /\ phase' = "up" /\ UNCHANGED <<writing, stored>>
    BY <1>9 DEF Boot, saveVars
  <2>2. CASE (stored = NoSnapshot \/ "boot" \in StoreFaults) /\ Knows({}, {}, FALSE)
    <3>1. Snapshot' = Custody!Nothing
      BY <2>2 DEF Knows, Snapshot, OpenOrders, OpenIn, Custody!Nothing
    <3> QED BY <2>1, <2>2, <3>1 DEF Custody!TakeOver
  <2>3. CASE stored # NoSnapshot /\ Knows(Restored(stored), stored.ids, stored.kill)
    <3>1. Sound(stored)
      BY <2>3 DEF EngineInv, SavesSound
    <3>2. OpenOrders' = stored.orders
      BY <2>3, <3>1 DEF Knows, Restored, OpenOrders, OpenIn, Sound, Snapshots
    <3>3. exchangeIds' \cap OpenOrders' = stored.ids /\ killSwitch' = stored.kill
      BY <2>3, <3>1, <3>2 DEF Knows, Sound
    <3>4. Snapshot' = stored
      BY <3>1, <3>2, <3>3 DEF Snapshot, Sound, Snapshots
    <3> QED BY <2>1, <2>3, <3>4 DEF Custody!TakeOver
  <2> QED BY <1>9, <2>2, <2>3 DEF Boot
<1> QED BY <1>2, <1>3, <1>4, <1>5, <1>6, <1>7, <1>8, <1>9 DEF EngineNext

(* Whatever is lost, overtaken or cut off, a process starts with exactly    *)
(* what an earlier one had in its book, in its exchange ids and on its kill *)
(* switch at one moment, or with nothing.                                   *)
THEOREM EngineImplementsCustody == Recovered = {} /\ EngineSpec => ImplementsCustody
<1> SUFFICES ASSUME Recovered = {} PROVE EngineSpec => ImplementsCustody
  OBVIOUS
<1>1. EngineInit => Custody!Init
  <2> SUFFICES ASSUME EngineInit PROVE Custody!Init
    OBVIOUS
  <2>1. Snapshot = Custody!Nothing
    BY DEF EngineInit, Init, Snapshot, OpenOrders, OpenIn, Custody!Nothing
  <2> QED BY <2>1 DEF EngineInit, Custody!Init
<1>2. EngineSpec => []EngineInv
  BY EngineInvariant
<1> QED BY <1>1, <1>2, StepIsCustodyStep, PTL DEF EngineSpec, ImplementsCustody, Custody!Spec
=============================================================================
