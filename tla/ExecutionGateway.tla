-------------------------- MODULE ExecutionGateway --------------------------
(***************************************************************************)
(* The execution gateway (sybakiller/gateway.py) with the parts it drives  *)
(* in the same event loop: the order book's status table (order_book.py),  *)
(* the pre-trade risk checks (risk.py) and, as the environment, the venue  *)
(* behind the exchange adapter (exchanges/binance.py).                     *)
(*                                                                         *)
(* place_order, cancel_order and replace_order are coroutines.  They only  *)
(* give up the event loop while the adapter waits for the venue, so each   *)
(* stretch between two such waits is one action; a task's control point    *)
(* says which answer it is waiting for.  The awaits of rate_limiter never  *)
(* suspend: ExchangeAdapter.rate_limiter builds a full bucket per access   *)
(* (module RateLimiter models the bucket itself).                          *)
(***************************************************************************)
EXTENDS Integers, FiniteSets

CONSTANTS
  Orders,               \* client order ids
  Tasks,                \* asyncio tasks that call the gateway (API, router)
  NoOrder,              \* "no other order": the call is not a replace
  Recovered,            \* orders StateRecovery.apply put in the book at start
  Oversized,            \* orders the notional and position limits refuse
  MaxOpenOrders,        \* RiskLimits.max_open_orders
  MaxOrdersPerSecond,   \* int(RiskLimits.max_orders_per_second)
  Second,               \* clock ticks in the one-second rate window
  RequiresSymbol,       \* VenueProfile.requires_symbol_on_cancel
  Faults,               \* what may go wrong beyond a clean refusal
  MaxTime,              \* bound on the clock
  MaxDeletes            \* bound on the cancel nonce of an order

AllFaults == {"exception",       \* a non-RuntimeError: timeout, lost connection
              "cancel_refused",  \* the venue answers DELETE with an error
              "unknown_status"}  \* an HTTP error after the venue took the order

ASSUME OrdersAssumption == IsFiniteSet(Orders) /\ NoOrder \notin Orders
ASSUME TasksAssumption == IsFiniteSet(Tasks) /\ Tasks # {}
ASSUME RecoveredAssumption ==
  Recovered \subseteq Orders /\ Cardinality(Recovered) <= MaxOpenOrders
ASSUME LimitsAssumption ==
  /\ MaxOpenOrders \in Nat /\ MaxOrdersPerSecond \in Nat
  /\ Second \in Nat \ {0} /\ MaxTime \in Nat /\ MaxDeletes \in Nat
ASSUME FaultsAssumption == Faults \subseteq AllFaults /\ RequiresSymbol \in BOOLEAN

VARIABLES
  book,             \* OrderBook._orders: the status of every known order
  exchangeIds,      \* domain of ExecutionGateway._exchange_ids
  orderSymbols,     \* domain of ExecutionGateway._order_symbols
  cancelNonce,      \* ExecutionGateway._cancel_nonce: DELETEs sent per order
  killSwitch,       \* RiskManager._kill_switch
  orderTimestamps,  \* RiskManager._order_timestamps, each tagged by its order
  now,              \* time()
  call,             \* per task: the coroutine's control point and locals
  result,           \* per task: how its last call ended
  venue,            \* external: each order's state on the exchange
  admittedAt        \* history, read by no action: when an order passed the checks

riskVars == <<killSwitch, orderTimestamps>>
mapVars  == <<exchangeIds, orderSymbols, cancelNonce>>
vars     == <<book, mapVars, riskVars, now, call, result, venue, admittedAt>>

Statuses      == {"absent", "open", "cancelled", "rejected"}
VenueStates   == {"none", "live", "filled", "cancelled"}
ControlPoints == {"idle",      \* no call in progress
                  "submit",    \* POST sent, not yet taken by the venue
                  "accepted",  \* the venue took the order, answer on its way
                  "delete",    \* DELETE sent
                  "deleted"}   \* the venue handled it, answer on its way
Results       == {"none", "ok", "refused", "raised"}

Idle == [at |-> "idle", order |-> NoOrder, peer |-> NoOrder, ts |-> 0]

Submitters == {t \in Tasks : call[t].at \in {"submit", "accepted"}}
Submitting == {call[t].order : t \in Submitters}
OpenIn(b)  == {o \in Orders : b[o] = "open"}
OpenOrders == OpenIn(book)

-----------------------------------------------------------------------------
(* How a call ends, and how it suspends.                                    *)

Return(t, r) == /\ call' = [call EXCEPT ![t] = Idle]
                /\ result' = [result EXCEPT ![t] = r]

Suspend(t, at, o, peer) ==
  /\ call' = [call EXCEPT ![t] = [at |-> at, order |-> o, peer |-> peer, ts |-> now]]
  /\ result' = [result EXCEPT ![t] = "none"]

(* RiskManager._prune_rate_window at time at.                               *)
Pruned(at) == {s \in orderTimestamps : s.at > at - Second}

\* Mutants of WithinLimits: the kill switch is not asked; > instead of >=.
MutLimitsIgnoreKill(o, b) == o \notin Oversized /\ Cardinality(OpenIn(b)) < MaxOpenOrders
MutLimitsOneTooMany(o, b) == /\ ~killSwitch /\ o \notin Oversized
                             /\ Cardinality(OpenIn(b)) <= MaxOpenOrders

(* The checks of RiskManager.check_order up to the rate window, which is    *)
(* only pruned when they pass.                                              *)
WithinLimits(o, b) == /\ ~killSwitch
                      /\ o \notin Oversized
                      /\ Cardinality(OpenIn(b)) < MaxOpenOrders

\* Mutant of WithinRate: > instead of >=.
MutWithinRate == Cardinality(Pruned(now)) <= MaxOrdersPerSecond

WithinRate == Cardinality(Pruned(now)) < MaxOrdersPerSecond

\* Mutant of Duplicate: register_order overwrites the order it finds.
MutDuplicate(o, b) == FALSE

(* OrderBook.register_order refuses an order id it knows.                   *)
Duplicate(o, b) == b[o] # "absent"

(* place_order up to the POST, run on book b (the book itself, or the book  *)
(* a replace has just cancelled its old order in).                          *)
Place(t, o, peer, b) ==
  \/ /\ ~WithinLimits(o, b)
     /\ Return(t, "refused")
     /\ book' = b
     /\ UNCHANGED <<orderTimestamps, admittedAt>>
  \/ /\ WithinLimits(o, b) /\ ~WithinRate
     /\ Return(t, "refused")
     /\ book' = b
     /\ orderTimestamps' = Pruned(now)
     /\ UNCHANGED admittedAt
  \/ /\ WithinLimits(o, b) /\ WithinRate
     /\ Duplicate(o, b)              \* ValueError out of place_order
     /\ Return(t, "raised")
     /\ book' = b
     /\ orderTimestamps' = Pruned(now)
     /\ UNCHANGED admittedAt
  \/ /\ WithinLimits(o, b) /\ WithinRate
     /\ ~Duplicate(o, b)
     /\ book' = [b EXCEPT ![o] = "open"]
     /\ Suspend(t, "submit", o, peer)
     /\ orderTimestamps' = Pruned(now)
     /\ admittedAt' = [admittedAt EXCEPT ![o] = now]

(* What follows a successful cancel of o: the end of cancel_order, or the   *)
(* second half of replace_order, which places n.                            *)
AfterCancel(t, o, n, b) ==
  \/ /\ n = NoOrder
     /\ Return(t, "ok")
     /\ book' = b
     /\ UNCHANGED <<orderTimestamps, admittedAt>>
  \/ /\ n # NoOrder
     /\ Place(t, n, o, b)

\* Mutant of Cancelled: the status is not set.
MutCancelledForgotten(o) == book

(* OrderBook.cancel_order on an order that is not terminal.                 *)
Cancelled(o) == [book EXCEPT ![o] = "cancelled"]

-----------------------------------------------------------------------------
(* The gateway's operations, up to their first wait.                        *)

(* Ids of replacements still to be placed: fresh uuids no other call uses.  *)
Reserved == {call[t].peer : t \in {u \in Tasks : call[u].at \in {"delete", "deleted"}}}

PlaceOrder(t, o) == /\ call[t].at = "idle"
                    /\ o \notin Reserved
                    /\ Place(t, o, NoOrder, book)
                    /\ UNCHANGED <<mapVars, killSwitch, now, venue>>

(* Known to the book and not is_terminal.                                   *)
Cancellable(o) == book[o] = "open"

\* Mutant of NeedsDelete: the exchange id is looked up under another key.
MutNeedsDelete(o) == FALSE

(* cancel_order asks the venue only when it knows an exchange id.           *)
NeedsDelete(o) == o \in exchangeIds

Refuse(t) == /\ Return(t, "refused")
             /\ UNCHANGED <<book, cancelNonce, orderTimestamps, admittedAt>>

(* cancel_order(o, idempotent); n is the replacement when replace_order     *)
(* calls it.                                                                *)
StartCancel(t, o, n, idempotent) ==
  \/ /\ \/ book[o] \in {"absent", "rejected"}
        \/ book[o] = "cancelled" /\ ~idempotent
        \/ /\ Cancellable(o) /\ NeedsDelete(o)
           /\ RequiresSymbol /\ o \notin orderSymbols
     /\ Refuse(t)
  \/ /\ book[o] = "cancelled" /\ idempotent
     /\ AfterCancel(t, o, n, book)
     /\ UNCHANGED cancelNonce
  \/ /\ Cancellable(o) /\ ~NeedsDelete(o)
     /\ AfterCancel(t, o, n, Cancelled(o))
     /\ UNCHANGED cancelNonce
  \/ /\ Cancellable(o) /\ NeedsDelete(o)
     /\ RequiresSymbol => o \in orderSymbols
     /\ cancelNonce[o] < MaxDeletes
     /\ cancelNonce' = [cancelNonce EXCEPT ![o] = @ + 1]
     /\ Suspend(t, "delete", o, n)
     /\ UNCHANGED <<book, orderTimestamps, admittedAt>>

CancelOrder(t, o, idempotent) ==
  /\ call[t].at = "idle"
  /\ StartCancel(t, o, NoOrder, idempotent)
  /\ UNCHANGED <<exchangeIds, orderSymbols, killSwitch, now, venue>>

(* replace_order: both adapters answer the native replace with None without *)
(* suspending, so it is cancel_order(o), then place_order of a fresh id n.  *)
ReplaceOrder(t, o, n) ==
  /\ call[t].at = "idle"
  /\ n # o /\ n \notin Reserved /\ book[n] = "absent"
  /\ StartCancel(t, o, n, TRUE)
  /\ UNCHANGED <<exchangeIds, orderSymbols, killSwitch, now, venue>>

-----------------------------------------------------------------------------
(* The answers of the venue, and what the gateway does with them.           *)

VenueStep(t, from, to, s) ==
  /\ call[t].at = from
  /\ call' = [call EXCEPT ![t].at = to]
  /\ venue' = [venue EXCEPT ![call[t].order] = s]
  /\ UNCHANGED <<book, mapVars, riskVars, now, result, admittedAt>>

VenueAccepts(t) == VenueStep(t, "submit", "accepted", "live")

\* Mutant of Tracked: the exchange id is not remembered.
MutTracked(o) == exchangeIds \ {o}

Tracked(o) == exchangeIds \cup {o}

SubmitReturns(t) ==
  /\ call[t].at = "accepted"
  /\ exchangeIds' = Tracked(call[t].order)
  /\ orderSymbols' = orderSymbols \cup {call[t].order}
  /\ orderTimestamps' =
       Pruned(call[t].ts) \cup {[order |-> call[t].order, at |-> call[t].ts]}
  /\ Return(t, "ok")
  /\ UNCHANGED <<book, cancelNonce, killSwitch, now, venue, admittedAt>>

Rejected(o) == [book EXCEPT ![o] = "rejected"]

(* submit_order raised RuntimeError: a filter or an HTTP error.             *)
SubmitRejected(t) ==
  /\ \/ call[t].at = "submit"
     \/ call[t].at = "accepted" /\ "unknown_status" \in Faults
  /\ book' = Rejected(call[t].order)
  /\ Return(t, "refused")
  /\ UNCHANGED <<mapVars, riskVars, now, venue, admittedAt>>

VenueCancels(t) == /\ call[t].at = "delete" /\ venue[call[t].order] = "live"
                   /\ VenueStep(t, "delete", "deleted", "cancelled")

(* The adapter turns the HTTP error into False; the gateway ignores it.     *)
VenueRefusesCancel(t) ==
  /\ call[t].at = "delete"
  /\ venue[call[t].order] # "live" \/ "cancel_refused" \in Faults
  /\ VenueStep(t, "delete", "deleted", venue[call[t].order])

CancelReturns(t) ==
  /\ call[t].at = "deleted"
  /\ \/ /\ book[call[t].order] # "open"    \* ValueError: terminal order
        /\ Return(t, "raised")
        /\ UNCHANGED <<book, orderTimestamps, admittedAt>>
     \/ /\ book[call[t].order] = "open"
        /\ AfterCancel(t, call[t].order, call[t].peer, Cancelled(call[t].order))
  /\ UNCHANGED <<mapVars, killSwitch, now, venue>>

(* Any exception the gateway does not catch ends the call where it waits.   *)
Raise(t) == /\ "exception" \in Faults
            /\ call[t].at # "idle"
            /\ Return(t, "raised")
            /\ UNCHANGED <<book, mapVars, riskVars, now, venue, admittedAt>>

VenueFills(o) == /\ venue[o] = "live"
                 /\ venue' = [venue EXCEPT ![o] = "filled"]
                 /\ UNCHANGED <<book, mapVars, riskVars, now, call, result, admittedAt>>

-----------------------------------------------------------------------------
(* The operator and the clock.                                              *)

EngageKillSwitch == /\ killSwitch' = TRUE
                    /\ UNCHANGED <<book, mapVars, orderTimestamps, now, call, result, venue, admittedAt>>

ReleaseKillSwitch == /\ killSwitch' = FALSE
                     /\ UNCHANGED <<book, mapVars, orderTimestamps, now, call, result, venue, admittedAt>>

Tick == /\ now < MaxTime
        /\ now' = now + 1
        /\ UNCHANGED <<book, mapVars, riskVars, call, result, venue, admittedAt>>

-----------------------------------------------------------------------------
Init ==
  /\ book = [o \in Orders |-> IF o \in Recovered THEN "open" ELSE "absent"]
  /\ exchangeIds = Recovered
  /\ orderSymbols = {}                 \* apply restores _exchange_ids only
  /\ cancelNonce = [o \in Orders |-> 0]
  /\ killSwitch \in BOOLEAN
  /\ orderTimestamps = {}
  /\ now = 0
  /\ call = [t \in Tasks |-> Idle]
  /\ result = [t \in Tasks |-> "none"]
  /\ venue = [o \in Orders |-> IF o \in Recovered THEN "live" ELSE "none"]
  /\ admittedAt = [o \in Orders |-> -Second]

Answer(t) == \/ VenueAccepts(t) \/ SubmitReturns(t) \/ SubmitRejected(t)
             \/ VenueCancels(t) \/ VenueRefusesCancel(t) \/ CancelReturns(t)
             \/ Raise(t)

Next ==
  \/ \E t \in Tasks :
       \/ \E o \in Orders : PlaceOrder(t, o)
       \/ \E o \in Orders, idempotent \in BOOLEAN : CancelOrder(t, o, idempotent)
       \/ \E o, n \in Orders : ReplaceOrder(t, o, n)
       \/ Answer(t)
  \/ \E o \in Orders : VenueFills(o)
  \/ EngageKillSwitch \/ ReleaseKillSwitch \/ Tick

Spec == Init /\ [][Next]_vars

(* aiohttp gives every request ten seconds in all, and the event loop runs  *)
(* every ready task: an answer, or its absence, always reaches the caller.  *)
FairSpec == Spec /\ \A t \in Tasks : WF_vars(Answer(t))

-----------------------------------------------------------------------------
(* Properties                                                               *)

Submission == [order : Orders, at : Nat]

(* Every variable keeps its type.                                           *)
TypeOK ==
  /\ book \in [Orders -> Statuses]
  /\ exchangeIds \subseteq Orders /\ orderSymbols \subseteq Orders
  /\ cancelNonce \in [Orders -> Nat]
  /\ killSwitch \in BOOLEAN
  /\ orderTimestamps \subseteq Submission
  /\ now \in Nat
  /\ call \in [Tasks -> [at : ControlPoints, order : Orders \cup {NoOrder},
                         peer : Orders \cup {NoOrder}, ts : Nat]]
  /\ result \in [Tasks -> Results]
  /\ venue \in [Orders -> VenueStates]
  /\ admittedAt \in [Orders -> Int]

(* However the calls interleave, the number of open orders never passes     *)
(* max_open_orders (risk.py check_order): the check and the registration    *)
(* happen before the first wait.                                            *)
OpenOrdersBounded == Cardinality(OpenOrders) <= MaxOpenOrders

(* An order id reaches the venue at most once: no two calls submit the same *)
(* order, and none submits an order that already has an exchange id         *)
(* (order_book.py register_order, called before the POST).                  *)
SubmittedOnce ==
  /\ \A t, u \in Submitters : call[t].order = call[u].order => t = u
  /\ \A t \in Submitters :
       /\ call[t].order \notin exchangeIds
       /\ venue[call[t].order] = "none" <=> call[t].at = "submit"

(* While the kill switch stays engaged no new order starts towards the      *)
(* venue, the second half of a replace included (risk.py check_order).      *)
KillFreezesAdmission ==
  [][killSwitch /\ killSwitch' => Submitting' \subseteq Submitting]_vars

(* The orders sent within the last second: what max_orders_per_second is    *)
(* meant to limit.  Those of them whose call ended without an answer that   *)
(* submit_order returned, by a refusal or a timeout, never get into         *)
(* _order_timestamps (gateway.py:48-55).                                    *)
SentRecently == {o \in Orders : admittedAt[o] > now - Second}
Unrecorded   == {o \in SentRecently : o \notin exchangeIds \cup Submitting}

(* What the window of risk.py is worth.  It records a submission after the  *)
(* answer and checks before the POST, so that the orders sent in a second   *)
(* pass the limit by the other calls in flight, and by every submission     *)
(* that failed: of these the code limits nothing.  Nothing else gets past.  *)
RateOvershootBounded ==
  Cardinality(SentRecently)
    <= MaxOrdersPerSecond + Cardinality(Tasks) - 1 + Cardinality(Unrecorded)

(* The limit itself, as check_order's "order rate limit exceeded" states it.*)
RateLimitHolds == Cardinality(SentRecently) <= MaxOrdersPerSecond

(* A cancelled or rejected order is not live on the exchange (order_book.py *)
(* calls the book the single source of truth).                              *)
TerminalNotLive ==
  \A o \in Orders : book[o] \in {"cancelled", "rejected"} => venue[o] # "live"

(* A terminal status is final: order_book.py refuses to cancel or fill a    *)
(* terminal order.                                                          *)
TerminalIsFinal ==
  [][\A o \in Orders : book[o] \in {"cancelled", "rejected"} => book'[o] = book[o]]_vars

(* A replacement is only sent once the order it replaces is off the venue's *)
(* book (gateway.py replace_order: cancel, then submit).                    *)
ReplacementNeverDoubles ==
  \A t \in Submitters : call[t].peer # NoOrder => venue[call[t].peer] # "live"

(* No call ends in an exception when the venue always answers, duplicate    *)
(* ids aside: a cancel that waited on the venue never meets a terminal      *)
(* order (gateway.py: idempotent cancel).                                   *)
CancelNeverRaises ==
  [][\A t \in Tasks : call[t].at = "deleted" /\ call'[t].at = "idle"
                        => result'[t] # "raised"]_vars

(* replace_order is idempotent: repeated on an order that is already        *)
(* cancelled it does not place another new order.                           *)
ReplaceIsIdempotent ==
  [][\A t \in Tasks :
       call[t].at = "idle" /\ call'[t].at = "submit" /\ call'[t].peer # NoOrder
         => book[call'[t].peer] = "open"]_vars

(* An order the venue has taken is eventually known to the gateway by its   *)
(* exchange id (so that it can be cancelled), or has left the venue.        *)
LiveIsEventuallyTracked ==
  \A o \in Orders : venue[o] = "live" ~> (o \in exchangeIds \/ venue[o] # "live")

(* A cancel that reached the venue takes effect on both sides: the order    *)
(* leaves the exchange and its status becomes terminal (gateway.py          *)
(* cancel_order, which updates the book after the venue's answer).          *)
CancelTakesEffect ==
  \A t \in Tasks, o \in Orders :
    call[t].at = "delete" /\ call[t].order = o
      ~> book[o] \in {"cancelled", "rejected"} /\ venue[o] # "live"

(* The gateway implements the abstract life of an order: whatever the tasks, *)
(* the venue and the faults do, the book, the exchange ids and the kill     *)
(* switch only move as module OrderLifecycle allows.                        *)
Lifecycle == INSTANCE OrderLifecycle
               WITH status <- book, acknowledged <- exchangeIds, halted <- killSwitch
ImplementsLifecycle == Lifecycle!Spec
=============================================================================
