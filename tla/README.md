# SybaKiller: formal models and proofs

TLA+ models of the trading stack under `sybakiller/` and `api/`, model-checked
with TLC and, for the properties that matter most, proved with TLAPS. Paths
below are relative to `src/`.

## 1. The system

SybaKiller is one asyncio process (FastAPI plus an engine). Ticks come in over a
WebSocket, strategies and external callers publish signals on a bus, a router
turns signals into orders, a gateway checks them against risk limits and sends
them to an exchange, and snapshots in Redis let a new process take over. The
Rust engine (`execution-engine/`) and the research swarm (`alpha-swarm/`) are
separate programs that share only a mask file.

    Binance WebSocket -> BinanceLiveFeed -> market-data loop -> strategies, Redis, /ws/market clients
    strategies, POST /signals -> MultiTenantSignalBus -> SignalExecutionRouter -+
    POST/DELETE /orders --------------------------------------------------------+-> ExecutionGateway
                                              RiskManager, OrderBook <----------+-> ExchangeAdapter -> exchange
    gateway changes, interval, shutdown -> StateRecovery.build_snapshot -> Redis -> StateRecovery.apply at start

Because there is one event loop, a stretch of code between two points where it
really waits is atomic. All concurrency is what other tasks do during such a
wait, and that is how the models cut the code into actions.

### Inventory

| Component | State | Operations | What is hard | What makes it correct |
|---|---|---|---|---|
| Execution gateway `sybakiller/gateway.py` | exchange ids, symbols, cancel nonces | place, cancel, replace | calls overlap while the exchange is asked; answers get lost | each order sent once; book and exchange agree; replace never doubles |
| Risk manager `risk.py` | kill switch, rate window | check, record | check and record lie on two sides of a wait | limits and kill switch hold under overlap |
| Order book, positions `order_book.py`, `types.py` | orders, positions | register, cancel, fill | clamped fills, positions that change sides | fills, statuses, positions and averages agree; a terminal order trades no more |
| Rate limiter `adapters/rate_limit.py`, `adapters/base.py` | token buckets | acquire | many sleepers, fractional refill | no window beyond burst and refill; sleeps exact; no sleeper left |
| Bus and router `strategy/` | priority queue, router task | publish, register, consume, start, stop | exceptions in the task, cancellation with a signal in hand, ids that collide | order within a priority, few losses, one order per id, no stalling |
| Snapshots `state/`, `engine.py` | the stored snapshot, saves under way | build, save, load, apply | crash between any two steps, overtaking saves, Redis away | nothing stored is forgotten, no id made up, Redis catches up |
| Market-data path `feeds/binance.py`, `engine.py`, `api/main.py` | tick queues, handler list | connect, consume, dispatch, attach, detach, start, stop | handlers change while the loop waits in one; queues overflow | order, newest tick survives, nobody is passed over or left waiting |
| Engine life cycle `engine.py` | running flag, tasks, connections | start, stop, snapshot loop | order of start-up, a failing step of `stop()`, tasks nobody tracks | a completed stop leaves no result unsaved, no router and no loop; the loop of saves keeps up |
| Exchange filters `exchanges/filters.py` | cached filters, a lock, those who wait for it | get, refresh | a refresh that hangs, fails or is cancelled while others wait; a clock that is set back | one request serves all; answers are fresh; no wrong refusal; every call ends |
| Binance and paper adapters `exchanges/` | HTTP session, quotes | submit, cancel, reconcile | timeouts, refusals | errors reach the gateway as it expects |
| HTTP API `api/main.py` | none of its own | orders, signals, kill switch, WebSocket | concurrent requests | the callers of the parts above |
| Redis ticks, configuration, venue profiles, scripts | a client | publish, read settings | none that a model would show | - |
| HDC engine `execution-engine/` | loaded masks | load, compare, best match | two builds of one comparison; a mask file half copied | only verified masks; the best match is found; the fast build misses nothing |
| Alpha swarm `alpha-swarm/` | locals of a run, the mask file | evolve, stress-test, write | random candidates; a kill while the file is written | the fittest mask is kept; a file holds only what passed its test |

`PROJECT.json` lists the source files of each, its status and, under `hazards`,
each place in the code that a test would hardly reach.

## 2. Modules

| Module | Models | Run by | Proofs |
|---|---|---|---|
| `ExecutionGateway` | gateway, status table, risk checks, exchange as environment | `MCExecutionGateway` | `ExecutionGatewayProofs` |
| `OrderLifecycle` | abstract: what the gateway promises of an order's status, of acknowledgement and of the kill switch | refined by `ExecutionGateway` | in `ExecutionGatewayProofs` |
| `OrderBook` | quantities, fills, positions, averages, notional limits | `MCOrderBook` | `OrderBookProofs` |
| `RateLimiter` | token buckets, shared or built per call | `MCRateLimiter` | `RateLimiterProofs` |
| `SignalRouter` | bus and router task | `MCEngineLifecycle` (through `EngineLifecycle`) | `SignalRouterProofs` |
| `SignalBus` | abstract: delivery by priority, and in order within one, without sequence numbers | refined by `SignalRouter` | in `SignalRouterProofs` |
| `EngineLifecycle` | extends `SignalRouter` with the steps of `start()` and `stop()`, the snapshot loop, connections | `MCEngineLifecycle` | in `SignalRouterProofs` |
| `EngineRecovery` | extends `ExecutionGateway` with snapshots, Redis, crashes, stops and starts | `MCEngineRecovery` | in `ExecutionGatewayProofs` |
| `OrderCustody` | abstract: what passes from one life of the process to the next | refined by `EngineRecovery` | in `ExecutionGatewayProofs` |
| `MarketFeed` | feed, market-data loop, handlers, WebSocket clients, start and stop | `MCMarketFeed` | `MarketFeedProofs` |
| `FilterCache` | filter cache, its lock, the orders that wait at it | `MCFilterCache` | `FilterCacheProofs` |
| `MaskPipeline` | swarm, mask file, operator's copy, HDC engine in both builds | `MCMaskPipeline` | `MaskPipelineProofs` |

`SumTheorems` is not about the code: it proves what the proofs of `OrderBook` and
`MaskPipeline` need to know of sums over finite sets.

The MC modules only give values to constants. Operators named `Mut...` are
mutants: a definition next to them as a plausible bug would have it. They are
not part of any specification; `PROJECT.json` says which property each breaks.

### ExecutionGateway
`call[t]` is a task's control point and locals in `place_order`/`cancel_order`:
`submit` and `accepted` are the two halves of the POST (before and after the
exchange has acted), `delete` and `deleted` of the DELETE. `PlaceOrder`,
`CancelOrder` and `ReplaceOrder` run up to the first wait: checks, registration,
and for a replace the cancel. `SubmitReturns`, `SubmitRejected`, `CancelReturns`
and `Raise` are what follows an answer; the second half of a replace is part of
`CancelReturns`. The awaits of the gateway's limiter never suspend, since the
adapter builds a full limiter at each access (see `RateLimiter`), so they are no
cut. The native replace (`gateway.py:99-111`) changes nothing: no adapter
overrides `ExchangeAdapter.replace_order`, which returns `None`. `Faults` says
what may go wrong: exceptions that are not `RuntimeError` (timeouts), a refused
DELETE, an error answer for an order the exchange did take. Quantities are left
to `OrderBook`; an order the notional limits refuse is a member of `Oversized`.

### OrderBook
`submitting` holds the orders whose `place_order` still waits for the exchange, during
which the order may be cancelled or filled; `RejectOrder` then sets the status whatever it
is by now, as `gateway.py:51` does, and `SubmitReturns` leaves the book alone.
Exact integers and fractions in place of floats. The history variable
`entryPrices` holds the prices that built a position since it was last flat or
changed sides. Nothing in `sybakiller/` calls `apply_fill`; fills carry the
order's own side and any quantity and price, as its signature permits.

### RateLimiter
One token is `Cost` credits, so that refills are integers; time is relative, and
`elapsed` saturates where the bucket is full anyway. An observer may open a
window at any moment, and `granted` counts within it. `PerCall` are the buckets
whose limiter is built per call, as `ExchangeAdapter.rate_limiter` does.

### SignalRouter
`Take` is the way from `bus.consume` to the gateway's first wait: build the
order, run the risk checks, register. `task` says where the router waits;
`dead` is a task ended by an exception. The gateway is reduced to refusal,
duplicate id, success and exception.

### EngineLifecycle
`at` is where the engine is between its start and its stop. `EngineStart` runs up
to the strategies' `start()`, which may wait (`StrategiesStarted`) or raise;
`_running` is set after it, and no API call is served before. `StopRouter`,
`FinalSave` and `Close` are the steps of `stop()`; an exception out of the first
skips the others. `saver` is the task of periodic saves. `dirty` is a history
variable: the order book has changed since a snapshot was last built. Building
one does not wait, so that the `on_result` hook builds it in the router's own
step; what becomes of it on its way to Redis is the matter of `EngineRecovery`.
`saving` says that some task of `_schedule_snapshot` has not ended. Nobody awaits or
cancels these: one may be under way when `store.close()` runs, and its retry opens the
connection again (`SaveReopens`). Changes of the book made through the API are not
here but in `ExecutionGateway` and `EngineRecovery`; `SavedBeforeNext` and
`StopIsComplete` are about the router's.

### EngineRecovery
`looping` says that the task of `_snapshot_loop` lives: with `StrategiesWait` it may have
ended at its first test. `scheduled` counts save tasks created and not yet run, `writing` holds snapshots
on their way to Redis, which may land in any order. `Crash` and `EndStop` lose
everything but Redis and the exchange; requests in flight at that moment may or
may not reach the exchange. `Boot` is `recover_state` and `start`.

`OrderCustody` says what this amounts to for an operator who restarts the engine: a
process is in charge of some open orders, of what the exchange calls them and of the
kill switch (`charge`), and its successor takes over exactly what is stored. Under the
mapping `charge` is `Snapshot`, what `build_snapshot` would return now, and `taken` are
the snapshots of `writing`; who saves them, the loop, the counters, the requests and the
exchange have gone. `Work` bounds what one step of the gateway may do to the charge: one
new order at a time, within the limit and never under the kill switch, and an order that
stays keeps its exchange id.

### MarketFeed
Ticks are numbers in the order the exchange sends them. `loop` is where the
market-data task waits; `Dispatch` goes through the handler list by index, as a
Python `for` does, while `Attach` and `Detach` change it. Only the Redis
publisher waits, and it is first in the list (`api/main.py:33`). `StopLoop` and
`Disconnect` are the steps of `stop()`. Reconnecting, its delay, and ticks that are
lost while the link is down are choices of the environment. A client is given the last
tick when it comes; if the loop is just then handing that tick out, the client gets it
again from its queue, once (`first`, `Least`).

### FilterCache
`call[c]` is what one `submit_order` does in `ExchangeFilterCache.get`: `waiting` at the
lock, `requesting`, `answered` (the exchange has answered, the body is being read).
After the lock is released the lookup follows without a wait, so that leaving the
lock and answering are one step. `setBack` is by how much `time.time()` has been
set back, `Clock` what it reads; `asOf` remembers when the exchange gave the
answer that is cached. `Cancellable` are the calls made by the router's task, which
`stop()` cancels; requests of the API are not. `FetchTimeout` is aiohttp's default
total timeout. Refreshing goes round the venue's rate limiter. A refusal for a
symbol that is not listed is a `KeyError` (`filters.py:110`), no `RuntimeError`: the
gateway then leaves the order OPEN, which is one of the `Faults` of
`ExecutionGateway`.

### MaskPipeline
A hypervector is the set of its one-bits, a random choice any choice. `Candidate`
and `MutateElite` are the loop of the evolution, `Trial` one of the stress test,
`Reported` the decision on its report and the opening of the file, which empties
it; `Written` closes it. `Copy` is the operator's `cp`, `Load` the engine's start.
`TickArrives`, `Compare` and `MatchEnds` are `best_match`, one mask per step.
`approved` remembers which entries passed. `Weight` is what a bit contributes to
the value of its byte, by which fitness measures density.

Four remarks on the real sizes, which the model does not fix. A trial changes at
most 72 of 10000 bits, so that the stress test can never reject. The mask the
engine is shipped with is all zero, and a tick has at most 224 one-bits, so that
it matches every tick. Evolution rewards many ones, and ticks have few. The binary drops the
producing end of its tick queue (`pipeline/spsc.rs`), so that it never pops a tick:
those of the model are what `best_match` would be given.

## 3. Runs

Passing runs:

| Run | Instance | Shows |
|---|---|---|
| `gateway_concurrent` | 2 tasks, 3 orders, all faults, limits 2 and 1 | limits, kill switch, single submission, how far the order rate can be exceeded; refinement of `OrderLifecycle` |
| `gateway_serial` | 1 task, 3 orders (1 oversized), no faults, a window of 2 ticks | what holds when calls do not overlap: no terminal order is live, a replacement never doubles |
| `gateway_live` | 2 tasks, 2 orders (1 recovered), fair answers | accepted orders become known, DELETEs take effect |
| `book` | 3 orders on 1 symbol, 2 quantities, 2 prices | fills, statuses, positions and averages agree; a terminal order trades no more; how far past its limit a position can get |
| `limiter` | 3 callers, a bucket with refill and one without, burst of 2 tokens, windows of 4 | rate, exact sleeps, no sleeper is left |
| `engine` | 3 signals of 2 sources and 2 urgencies, colliding ids, queue of 2, 2 starts, hooks that wait or raise, orders that raise | refinement of `SignalBus`; losses, ids; every result in a snapshot before the next signal; what a clean stop leaves; a router and a loop of saves that live go on |
| `recovery` | 2 orders (1 oversized), 1 caller, 3 lives, failing and overtaking saves | real ids, nothing stored is forgotten, refinement of `OrderCustody`, Redis catches up while the loop of saves lives |
| `feed` | 2 clients, 3 ticks, queues of 2, a strategy that waits in `start()` | order, no tick twice, freshness, no orphaned waiters, clients are served |
| `filters` | 3 calls (1 cancellable) for 1 symbol, `Ttl` 1, `FetchTimeout` 1, a clock set back once | one request serves all, fresh answers, no wrong refusal, every call ends |
| `masks` | 5 bits in blocks of 2, ticks of 2 bits, 1 run of 2 generations, both builds | only verified masks, the best match, the fast build misses nothing |

Type invariants are proved for every instance (section 4); runs check only that
of `OrderBook`, the one that says more than a type.

Why the bounds are enough. Two tasks give every overlap of two calls, and the
defects found need no third. Three orders let two be open and one wait at
`MaxOpenOrders = 2`, or an order, its replacement and a bystander meet. Two DELETEs
are what two overlapping cancels of one order send.
`Second`, `MaxTime` and `MaxOrdersPerSecond` make the window fill, pass and empty.
Three fills suffice to open, flip and close a position. A bucket of two tokens
with three callers has sleepers that overtake each other; rates that do not
divide `Cost` leave fractions. Three signals overflow a queue of two and hold a
pair of one priority and a pair of one id; two starts let a signal wait in the
queue from one life to the next. Three lives let a snapshot pass through a process
that did not write it; with `MaxWriting = 2` two change saves, a loop save and the
final save race. Queues of two with three ticks overflow. Three calls let one wait
behind another that waits, and be passed the lock when either is cancelled; one
symbol that comes and goes is both the missing and the found one, and time to 4
lets the cache age twice. Five bits in blocks of two leave one bit the fast build
does not compare; two masks are shipped, one of which can win over the other, and one
run adds a third or replaces them. What is bounded: `MaxTime`, `MaxDeletes`,
`MaxStarts`, `MaxWriting`, `MaxTick`, `MaxWindow`, `MaxSetBack`, `MaxRuns`. Of these
properties read only `MaxTick`, for the range of ticks, and `MaxSetBack`, as the
share of an answer's age that the clock is to blame for.

`CHECK_DEADLOCK FALSE` appears where the system may really stop: an order book
whose orders are all terminal, an engine with every signal published and no start
left, a process that is down for good, a feed that has been stopped, a cache when
time is up.

Runs that end in a violation show a disagreement of the code with what its
own text says (`findings` quotes it):

| Run | Violates | In short |
|---|---|---|
| `finding_concurrent_cancel` | `CancelNeverRaises` | two overlapping cancels: the second raises ValueError |
| `finding_shutdown` | `ShutdownIsSaved` | a strategy's `stop()`, or a router whose task has failed, raises out of `stop()`: the last snapshot is not written, no connection closed |

### What else does not hold
These formulas are stated in the modules, and TLC refutes each within seconds
when a configuration is changed as the last column says. They mark the limits of
what the passing runs show.

| Property | Line | What happens | Configuration |
|---|---|---|---|
| `TerminalNotLive` | `gateway.py:75` | a cancel during the POST stays local, and the order goes live | `gateway_serial` with `Tasks <- TwoTasks` |
| `TerminalNotLive` | `gateway.py:82` | a refused DELETE is taken for a success | `gateway_serial` with `Faults <- Refusals` |
| `TerminalIsFinal` | `gateway.py:51` | an order cancelled during its POST becomes REJECTED | `gateway_serial` with `Tasks <- TwoTasks`; that of `OrderBook`: `book` |
| `RateLimitHolds` | `gateway.py:55` | the rate is recorded only after an answer that is no refusal: one caller whose orders are refused, or time out, may send any number | `gateway_serial` |
| `PositionWithinLimit` | `risk.py:67` | open orders do not count towards the position limit | `book` with `Prices <- JustOne`, `MaxOrderNotional = 2` |
| `MonitoredCanBeCancelled` | `state/recovery.py:53` | symbols are not saved, so a recovered order cannot be cancelled at a venue that requires one | `recovery` |
| `NeverForgotten` | `state/store.py:60` | Redis away at start: empty state, then overwritten | `recovery` with `StoreFaults <- BootFault` |
| `CleanStopKeepsState` | `engine.py:119` | an older save lands after the one at shutdown | `recovery` with `StoreFaults <- NoFaults` |
| `ReplaceIsIdempotent` | `gateway.py:113` | a repeated replace places another order | `gateway_serial` |
| `GrantsWithinRate` | `adapters/base.py:28` | the adapter builds a full limiter at each access, which never limits | `limiter` with `PerCall <- RestAndFix` |
| `QueuedIsTaken` | `strategy/router.py:70` | an exception of one order ends the router for good | `engine` |
| `RunningEngineSaves` | `engine.py:154` | the loop of saves finds `_running` unset while a strategy's `start()` waits, and ends | `engine` |
| `FailedStartIsQuiet` | `engine.py:149` | a strategy's `start()` raises and the router, begun before it, goes on executing | `engine` |
| `RunningEngineKeepsUp` | `engine.py:154` | the same loop gone, the kill switch of an engine that is up never reaches Redis | `recovery` |
| `NothingLeftBehind` | `engine.py:118` | a save task outlives `stop()`, and may open the store's connection again | `engine` |
| `BuildsAgree` | `execution-engine/src/hdc/simd.rs:7` | the AVX-512 build leaves out the last bits and triggers where the portable one does not | `masks` |
| `RunningLoopLives` | `engine.py:154` | a strategy whose `start()` waits lets the market-data loop end at once | `feed` |

### Fairness
- `ExecutionGateway!FairSpec`: weak fairness of the answer to each task. The HTTP
  session has a total timeout of ten seconds (`exchanges/binance.py:49`), so
  each request ends one way or the other.
- `RateLimiter!FairSpec`: time passes, and a coroutine whose sleep has ended runs.
- `EngineLifecycle!EngineFairSpec`: the event loop runs the router's task and the loop
  of saves when they can go on, the interval elapses, the gateway's calls and the
  writes to Redis end. Start and stop get no fairness.
- `FilterCache!FairSpec`: a task that is woken with the lock runs, and a request ends
  with an answer, an error or its timeout.
- `EngineRecovery!EngineFairSpec`: the snapshot loop's interval elapses (weak), and
  of its writes Redis does not fail every one (strong: `save` catches the error
  and the loop tries again), both while the loop lives; the change saves get no
  fairness and may linger.
- `MarketFeed!FairSpec`: the market-data task and each client's task run when
  they can. This takes for granted that a publish to Redis ends; the code sets
  no timeout there, and while it hangs nothing is dispatched.

`RouterKeepsTaking` promises a single signal nothing: more urgent ones may keep it
waiting for as long as they come (`strategy/bus.py:14`), which the three signals of
`engine` do not, so that no property about one signal is claimed.

No fairness is assumed of the exchange, of callers, strategies or clients, or of
the kill switch.

## 4. Proofs

Proved with TLAPS for every value of the constants that meets the modules'
assumptions (finite sets of orders and tasks, natural limits, recovered orders
within `max_open_orders`, a burst of at least one token):

| Module | Theorem | Property |
|---|---|---|
| `ExecutionGatewayProofs` | `TypeCorrect`, `NoDoubleSubmission` | `TypeOK`, `SubmittedOnce` |
| | `OpenOrdersStayBounded` | `OpenOrdersBounded` |
| | `KillSwitchFreezes` | `KillFreezesAdmission` |
| | `RateOvershootStaysBounded` | `RateOvershootBounded` |
| | `GatewayImplementsLifecycle` | `ImplementsLifecycle` |
| | `TerminalStaysOffVenue`, `ReplacementStaysSingle` | `TerminalNotLive`, `ReplacementNeverDoubles`, under `Serial` |
| | `SerialTerminalIsFinal`, `SerialCancelNeverRaises` | `TerminalIsFinal`, `CancelNeverRaises`, under `Serial` |
| | `EngineTypeCorrect`, `IdsStayReal` | `EngineTypeOK`, `IdsAreReal`, of `EngineSpec` |
| | `StoredOrdersNeverForgotten` | `NeverForgotten`, of `EngineSpec` without the fault `"boot"` |
| | `EngineImplementsCustody` | `ImplementsCustody`, of `EngineSpec` |
| | `NoDoubleSubmissionAcrossRestarts`, `OpenOrdersBoundedAcrossRestarts`, `KillSwitchFreezesAcrossRestarts` | `SubmittedOnce`, `OpenOrdersBounded`, `KillFreezesAdmission`, of `EngineSpec` |
| `OrderBookProofs` | `BookTypeCorrect` | `TypeOK` |
| | `FillsAlwaysMatchStatus`, `TerminalOrdersTradeNoMore` | `FillsMatchStatus`, `TerminalTradesNoMore` |
| | `PositionsAlwaysMatchFills`, `AverageStaysWithinEntries` | `PositionsMatchFills`, `AverageWithinEntries` |
| | `ExposureStaysBounded` | `ExposureBounded` |
| `RateLimiterProofs` | `TypeCorrect`, `RateIsKept`, `SleepsAreExact` | `TypeOK`, `GrantsWithinRate`, `SleepIsExact` |
| `SignalRouterProofs` | `TypeCorrect`, `FifoIsKept`, `OrdersAreNotShared` | `TypeOK`, `FifoWithinPriority`, `OrdersNotShared` |
| | `LossesAreCounted` | `AtMostOneLossPerStart` |
| | `RouterImplementsBus` | `ImplementsBus` |
| | `EngineRunsRouter` | `EngineSpec => Spec`: the theorems on the router hold of the engine |
| | `EngineTypeCorrect`, `EachResultIsSaved`, `StopSavesAndEnds` | `EngineTypeOK`, `SavedBeforeNext`, `StopIsComplete` |
| `MarketFeedProofs` | `TypeCorrect`, `TicksKeepOrder` | `TypeOK`, `TicksInOrder` |
| | `NewestGoesToClients`, `ConsumerGetsReleased` | `NewestReachesClients`, `ConsumerIsReleased` |
| `FilterCacheProofs` | `TypeCorrect`, `OneRequestAtATime` | `TypeOK`, `OneFetchServesAll` |
| | `FiltersAreFresh`, `TradedSymbolsAreKnown` | `AnswersAreFresh`, `UnknownDoesNotTrade` |
| `MaskPipelineProofs` | `TypeCorrect`, `FittestIsKept` | `TypeOK`, `EvolvedIsFittest` |
| | `EngineMatchesVerifiedMasks` | `OnlyVerifiedMasks` |
| | `FastBuildIsSafe`, `SearchFindsTheBest` | `FastBuildMissesNothing`, `BestMatchIsBest` |

**Gateway.** `SubmittedOnce` is not inductive by itself: that no two tasks submit
one order needs to know that a submitting task's order is in the book, so that
the duplicate check refuses it (`CallsNamed`), that ids not in the book are unknown
to the exchange (`New`), and that no two cancels in progress keep the same id for
their replacement (`Kept`). Each step of a task between two waits is one of three
kinds, whichever operation it belongs to (`CallStep`): it ends without sending
anything, admits one order, or sends a DELETE. From these follows `SettlesOrAdmits`:
each step either registers exactly one order, after all checks passed in the same
step, or lets the set of open orders only shrink; the open-order limit, the kill
switch and the refinement follow by cases on it. The rate bound counts: every order
sent within a second is in the rate window, or is being submitted, at most one per
task, or its submission failed (`Unrecorded`); and the task that is being admitted
passed a check of the window (`RatesKnown`). What failed is not limited, so that it
stands on the other side of the bound.

`Serial` is what `gateway_serial` fixes: one task, and no faults beyond a clean
refusal. Both are needed, as section 3 shows ("What else does not hold"). `SerialInv`
says then that a live order is open in the book, and known by its exchange id
unless its POST is just being answered; that the order of a call in progress stays
open; and that a cancel that was answered left its order off the exchange. So a
cancel that stays local never meets a live order. `SerialCancelNeverRaises` and
`SerialTerminalIsFinal` show that what `finding_concurrent_cancel` and the table of
section 3 report comes from overlapping calls and faults alone.

**Recovery.** The lemmas on the gateway are stated for a set `U` of unused order ids:
those absent from the book in `Spec`, those no life of the process has used (`Fresh`)
in `EngineSpec`, where the book forgets. `RunsGateway` says that a step of the engine
in which the gateway works is one of its steps with ids of `Fresh`; the others end
every call and leave the process with what a snapshot tells it. `EngineInv` adds that each
snapshot, stored or on its way, can be restored at any time (`Sound`): its ids are of
its orders and on the exchange, its orders are used ones and within the limit.
`Remembered` is what `NeverForgotten` needs: a process that is up has in its book
whatever the stored snapshot holds, because it read that at its start, which is where
the fault `"boot"` breaks it, and whatever it is writing. `Recovered = {}` is no
restriction there: what a start recovers comes from Redis.

`StepIsCustodyStep` maps each step of the engine to one of `OrderCustody` or a stutter.
Three need `EngineInv`: a gateway step is `Work` by `SettlesOrAdmits`, `OpenOrdersBounded`
and the fact that exchange ids only grow (`IdsGrow`); a start restores the snapshot
unchanged because it is `Sound`, its ids all being of its orders; and a snapshot that is
written was taken down earlier in the same life, since going down leaves none behind.

**Order book.** `FillInv` adds to `FillsMatchStatus` the types of the
orders; the clamp enters as a lemma on `FillQuantity`. `BookInv` adds that an average lies within the prices it was built
from (`Within`), which needs arithmetic on cross products, since averages are reduced
fractions (`RatioWithin`, `FillKeepsAverage`), and that positions are sums of signed
fills. A fill changes one summand (`SumOfChanged`). For the exposure, `ExposureInv`
adds that no quantity passes the largest order the limits allow. The check of a new order
sees its own notional but not the other open orders; those are fewer than
`MaxOpenOrders`, so the sum over them is bounded by counting
(`SumAtMost`). The theorem supposes that something can be traded (`Traded`: some
price, some quantity, finitely many quantities, a slot for an order), without which
the bound names no number.

**Sums.** `SumFunctionOnSet` is a fold, and an induction theorem with an operator for
its parameter is beyond the provers here. `SumTheorems` goes round it: the induction
is over sets of finite sets (`SubsetInduction`), and a sum is the unique function that
the recursion of the fold describes (`SumsAgree`, `SumExists`). Its lemmas are what sums
are used for: of nothing, of one element more or less, of equal or changed or bounded
summands.

**Rate limiter.** `Counted` is the ledger of a window: what was granted, plus what
is in the bucket now, is at most the burst plus the refill since the window
opened. The refill is capped, so the ledger only ever loses. `RateIsKept` assumes
`PerCall = {}`; without it the property is false (section 3). `Sleeps` relates a sleeper's remaining time to the
bucket, and its proof is one of integer division rounded up.

**Router.** `BusInv` says that ranks and sequence numbers of signals of one priority
grow together and that what is queued comes after what was taken. `IdsInv` says
that each order id in the book has one signal that carried it there.

`SignalBus` has no sequence numbers; under the refinement mapping a signal still
waits for those of its priority in the queue that have a lower one, and `BusInv`
says that these are the ones accepted before it. For the losses, `LossInv` counts:
a signal is lost only by a task that ends with it in hand, a start makes at most
one task, and a live task has not yet used its loss.

**Engine.** Every engine step is a router step or leaves the router alone
(`EngineRunsRouter`). `EngineInv` adds to the type which of task, loop of saves and connections
are gone at each point of `stop()`, and that a router that waits or reports has
nothing unsaved. The last is what makes the final save final: after it the router
is gone and can change the book no more. A save task of `_schedule_snapshot` brings back
no more than the store's connection.

**Market data.** The publisher is first in the handler list and nobody removes it
(`HandlersInv`), so the only place where the loop waits has index 1, and all clients
get a tick in one step after it: a list that changes meanwhile moves nobody past
the index. `OrderInv` orders what is received, queued, dispatched and sent, and knows that
while the publisher is at work its tick is still news for every client;
`NewestInv` says that between two ticks each attached client has the last one.

**Filter cache.** `TypeInv` has who may hold the lock and who waits for it, which
a handover in any order of failures and cancellations keeps. `AgeInv` bounds an
answer's age from the time its request was sent; `TradingInv` ties what a call
remembers of its symbol to what the exchange lists and has answered.

**Masks.** `Verified` follows an entry from the report over the file and its copy
to the engine; the file is opened only after the report is in. `FastBuildTriggers`
needs only that fewer bits compared give no lower similarity. `SearchFindsTheBest` is the
invariant of a loop.

Only model-checked: liveness, since fairness and ENABLED are beyond the prover
(`LiveIsEventuallyTracked`, `CancelTakesEffect`, `SleepersAreServed`,
`RouterKeepsTaking`, `LiveLoopSaves`, `SnapshotKeepsUp`, `CallsEnd`,
`ClientsAreServed`). Every invariant and every action property that a passing run
checks is proved, under the restrictions named above where the run states them
too.

## 5. Not modelled

- Native replace, signing and formatting: no state that another step reads.
- The arithmetic of symbol filters and of sums of fills: binary floats, out of
  TLC's reach.
- Paper adapter and simulated feed: special cases of the environment.
- Quotes of the Binance adapter: a map that is only written and read; they never
  expire.
- `reconcile_open_orders` of the Binance adapter: `_request` raises on a body that is
  a list, so that it always returns an empty one. Nothing in the engine acts on it.
- Positions and the last tick in snapshots: restored verbatim.
- Expiry of signals: the code does not enforce one.
- Configuration, Redis tick publisher, scripts, infrastructure: no concurrent or
  recoverable state.
- Archivist and feature miner of the swarm: input and statistics; they enter as any
  score that fitness allows.
- The HDC engine's network modules: stubs.

## 6. Plan

Done, in this order: gateway, order book, rate limiter, bus and router, recovery,
market-data path, engine life cycle, filter cache, masks, with the proofs above.

1. `SignalPipeline`: `SignalRouter` composed with `ExecutionGateway` in place of its
   reduced gateway, with API callers beside it.
2. Proofs: the safety half of the leads-to properties, step by step.
