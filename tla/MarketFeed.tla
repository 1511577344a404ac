----------------------------- MODULE MarketFeed -----------------------------
(* The way of a tick: from the exchange's WebSocket through the bounded     *)
(* queue of feeds/binance.py and the market-data loop of engine.py to the   *)
(* tick handlers, which are the Redis publisher of api/main.py and one      *)
(* handler per client of /ws/market.                                        *)
(*                                                                          *)
(* Everything runs on one event loop: an action is what a task does from    *)
(* one wait to the next.  Ticks are numbered in the order the exchange      *)
(* sends them; 0 stands for no tick.  Strategies are awaited before the     *)
(* handlers, where a wait of theirs is one with the publisher's.            *)
EXTENDS Naturals, Sequences, SequencesExt

CONSTANTS
  Clients,            \* connections to /ws/market
  Publisher,          \* the Redis handler, the only one that waits
  FeedQueue,          \* capacity of the feed's queue (4096)
  ClientQueue,        \* capacity of a client's queue (512)
  StrategySuspends,   \* some strategy's start() waits for something
  MaxTick             \* bound: ticks the exchange sends

ASSUME PublisherAssumption == Publisher \notin Clients
ASSUME CapacityAssumption == FeedQueue \in Nat \ {0} /\ ClientQueue \in Nat \ {0}
ASSUME StrategyAssumption == StrategySuspends \in BOOLEAN
ASSUME MaxTickAssumption == MaxTick \in Nat

VARIABLES
  phase,       \* of the engine's start() and stop()
  running,     \* TradingEngine._running
  link,        \* the feed's task: connection, wait before the next attempt
  produced,    \* the last tick the exchange has sent
  received,    \* the last tick the feed has put into its queue
  feedQueue,   \* BinanceLiveFeed._queue
  loop,        \* the market-data task: where it waits, and at which handler
  lastTick,    \* TradingEngine.last_tick
  handlers,    \* TradingEngine._tick_handlers
  client       \* per client: where its handler of the WebSocket waits, the
               \* tick sent last, and whether none came from its queue yet

engineVars == <<phase, running>>
feedVars   == <<link, produced, received, feedQueue>>
loopVars   == <<loop, lastTick>>
vars       == <<engineVars, feedVars, loopVars, handlers, client>>

Phases     == {"new", "starting", "started", "stopping", "loop_stopped", "stopped"}
LinkStates == {"closed", "connecting", "open", "backoff"}
LoopPoints == {"none", "created", "waiting", "publishing", "ended"}

Away     == [at |-> "away", sent |-> 0, first |-> TRUE, queue |-> <<>>, gone |-> FALSE]
Attached == {c \in Clients : client[c].at # "away"}

-----------------------------------------------------------------------------
(* asyncio.Queue as the code uses it: a full queue drops its oldest entry.  *)

\* Mutant of PutNewest: the new tick is dropped.
MutPutDropsNew(q, tick, capacity) == IF Len(q) < capacity THEN Append(q, tick) ELSE q

PutNewest(q, tick, capacity) ==
  Append(IF Len(q) < capacity THEN q ELSE Tail(q), tick)

-----------------------------------------------------------------------------
(* TradingEngine.start and stop.                                            *)

(* connect() and create_task() do not wait.  Then the strategies' start()   *)
(* is awaited, and only then is _running set.                               *)
Start ==
  /\ phase = "new"
  /\ link' = "connecting"
  /\ loop' = [loop EXCEPT !.at = "created"]
  /\ \/ /\ StrategySuspends
        /\ phase' = "starting" /\ UNCHANGED running
     \/ phase' = "started" /\ running' = TRUE
  /\ UNCHANGED <<produced, received, feedQueue, lastTick, handlers, client>>

StrategiesStarted ==
  /\ phase = "starting"
  /\ phase' = "started" /\ running' = TRUE
  /\ UNCHANGED <<feedVars, loopVars, handlers, client>>

(* _running is cleared first; strategies, router and snapshot are awaited   *)
(* before the tasks of the feed are stopped.                                *)
BeginStop ==
  /\ phase = "started"
  /\ phase' = "stopping" /\ running' = FALSE
  /\ UNCHANGED <<feedVars, loopVars, handlers, client>>

(* The loop's task is cancelled where it waits; a cancellation is not an    *)
(* Exception, so that a handler it interrupts does not resume.              *)
StopLoop ==
  /\ phase = "stopping"
  /\ phase' = "loop_stopped"
  /\ loop' = [loop EXCEPT !.at = "ended"]
  /\ UNCHANGED <<running, feedVars, lastTick, handlers, client>>

\* Mutant of Disconnect: the feed is closed before the loop is cancelled.
MutDisconnect ==
  /\ phase \in {"stopping", "loop_stopped"}
  /\ phase' = "stopped"
  /\ link' = "closed" /\ feedQueue' = <<>>
  /\ UNCHANGED <<running, produced, received, loopVars, handlers, client>>

Disconnect ==
  /\ phase = "loop_stopped"
  /\ phase' = "stopped"
  /\ link' = "closed" /\ feedQueue' = <<>>
  /\ UNCHANGED <<running, produced, received, loopVars, handlers, client>>

-----------------------------------------------------------------------------
(* BinanceLiveFeed._run_forever and _consume.                               *)

(* A normal close ends _consume without an exception: the next attempt      *)
(* follows at once.  An error, of the connection or of an attempt, is       *)
(* slept on first.                                                          *)
LinkChanges ==
  /\ \/ link = "connecting" /\ link' \in {"open", "backoff"}
     \/ link = "open"       /\ link' \in {"connecting", "backoff"}
     \/ link = "backoff"    /\ link' = "connecting"
  /\ UNCHANGED <<engineVars, produced, received, feedQueue, loopVars, handlers, client>>

(* A tick reaches the queue, or is lost: sent while the connection is down, *)
(* or skipped as malformed.                                                 *)
Arrive ==
  /\ link = "open" /\ produced < MaxTick
  /\ produced' = produced + 1 /\ received' = produced'
  /\ feedQueue' = PutNewest(feedQueue, produced', FeedQueue)
  /\ UNCHANGED <<engineVars, link, loopVars, handlers, client>>

Lose ==
  /\ produced < MaxTick
  /\ produced' = produced + 1
  /\ UNCHANGED <<engineVars, link, received, feedQueue, loopVars, handlers, client>>

-----------------------------------------------------------------------------
(* TradingEngine._market_data_loop.                                         *)

(* The loop's test of _running, before it asks the feed for a tick.         *)
Test == IF running THEN "waiting" ELSE "ended"

LoopBegins ==
  /\ loop.at = "created"
  /\ loop' = [loop EXCEPT !.at = Test]
  /\ UNCHANGED <<engineVars, feedVars, lastTick, handlers, client>>

(* push_tick of api/main.py, for the clients among some handlers.           *)
Pushed(called, tick) ==
  [c \in Clients |->
     IF Contains(called, c)
       THEN [client[c] EXCEPT !.queue = PutNewest(@, tick, ClientQueue)]
       ELSE client[c]]

(* The for statement goes through the list by index, whatever happens to    *)
(* the list meanwhile.  From index first on, the handlers run up to the one *)
(* that waits, or to the end of the list.                                   *)
Dispatch(first, tick) ==
  LET waiting == {i \in first..Len(handlers) : handlers[i] = Publisher}
  IN \/ \E i \in waiting :
          /\ \A j \in waiting : i <= j
          /\ client' = Pushed(SubSeq(handlers, first, i), tick)
          /\ loop' = [at |-> "publishing", index |-> i]
     \/ /\ waiting = {}
        /\ client' = Pushed(SubSeq(handlers, first, Len(handlers)), tick)
        /\ loop' = [at |-> Test, index |-> 0]

(* next_tick() answers, and the loop goes through its handlers.             *)
Take ==
  /\ loop.at = "waiting" /\ feedQueue # <<>>
  /\ lastTick' = Head(feedQueue) /\ feedQueue' = Tail(feedQueue)
  /\ Dispatch(1, lastTick')
  /\ UNCHANGED <<engineVars, link, produced, received, handlers>>

\* Mutant of PublishEnds: the handler after the publisher is passed over.
MutPublishEnds ==
  /\ loop.at = "publishing"
  /\ Dispatch(loop.index + 2, lastTick)
  /\ UNCHANGED <<engineVars, feedVars, lastTick, handlers>>

(* The publisher returns, or raises, which the loop logs.                   *)
PublishEnds ==
  /\ loop.at = "publishing"
  /\ Dispatch(loop.index + 1, lastTick)
  /\ UNCHANGED <<engineVars, feedVars, lastTick, handlers>>

-----------------------------------------------------------------------------
(* ws_market of api/main.py.                                                *)

OnTick(c) == Append(handlers, c)

(* The handler is registered, and the last tick, if any, sent first.        *)
Attach(c) ==
  /\ phase \in {"started", "stopping"} /\ c \notin Attached
  /\ handlers' = OnTick(c)
  /\ client' = [client EXCEPT ![c] =
       [Away EXCEPT !.at = IF lastTick = 0 THEN "waiting" ELSE "sending",
                    !.sent = lastTick]]
  /\ UNCHANGED <<engineVars, feedVars, loopVars>>

\* Mutant of Send: the tick is looked at and not taken.
MutSend(c) ==
  /\ client[c].at = "waiting" /\ client[c].queue # <<>>
  /\ client' = [client EXCEPT ![c].at = "sending", ![c].first = FALSE,
                              ![c].sent = Head(client[c].queue)]
  /\ UNCHANGED <<engineVars, feedVars, loopVars, handlers>>

(* The client's own task takes its next tick from the queue and sends it.   *)
Send(c) ==
  /\ client[c].at = "waiting" /\ client[c].queue # <<>>
  /\ client' = [client EXCEPT ![c].at = "sending", ![c].queue = Tail(@),
                              ![c].sent = Head(client[c].queue), ![c].first = FALSE]
  /\ UNCHANGED <<engineVars, feedVars, loopVars, handlers>>

Sent(c) ==
  /\ client[c].at = "sending" /\ ~client[c].gone
  /\ client' = [client EXCEPT ![c].at = "waiting"]
  /\ UNCHANGED <<engineVars, feedVars, loopVars, handlers>>

(* The other side hangs up.  The task learns of it when it sends.           *)
HangUp(c) ==
  /\ c \in Attached /\ ~client[c].gone
  /\ client' = [client EXCEPT ![c].gone = TRUE]
  /\ UNCHANGED <<engineVars, feedVars, loopVars, handlers>>

(* The finally clause takes its handler, which is there once, off the list. *)
Detach(c) ==
  /\ client[c].at = "sending" /\ client[c].gone
  /\ client' = [client EXCEPT ![c] = Away]
  /\ \E i \in DOMAIN handlers : handlers[i] = c /\ handlers' = RemoveAt(handlers, i)
  /\ UNCHANGED <<engineVars, feedVars, loopVars>>

-----------------------------------------------------------------------------
Init ==
  /\ phase = "new" /\ running = FALSE
  /\ link = "closed" /\ produced = 0 /\ received = 0 /\ feedQueue = <<>>
  /\ loop = [at |-> "none", index |-> 0] /\ lastTick = 0
  /\ handlers = <<Publisher>>
  /\ client = [c \in Clients |-> Away]

LoopStep == LoopBegins \/ Take \/ PublishEnds

ClientStep(c) == Send(c) \/ Sent(c) \/ Detach(c)

Next ==
  \/ Start \/ StrategiesStarted \/ BeginStop \/ StopLoop \/ Disconnect
  \/ LinkChanges \/ Arrive \/ Lose
  \/ LoopStep
  \/ \E c \in Clients : Attach(c) \/ HangUp(c) \/ ClientStep(c)

Spec == Init /\ [][Next]_vars

(* The event loop runs every task that is ready, Redis answers or fails,    *)
(* and a send goes through or fails.                                        *)
FairSpec == Spec /\ WF_vars(LoopStep) /\ \A c \in Clients : WF_vars(ClientStep(c))

-----------------------------------------------------------------------------
(* Properties                                                               *)

Increasing(q) == \A i, j \in 1..Len(q) : i < j => q[i] < q[j]

(* Every variable keeps its type, and no queue passes its capacity.         *)
TypeOK ==
  /\ phase \in Phases /\ running \in BOOLEAN /\ link \in LinkStates
  /\ produced \in 0..MaxTick /\ received \in 0..MaxTick
  /\ feedQueue \in Seq(1..MaxTick) /\ Len(feedQueue) <= FeedQueue
  /\ loop \in [at : LoopPoints, index : Nat] /\ lastTick \in 0..MaxTick
  /\ handlers \in Seq(Clients \cup {Publisher})
  /\ \A c \in Clients :
       /\ client[c].at \in {"away", "waiting", "sending"}
       /\ client[c].sent \in 0..MaxTick
       /\ client[c].first \in BOOLEAN /\ client[c].gone \in BOOLEAN
       /\ client[c].queue \in Seq(1..MaxTick) /\ Len(client[c].queue) <= ClientQueue

\* The oldest tick that is news for a client: the one it was given when it
\* came may follow once more, if the loop was about to hand it out.
Least(r) == IF r.first THEN r.sent ELSE r.sent + 1

(* No one sees time run backwards, and no one is served a tick twice: what  *)
(* waits in the feed's queue is newer than last_tick, what waits for a      *)
(* client is newer than all it was sent (but for the tick it was given when *)
(* it came), and none is newer than last_tick (feeds/binance.py _consume,   *)
(* engine.py _market_data_loop, api/main.py ws_market).                     *)
TicksInOrder ==
  /\ Increasing(feedQueue)
  /\ \A i \in DOMAIN feedQueue : lastTick < feedQueue[i]
  /\ \A c \in Clients :
       LET q == client[c].queue
       IN /\ Increasing(q)
          /\ \A i \in DOMAIN q : Least(client[c]) <= q[i] /\ q[i] <= lastTick

Newest(c) == IF client[c].queue = <<>> THEN client[c].sent ELSE Last(client[c].queue)

(* Dropping loses old ticks only, and no client is passed over: when the    *)
(* loop has gone through its handlers and nothing waits in the feed's       *)
(* queue, every client, whenever it came and whoever has left meanwhile,    *)
(* has been sent the newest tick received or has it queued (engine.py:      *)
(* the list of handlers changes while the loop waits in one of them).       *)
NewestReachesClients ==
  loop.at = "waiting" /\ feedQueue = <<>> =>
    \A c \in Attached : Newest(c) = received

(* Once the feed is disconnected nobody waits for it: queue.get() would     *)
(* never return (engine.py stop: the loop is cancelled first).              *)
ConsumerIsReleased ==
  phase # "new" /\ link = "closed" => loop.at = "ended" /\ feedQueue = <<>>

(* While the engine runs, its market-data loop does (engine.py start).      *)
RunningLoopLives == running => loop.at # "ended"

(* A client that stays is eventually sent the newest tick received, or a    *)
(* newer one, unless the engine stops.                                      *)
ClientsAreServed ==
  \A c \in Clients, k \in 1..MaxTick :
    received = k /\ c \in Attached
      ~> client[c].sent >= k \/ client[c].gone \/ c \notin Attached
           \/ ~running \/ loop.at = "ended"
=============================================================================
