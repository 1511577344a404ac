-------------------------- MODULE EngineLifecycle --------------------------
(***************************************************************************)
(* TradingEngine.start and stop (engine.py) around the signal router: the  *)
(* order in which tasks and connections are begun and ended, what a step   *)
(* that raises leaves behind, and which changes of the order book have got *)
(* into a snapshot.  The router is module SignalRouter as it stands; its   *)
(* start and stop are steps of the engine's.                               *)
(*                                                                         *)
(* A snapshot counts from the moment it is built; its way to Redis, where  *)
(* it may fail or be overtaken, is in module EngineRecovery.  Building it  *)
(* does not wait, so that on_result builds one in the step in which        *)
(* place_order returns to the router.  The snapshot of the task which      *)
(* _schedule_snapshot makes in the same step has nothing more in it; what  *)
(* matters of these tasks is that no one awaits or cancels them.           *)
(*                                                                         *)
(* The book's changes are here those of the router: what API requests do   *)
(* to it is in ExecutionGateway and EngineRecovery.                        *)
(***************************************************************************)
EXTENDS SignalRouter

CONSTANTS
  StrategiesWait,   \* some strategy's start() waits for something
  StrategyFaults    \* the hooks of strategies that may raise

ASSUME StrategiesAssumption ==
  StrategiesWait \in BOOLEAN /\ StrategyFaults \subseteq {"start", "stop"}

VARIABLES
  at,             \* where the engine is between its start and its stop
  engineRunning,  \* TradingEngine._running
  saver,          \* _snapshot_task: where the loop of periodic saves waits
  saving,         \* some task of _schedule_snapshot has not ended
  held,           \* connections and tasks that stop has to end
  dirty           \* history: the book has changed since the last snapshot

engineVars == <<at, engineRunning, saver, saving, held, dirty>>
allVars    == <<vars, engineVars>>

EnginePoints == {"new", "starting", "start_failed", "up",
                 "stopping", "router_stopped", "closing", "stopped", "stop_failed"}
SaverPoints  == {"none", "created", "sleeping", "saving", "ended"}
Resources    == {"feed", "market-data loop", "adapter", "store"}

-----------------------------------------------------------------------------
(* start.                                                                   *)

(* The strategies' start() is awaited last, and _running set after it.      *)
StrategiesEnd ==
  \/ at' = "up" /\ engineRunning' = TRUE
  \/ "start" \in StrategyFaults /\ at' = "start_failed" /\ UNCHANGED engineRunning

(* Recovery has used the store; feed, router and both loops are begun.      *)
EngineStart ==
  /\ at \in {"new", "stopped"}
  /\ Start
  /\ saver' = "created"
  /\ held' = {"feed", "market-data loop", "store"}
  /\ \/ StrategiesWait /\ at' = "starting" /\ UNCHANGED engineRunning
     \/ StrategiesEnd
  /\ UNCHANGED <<saving, dirty>>

StrategiesStarted == /\ at = "starting"
                     /\ StrategiesEnd
                     /\ UNCHANGED <<vars, saver, saving, held, dirty>>

-----------------------------------------------------------------------------
(* At work.                                                                 *)

(* _notify_change, when an order was submitted: _schedule_snapshot makes a  *)
(* task of its own for the save, if the engine is running.                  *)
Schedules == /\ engineRunning
             /\ task = "executing" /\ task' = "reporting" /\ outcome'[current] = "ok"

\* Mutant of RouterWorks: no on_result hook, the change is left to the loop.
MutRouterWorks ==
  /\ RouterStep
  /\ saving' = (saving \/ Schedules)
  /\ held' = IF task' = "executing" THEN held \cup {"adapter"} ELSE held
  /\ dirty' = (dirty \/ known' # known \/ outcome' # outcome)
  /\ UNCHANGED <<at, engineRunning, saver>>

(* An order that goes to the exchange opens the adapter's session and has   *)
(* changed the book; its result, or a refusal, is followed by a snapshot.   *)
RouterWorks ==
  /\ RouterStep
  /\ saving' = (saving \/ Schedules)
  /\ held' = IF task' = "executing" THEN held \cup {"adapter"} ELSE held
  /\ dirty' = IF task' = "reporting" THEN FALSE ELSE dirty \/ known' # known
  /\ UNCHANGED <<at, engineRunning, saver>>

(* The test of _snapshot_loop, whose saves build a snapshot.                *)
Test == IF engineRunning THEN "sleeping" ELSE "ended"

\* Mutant of SaverStep: the loop is left after a save.
MutSaverStep == /\ \/ saver = "created"  /\ saver' = Test  /\ UNCHANGED dirty
                   \/ saver = "sleeping" /\ saver' = "saving" /\ dirty' = FALSE
                /\ UNCHANGED <<vars, at, engineRunning, saving, held>>

SaverStep == /\ \/ saver \in {"created", "saving"} /\ saver' = Test /\ UNCHANGED dirty
                \/ saver = "sleeping" /\ saver' = "saving" /\ dirty' = FALSE
             /\ UNCHANGED <<vars, at, engineRunning, saving, held>>

(* The tasks of _schedule_snapshot end.                                     *)
SavesEnd == /\ saving
            /\ saving' = FALSE
            /\ UNCHANGED <<vars, at, engineRunning, saver, held, dirty>>

(* One that was under way when the store was closed lost its connection;    *)
(* the client's retry opens another (store.py save).                        *)
SaveReopens == /\ saving /\ "store" \notin held
               /\ held' = held \cup {"store"}
               /\ UNCHANGED <<vars, at, engineRunning, saver, saving, dirty>>

(* Strategies publish when they like; the API serves once start has ended.  *)
Signalled == /\ \/ \E s \in Signals : Publish(s) \/ (at = "up" /\ IngestSignal(s))
                \/ \E src \in Sources : RegisterSource(src)
             /\ UNCHANGED engineVars

-----------------------------------------------------------------------------
(* stop.                                                                    *)

BeginStop == /\ at = "up"
             /\ at' = "stopping" /\ engineRunning' = FALSE
             /\ UNCHANGED <<vars, saver, saving, held, dirty>>

\* Mutant of StopRouter: the router's flag is cleared, its task left alone.
MutStopRouter == /\ at = "stopping"
                 /\ MutStop /\ at' = "router_stopped"
                 /\ UNCHANGED <<engineRunning, saver, saving, held, dirty>>

(* The strategies' stop(), then the router's.  What either raises goes out  *)
(* of stop, and the steps below do not happen.                              *)
StopRouter ==
  /\ at = "stopping"
  /\ \/ "stop" \in StrategyFaults /\ at' = "stop_failed" /\ UNCHANGED vars
     \/ Stop /\ at' = IF task = "dead" THEN "stop_failed" ELSE "router_stopped"
  /\ UNCHANGED <<engineRunning, saver, saving, held, dirty>>

(* The loop of saves is cancelled, then the last snapshot built.            *)
FinalSave == /\ at = "router_stopped"
             /\ at' = "closing"
             /\ saver' = "none" /\ dirty' = FALSE
             /\ UNCHANGED <<vars, engineRunning, saving, held>>

(* Market-data loop, feed, adapter and store, in this order.                *)
Close == /\ at = "closing"
         /\ at' = "stopped"
         /\ held' = {}
         /\ UNCHANGED <<vars, engineRunning, saver, saving, dirty>>

-----------------------------------------------------------------------------
EngineInit == /\ Init
              /\ at = "new" /\ engineRunning = FALSE
              /\ saver = "none" /\ saving = FALSE
              /\ held = {} /\ dirty = FALSE

EngineNext == \/ EngineStart \/ StrategiesStarted
              \/ Signalled \/ RouterWorks \/ SaverStep \/ SavesEnd \/ SaveReopens
              \/ BeginStop \/ StopRouter \/ FinalSave \/ Close

EngineSpec == EngineInit /\ [][EngineNext]_allVars

(* The event loop runs the router and the loop of saves when they can go    *)
(* on, the interval elapses, and the gateway's calls and the writes end.    *)
EngineFairSpec == EngineSpec /\ WF_allVars(RouterWorks) /\ WF_allVars(SaverStep)

-----------------------------------------------------------------------------
(* Type invariant of the engine's variables, and its flag.                  *)
EngineTypeOK ==
  /\ at \in EnginePoints /\ saver \in SaverPoints
  /\ engineRunning = (at = "up")
  /\ saving \in BOOLEAN
  /\ held \subseteq Resources /\ dirty \in BOOLEAN

(* Before the router takes another signal, what became of the orders of the *)
(* ones before is in a snapshot (ARCHITECTURE.md: "After gateway order      *)
(* changes"), also while start and stop are under way and                   *)
(* _schedule_snapshot does nothing.                                         *)
SavedBeforeNext == task = "consuming" => ~dirty

(* After a stop that ran to its end every change the router made is in a    *)
(* snapshot, wherever the router was interrupted; router, loops, feed and   *)
(* adapter are gone and stay away (engine.py stop: the router is stopped    *)
(* before the last save, the adapter closed when the router can send no     *)
(* order any more).  What may be left is a save that _schedule_snapshot     *)
(* began before the stop, and the store's connection if it opens it again.  *)
StopIsComplete ==
  at = "stopped" => /\ ~dirty /\ task = "none" /\ saver = "none"
                    /\ held \subseteq {"store"}

(* A stop that ran to its end leaves nothing behind: no task, no connection.*)
NothingLeftBehind == at = "stopped" => ~saving /\ held = {}

(* While the loop of saves lives, no change of a running engine stays out   *)
(* of the snapshots, also one whose order raised and left no result         *)
(* (engine.py _snapshot_loop).                                              *)
LiveLoopSaves == (dirty /\ at = "up") ~> (~dirty \/ at # "up" \/ saver = "ended")

(* ARCHITECTURE.md: "Snapshots are written: ... On shutdown", however the   *)
(* shutdown ends.                                                           *)
ShutdownIsSaved == at \in {"stopped", "stop_failed"} => ~dirty

(* ARCHITECTURE.md: "Snapshots are written: Every                           *)
(* STATE_SNAPSHOT_INTERVAL_SEC": a running engine has its loop of saves.    *)
RunningEngineSaves == at = "up" => saver # "ended"

(* An engine that failed to start executes no signal.                       *)
FailedStartIsQuiet == at = "start_failed" => task \notin {"executing", "reporting"}
=============================================================================
