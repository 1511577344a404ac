--------------------------- MODULE EngineRecovery ---------------------------
(***************************************************************************)
(* The engine around the gateway: snapshots of the book, the exchange ids  *)
(* and the kill switch are saved to Redis after order changes, every       *)
(* interval and on shutdown, and applied when the process starts again     *)
(* (engine.py, state/recovery.py, state/snapshot.py, state/store.py).      *)
(*                                                                         *)
(* A save is a task: it builds its snapshot when it first runs and writes  *)
(* it later, over a connection of its own, so that saves may overtake one  *)
(* another.  A crash loses everything but Redis and the exchange.          *)
(***************************************************************************)
EXTENDS ExecutionGateway

CONSTANTS
  NoSnapshot,     \* Redis holds none yet
  StoreFaults,    \* the ways the store may fail
  StrategiesWait, \* some strategy's start() waits for something
  MaxStarts,      \* bound on the number of times the process starts
  MaxWriting      \* bound on the change saves under way at once

AllStoreFaults == {"boot",   \* no connection when the snapshot is loaded
                   "save"}   \* a write fails

ASSUME StoreAssumption ==
  /\ StoreFaults \subseteq AllStoreFaults
  /\ MaxStarts \in Nat /\ MaxWriting \in Nat
ASSUME StrategiesAssumption == StrategiesWait \in BOOLEAN

VARIABLES
  phase,      \* "down", "up" or "stopping" (within TradingEngine.stop)
  looping,    \* the task of _snapshot_loop has not ended
  starts,     \* number of starts
  scheduled,  \* persist_snapshot tasks created by _schedule_snapshot, not yet run
  writing,    \* snapshots on their way to Redis, each with who saves it
  stored,     \* external: the value of the key in Redis
  used,       \* history: order ids ever registered (uuid4 repeats none)
  atStop      \* history: the state the last shutdown was asked to save

saveVars   == <<scheduled, writing, stored>>
engineVars == <<phase, looping, starts, saveVars, used, atStop>>
allVars    == <<vars, engineVars>>

Snapshots == [orders : SUBSET Orders, ids : SUBSET Orders, kill : BOOLEAN]
Savers    == {"change", "loop", "stop"}

-----------------------------------------------------------------------------
(* Snapshots.                                                               *)

\* Mutants of Snapshot: orders still being submitted get an id; the kill
\* switch is left out.
MutSnapshotIds  == [orders |-> OpenOrders, ids |-> OpenOrders, kill |-> killSwitch]
MutSnapshotKill == [orders |-> OpenOrders, ids |-> exchangeIds \cap OpenOrders, kill |-> FALSE]

(* StateRecovery.build_snapshot.                                            *)
Snapshot == [orders |-> OpenOrders, ids |-> exchangeIds \cap OpenOrders, kill |-> killSwitch]

Save(by) == writing' = writing \cup {[by |-> by, snapshot |-> Snapshot]}

(* A task of _schedule_snapshot runs for the first time.                    *)
ChangeSave == /\ phase # "down" /\ scheduled > 0
              /\ Cardinality({w \in writing : w.by = "change"}) < MaxWriting
              /\ scheduled' = scheduled - 1
              /\ Save("change")
              /\ UNCHANGED <<vars, phase, looping, starts, stored, used, atStop>>

(* _snapshot_loop: one save at a time.                                      *)
LoopSave == /\ looping
            /\ \A w \in writing : w.by # "loop"
            /\ Save("loop")
            /\ UNCHANGED <<vars, phase, looping, starts, scheduled, stored, used, atStop>>

(* RedisStateStore.save gets its answer; a failure is logged and dropped.   *)
Written(w) == /\ writing' = writing \ {w}
              /\ stored' = w.snapshot
              /\ UNCHANGED <<vars, phase, looping, starts, scheduled, used, atStop>>

SaveFails(w) == /\ "save" \in StoreFaults
                /\ writing' = writing \ {w}
                /\ UNCHANGED <<vars, phase, looping, starts, scheduled, stored, used, atStop>>

-----------------------------------------------------------------------------
(* The engine at work.                                                      *)

(* _notify_change: after a successful submission and after a cancel.        *)
Notifies == \/ exchangeIds' # exchangeIds
            \/ \E o \in Orders : book[o] # "cancelled" /\ book'[o] = "cancelled"

(* The API, the router and the operator use the gateway; new orders have    *)
(* new ids.                                                                 *)
GatewayStep ==
  /\ phase = "up"
  /\ \/ \E t \in Tasks :
          \/ \E o \in Orders \ used : PlaceOrder(t, o)
          \/ \E o \in Orders, idempotent \in BOOLEAN : CancelOrder(t, o, idempotent)
          \/ \E o \in Orders, n \in Orders \ used : ReplaceOrder(t, o, n)
          \/ Answer(t)
     \/ EngageKillSwitch \/ ReleaseKillSwitch
  /\ scheduled' = scheduled + (IF Notifies THEN 1 ELSE 0)
  /\ used' = used \cup {o \in Orders : book'[o] # "absent"}
  /\ UNCHANGED <<phase, looping, starts, writing, stored, atStop>>

(* The exchange goes on by itself.                                          *)
ExchangeStep == /\ \E o \in Orders : VenueFills(o)
                /\ UNCHANGED engineVars

-----------------------------------------------------------------------------
(* Going down.                                                              *)

(* What the exchange makes of the requests still on their way when their    *)
(* sender goes: each may yet be handled, or be lost.                        *)
RequestsEnd ==
  \E handled \in SUBSET {t \in Tasks : call[t].at \in {"submit", "delete"}} :
    venue' = [o \in Orders |->
      IF \E t \in handled : call[t].at = "submit" /\ call[t].order = o THEN "live"
      ELSE IF venue[o] = "live" /\ \E t \in handled : call[t].at = "delete" /\ call[t].order = o
      THEN "cancelled" ELSE venue[o]]

CallsEnd == /\ call' = [t \in Tasks |-> Idle]
            /\ result' = [t \in Tasks |-> "none"]

\* Mutant of Knows: the kill switch is not restored.
MutKnows(orders, ids, kill) ==
  /\ book' = [o \in Orders |-> IF o \in orders THEN "open" ELSE "absent"]
  /\ exchangeIds' = ids
  /\ killSwitch' = FALSE
  /\ orderSymbols' = {}
  /\ cancelNonce' = [o \in Orders |-> 0]
  /\ orderTimestamps' = {}

(* What the process knows when it has just begun, given what it was told.   *)
Knows(orders, ids, kill) ==
  /\ book' = [o \in Orders |-> IF o \in orders THEN "open" ELSE "absent"]
  /\ exchangeIds' = ids
  /\ killSwitch' = kill
  /\ orderSymbols' = {}             \* neither saved nor restored
  /\ cancelNonce' = [o \in Orders |-> 0]
  /\ orderTimestamps' = {}

(* The process ends, and with it all it knew and every task it had.         *)
GoDown == /\ phase' = "down" /\ looping' = FALSE
          /\ scheduled' = 0 /\ writing' = {}
          /\ Knows({}, {}, FALSE)
          /\ UNCHANGED <<now, admittedAt, starts, stored, used>>

Crash == /\ phase # "down"
         /\ RequestsEnd /\ CallsEnd
         /\ GoDown
         /\ atStop' = NoSnapshot

(* stop cancels the router's call and the periodic save, then saves.        *)
BeginStop == /\ phase = "up"
             /\ phase' = "stopping" /\ looping' = FALSE
             /\ RequestsEnd /\ CallsEnd
             /\ writing' = {w \in writing : w.by # "loop"}
                             \cup {[by |-> "stop", snapshot |-> Snapshot]}
             /\ atStop' = Snapshot
             /\ UNCHANGED <<book, mapVars, riskVars, now, admittedAt,
                            starts, scheduled, stored, used>>

EndStop == /\ phase = "stopping"
           /\ \A w \in writing : w.by # "stop"
           /\ GoDown
           /\ UNCHANGED <<call, result, venue, atStop>>

-----------------------------------------------------------------------------
(* Coming up.                                                               *)

\* Mutant of Restored: only orders with an exchange id are restored.
MutRestored(s) == s.ids

(* StateRecovery.apply: which orders of the snapshot go into the book.      *)
Restored(s) == s.orders

(* TradingEngine.start.  When Redis does not answer the first ping the      *)
(* store gives no snapshot and the engine starts with nothing.  The task of *)
(* _snapshot_loop tests _running, which is set last: it has ended by then   *)
(* if a strategy's start() waited (module EngineLifecycle has the steps).   *)
Boot == /\ phase = "down" /\ starts < MaxStarts
        /\ phase' = "up"
        /\ looping' \in (IF StrategiesWait THEN BOOLEAN ELSE {TRUE})
        /\ starts' = starts + 1
        /\ \/ /\ stored = NoSnapshot \/ "boot" \in StoreFaults
              /\ Knows({}, {}, FALSE)
           \/ /\ stored # NoSnapshot
              /\ Knows(Restored(stored), stored.ids, stored.kill)
        /\ UNCHANGED <<now, call, result, venue, admittedAt, saveVars, used, atStop>>

EngineInit ==
  /\ Init
  /\ killSwitch = FALSE
  /\ phase = "down" /\ looping = FALSE /\ starts = 0
  /\ scheduled = 0 /\ writing = {} /\ stored = NoSnapshot
  /\ used = {} /\ atStop = NoSnapshot

EngineNext == \/ GatewayStep \/ ExchangeStep
              \/ ChangeSave \/ LoopSave
              \/ \E w \in writing : Written(w) \/ SaveFails(w)
              \/ Crash \/ BeginStop \/ EndStop \/ Boot

EngineSpec == EngineInit /\ [][EngineNext]_allVars

LoopWritten == \E w \in writing : w.by = "loop" /\ Written(w)

(* While the loop lives the interval passes again and again, and of its     *)
(* saves Redis does not fail every one.                                     *)
EngineFairSpec == EngineSpec /\ WF_allVars(LoopSave) /\ SF_allVars(LoopWritten)

-----------------------------------------------------------------------------
(* Type invariant of the variables this module adds.                        *)
EngineTypeOK ==
  /\ phase \in {"down", "up", "stopping"}
  /\ looping \in BOOLEAN /\ (looping => phase = "up")
  /\ starts \in Nat /\ scheduled \in Nat
  /\ writing \subseteq [by : Savers, snapshot : Snapshots]
  /\ stored \in Snapshots \cup {NoSnapshot}
  /\ atStop \in Snapshots \cup {NoSnapshot}
  /\ used \subseteq Orders
  /\ phase = "down" => writing = {} /\ scheduled = 0

(* Through any crash, restart and overtaking save, an order the engine has  *)
(* an exchange id for is one the exchange did accept: a DELETE never names  *)
(* an order that never got there (recovery.py build_snapshot and apply).    *)
IdsAreReal ==
  /\ \A o \in exchangeIds : venue[o] # "none"
  /\ stored # NoSnapshot => \A o \in stored.ids : venue[o] # "none"

(* An order leaves the stored snapshot only because the engine knows what   *)
(* became of it, or is about to save it again: never because a new process  *)
(* has not heard of it (recovery.py: "resume open-order monitoring").       *)
NeverForgotten ==
  [][stored # NoSnapshot =>
       \A o \in stored.orders \ stored'.orders : book[o] # "absent"]_allVars

(* The loop of saves makes the snapshot keep up: if from some time on it    *)
(* lives and the engine's orders and kill switch do not change, Redis holds *)
(* them again and again, whatever older saves are still on their way.       *)
Quiet == [][UNCHANGED <<book, exchangeIds, killSwitch, phase>>]_allVars
Matches == /\ stored # NoSnapshot
           /\ stored.orders = OpenOrders
           /\ stored.ids = exchangeIds \cap OpenOrders
           /\ stored.kill = killSwitch
SnapshotKeepsUp == <>Quiet /\ <>[]looping => []<>Matches

(* The same of every engine that stays up, as ARCHITECTURE.md has it:       *)
(* "Snapshots are written: Every STATE_SNAPSHOT_INTERVAL_SEC".              *)
RunningEngineKeepsUp == <>Quiet /\ <>[](phase = "up") => []<>Matches

(* ARCHITECTURE.md: "Snapshots are written: ... On shutdown".  After a      *)
(* clean stop Redis holds the state the engine stopped with.                *)
CleanStopKeepsState == phase = "down" /\ atStop # NoSnapshot => stored = atStop

(* Every open order the engine has an exchange id for can be cancelled at   *)
(* the venue, recovered ones too (recovery.py: "resume open-order           *)
(* monitoring").                                                            *)
MonitoredCanBeCancelled ==
  \A o \in OpenOrders \cap exchangeIds : RequiresSymbol => o \in orderSymbols

(* The engine, its saves and its crashes implement the plain hand-over of   *)
(* module OrderCustody: what a successor starts with is what a predecessor  *)
(* had at one moment, entire (state/recovery.py build_snapshot, apply).     *)
Custody == INSTANCE OrderCustody
             WITH alive <- phase # "down", charge <- Snapshot,
                  taken <- {w.snapshot : w \in writing},
                  MayMissStored <- "boot" \in StoreFaults
ImplementsCustody == Custody!Spec
=============================================================================
