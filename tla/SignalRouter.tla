---------------------------- MODULE SignalRouter ----------------------------
(***************************************************************************)
(* The signal bus (sybakiller/strategy/bus.py) and the router that takes   *)
(* signals off it and has them executed (strategy/router.py).  Strategies  *)
(* and POST /signals (api/main.py) publish; one router task consumes.  The *)
(* gateway it calls is reduced to what the router can see of it: a risk    *)
(* refusal, ValueError on an order id it knows, and, after a wait, success,*)
(* a refusal or an exception.  Module ExecutionGateway has the details.    *)
(*                                                                         *)
(* publish never waits and get pops only when the router runs again, so    *)
(* taking a signal, building its order and handing it to place_order up to *)
(* the first wait is one step.                                             *)
(***************************************************************************)
EXTENDS Integers, FiniteSets

CONSTANTS
  Signals,      \* the signals that will be published, each once
  Sources,      \* (tenant, source) pairs
  SourceOf,     \* of each signal
  PriorityOf,   \* of each signal, larger is more urgent
  ClientIdOf,   \* to_order_client_id: the order id, cut to 36 characters, so
                \* that signals of long-named sources may share one
  NoSignal,
  MaxQueue,     \* maxsize of the asyncio.PriorityQueue
  MaxStarts,    \* bound on the number of times the router is started
  CanRaise      \* place_order may raise (timeout, lost connection)

ASSUME SignalsAssumption ==
  /\ IsFiniteSet(Signals) /\ NoSignal \notin Signals
  /\ SourceOf \in [Signals -> Sources]
  /\ PriorityOf \in [Signals -> Int]
  /\ DOMAIN ClientIdOf = Signals
ASSUME BoundsAssumption ==
  MaxQueue \in Nat \ {0} /\ MaxStarts \in Nat /\ CanRaise \in BOOLEAN

VARIABLES
  sources,  \* bus._sources
  queue,    \* bus._queue: the signals waiting
  seq,      \* bus._seq
  seqOf,    \* _QueuedSignal.seq; 0 until the signal is accepted
  offered,  \* history: signals publish was called with
  running,  \* router._running
  task,     \* router._task and where it waits
  current,  \* the signal the router holds
  known,    \* client order ids in the order book
  taken,    \* history: per signal, its rank among those taken, or 0
  outcome,  \* history: how the signal ended; _processed counts ok and refused
  starts    \* number of times the router was started

busVars    == <<sources, queue, seq, seqOf, offered>>
routerVars == <<running, task, current, starts>>
vars       == <<busVars, routerVars, known, taken, outcome>>

TaskStates == {"none",       \* no task
               "consuming",  \* at bus.consume
               "executing",  \* at the gateway's wait for the venue
               "reporting",  \* at on_result, which saves a snapshot
               "dead"}       \* ended by an exception
Outcomes   == {"none", "ok", "refused"}

Taken    == {s \in Signals : taken[s] > 0}
Accepted == {s \in Signals : seqOf[s] > 0}

-----------------------------------------------------------------------------
(* Publishing.                                                              *)

\* Mutant of Before: of one priority, the newest comes first.
MutBeforeNewest(s, t) ==
  \/ PriorityOf[s] > PriorityOf[t]
  \/ PriorityOf[s] = PriorityOf[t] /\ seqOf[s] > seqOf[t]

(* The order of _QueuedSignal: negated priority, then sequence number.      *)
Before(s, t) ==
  \/ PriorityOf[s] > PriorityOf[t]
  \/ PriorityOf[s] = PriorityOf[t] /\ seqOf[s] < seqOf[t]

(* A bus nobody registered with takes signals from anyone.                  *)
Registered(s, from) == from = {} \/ SourceOf[s] \in from

(* publish, with the sources registered when it runs.                       *)
PublishTo(s, from) ==
  /\ s \notin offered
  /\ offered' = offered \cup {s}
  /\ \/ /\ ~Registered(s, from)
        /\ UNCHANGED <<queue, seq, seqOf>>
     \/ /\ Registered(s, from) /\ Cardinality(queue) >= MaxQueue   \* dropped
        /\ seq' = seq + 1
        /\ UNCHANGED <<queue, seqOf>>
     \/ /\ Registered(s, from) /\ Cardinality(queue) < MaxQueue
        /\ seq' = seq + 1
        /\ seqOf' = [seqOf EXCEPT ![s] = seq + 1]
        /\ queue' = queue \cup {s}
  /\ UNCHANGED <<routerVars, known, taken, outcome>>

(* A strategy publishes on the bus.                                         *)
Publish(s) == PublishTo(s, sources) /\ UNCHANGED sources

(* POST /signals registers the source it was told, then publishes.          *)
IngestSignal(s) == /\ PublishTo(s, sources \cup {SourceOf[s]})
                   /\ sources' = sources \cup {SourceOf[s]}

(* TradingEngine.register_strategy.                                         *)
RegisterSource(src) == /\ src \notin sources
                       /\ sources' = sources \cup {src}
                       /\ UNCHANGED <<queue, seq, seqOf, offered, routerVars, known, taken, outcome>>

-----------------------------------------------------------------------------
(* The router's loop.                                                       *)

Hold(at, s) == task' = at /\ current' = s

Ends(s, o) == outcome' = [outcome EXCEPT ![s] = o]

\* Mutant of Duplicate: the book overwrites the order it finds.
MutDuplicate(s) == FALSE

(* OrderBook.register_order refuses an id it knows.                         *)
Duplicate(s) == ClientIdOf[s] \in known

(* The most urgent signal leaves the queue and goes to place_order: refused *)
(* by the risk checks, killed by ValueError, or registered and sent.        *)
Take(s) ==
  /\ task = "consuming"
  /\ s \in queue /\ \A t \in queue \ {s} : Before(s, t)
  /\ queue' = queue \ {s}
  /\ taken' = [taken EXCEPT ![s] = Cardinality(Taken) + 1]
  /\ \/ Hold("reporting", s) /\ Ends(s, "refused") /\ UNCHANGED known
     \/ Duplicate(s) /\ Hold("dead", NoSignal) /\ UNCHANGED <<known, outcome>>
     \/ /\ ~Duplicate(s)
        /\ known' = known \cup {ClientIdOf[s]}
        /\ Hold("executing", s)
        /\ UNCHANGED outcome
  /\ UNCHANGED <<sources, seq, seqOf, offered, running, starts>>

(* place_order returns a result, or refuses after a RuntimeError.           *)
Executed(o) == /\ task = "executing"
               /\ Ends(current, o)
               /\ Hold("reporting", current)
               /\ UNCHANGED <<busVars, running, starts, known, taken>>

(* Nothing around the call catches what place_order does not.               *)
ExecutionRaises == /\ task = "executing" /\ CanRaise
                   /\ Hold("dead", NoSignal)
                   /\ UNCHANGED <<busVars, running, starts, known, taken, outcome>>

\* Mutant of Reported: the loop is left after a refused signal.
MutReported == /\ task = "reporting"
               /\ Hold(IF outcome[current] = "refused" THEN "none" ELSE "consuming", NoSignal)
               /\ UNCHANGED <<busVars, running, starts, known, taken, outcome>>

Reported == /\ task = "reporting"
            /\ Hold("consuming", NoSignal)
            /\ UNCHANGED <<busVars, running, starts, known, taken, outcome>>

Start == /\ ~running /\ starts < MaxStarts
         /\ starts' = starts + 1
         /\ running' = TRUE
         /\ Hold("consuming", NoSignal)
         /\ UNCHANGED <<busVars, known, taken, outcome>>

\* Mutant of Remaining: stopping also empties the queue.
MutRemaining == {}

(* The queue belongs to the bus: stopping the router leaves it alone.       *)
Remaining == queue

\* Mutant of Stop: the flag is cleared but the task is not cancelled.
MutStop == /\ running
           /\ running' = FALSE
           /\ UNCHANGED <<busVars, task, current, starts, known, taken, outcome>>

(* The task is cancelled wherever it waits.  Awaiting one that an exception *)
(* ended raises that exception out of stop, before _task is reset.          *)
Stop == /\ running
        /\ running' = FALSE
        /\ Hold(IF task = "dead" THEN "dead" ELSE "none", NoSignal)
        /\ queue' = Remaining
        /\ UNCHANGED <<sources, seq, seqOf, offered, starts, known, taken, outcome>>

Init ==
  /\ sources = {} /\ queue = {} /\ seq = 0
  /\ seqOf = [s \in Signals |-> 0]
  /\ offered = {}
  /\ running = FALSE /\ task = "none" /\ current = NoSignal
  /\ known = {}
  /\ taken = [s \in Signals |-> 0]
  /\ outcome = [s \in Signals |-> "none"]
  /\ starts = 0

RouterStep == \/ \E s \in Signals : Take(s)
              \/ \E o \in {"ok", "refused"} : Executed(o)
              \/ ExecutionRaises
              \/ Reported

Next == \/ \E s \in Signals : Publish(s) \/ IngestSignal(s)
        \/ \E src \in Sources : RegisterSource(src)
        \/ RouterStep
        \/ Start \/ Stop

Spec == Init /\ [][Next]_vars

-----------------------------------------------------------------------------
(* Type invariant; a task that is alive belongs to a running router.        *)
TypeOK ==
  /\ sources \subseteq Sources /\ queue \subseteq Signals
  /\ seq \in Nat /\ seqOf \in [Signals -> Nat]
  /\ offered \subseteq Signals
  /\ running \in BOOLEAN /\ task \in TaskStates
  /\ current \in Signals \cup {NoSignal}
  /\ current # NoSignal <=> task \in {"executing", "reporting"}
  /\ task \in {"consuming", "executing", "reporting"} => running
  /\ known \subseteq {ClientIdOf[s] : s \in Signals}
  /\ taken \in [Signals -> Nat]
  /\ outcome \in [Signals -> Outcomes]
  /\ starts \in Nat

(* bus.py: "FIFO within same priority".  Over any history of publishers,    *)
(* drops, stops and restarts, signals of one priority are taken in the      *)
(* order publish accepted them, and none is left behind by a later one.     *)
FifoWithinPriority ==
  \A s, t \in Accepted :
    (PriorityOf[s] = PriorityOf[t] /\ seqOf[s] < seqOf[t] /\ t \in Taken)
      => s \in Taken /\ taken[s] < taken[t]

(* Sequence numbers and one queue do what module SignalBus asks for: a      *)
(* signal waits for the more urgent ones and for those of its own priority  *)
(* that were there before it, over drops, stops and restarts.               *)
Bus == INSTANCE SignalBus WITH
  waiting   <- queue,
  delivered <- Taken,
  ahead     <- [s \in Signals |->
                  {t \in queue : s \in queue /\ PriorityOf[t] = PriorityOf[s] /\ seqOf[t] < seqOf[s]}]
ImplementsBus == Bus!Spec

(* An accepted signal is waiting, in the router's hands or ended, or else   *)
(* it was in hand when the router was stopped or died: each start of the    *)
(* router accounts for at most one such loss, and the queue for none.       *)
Lost == {s \in Accepted : s \notin queue /\ s # current /\ outcome[s] = "none"}
AtMostOneLossPerStart ==
  Cardinality(Lost) <= IF task \in {"none", "dead"} THEN starts ELSE starts - 1

(* Two signals never share an order: when their ids were cut to the same    *)
(* client order id, at most one of them is executed.                        *)
OrdersNotShared ==
  \A s, t \in Signals :
    (s # t /\ ClientIdOf[s] = ClientIdOf[t]) => ~(outcome[s] = "ok" /\ outcome[t] = "ok")

(* Only an exception ends the router's work: while its task lives and       *)
(* signals wait, it goes on taking them (router.py _run).  This says        *)
(* nothing of a single signal, which more urgent ones may keep waiting for  *)
(* as long as they come (bus.py: "Higher priority signals are executed      *)
(* first").                                                                 *)
RouterKeepsTaking ==
  \A n \in 0..Cardinality(Signals) :
    (queue # {} /\ running /\ Cardinality(Taken) = n)
      ~> (Cardinality(Taken) > n \/ ~running \/ task = "dead")

(* While the router runs, a signal the bus accepted is eventually taken     *)
(* (POST /signals answered "queued": True).                                 *)
QueuedIsTaken ==
  \A s \in Signals : (s \in queue /\ running) ~> (s \in Taken \/ ~running)
=============================================================================
