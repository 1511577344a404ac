------------------------- MODULE SignalRouterProofs -------------------------
(***************************************************************************)
(* Ordering of the signal bus and exclusiveness of order ids, for any set  *)
(* of signals, sources, priorities and any queue size; then the engine     *)
(* around the router, for any number of starts and any strategies.  The    *)
(* engine's steps are steps of the router or leave it alone, so that what  *)
(* is proved of the router alone holds of the one the engine starts and    *)
(* stops.                                                                  *)
(*                                                                         *)
(* FifoWithinPriority speaks of signals long since taken; BusInv adds what *)
(* makes it inductive: which signals the queue still holds, that sequence  *)
(* numbers and ranks are never reused, and the order of the ranks.         *)
(***************************************************************************)
EXTENDS EngineLifecycle, FiniteSetTheorems, TLAPS

BusInv ==
  /\ queue \subseteq Signals /\ offered \subseteq Signals
  /\ seq \in Nat
  /\ seqOf \in [Signals -> Nat]
  /\ taken \in [Signals -> Nat]
  /\ Accepted = queue \cup Taken
  /\ queue \cap Taken = {}
  /\ Accepted \subseteq offered
  /\ \A s \in Signals : seqOf[s] <= seq
  /\ \A s \in Signals : taken[s] <= Cardinality(Taken)
  /\ FifoWithinPriority

LEMMA TakenFinite == IsFiniteSet(Taken) /\ Cardinality(Taken) \in Nat
  BY SignalsAssumption, FS_Subset, FS_CardinalityType DEF Taken

LEMMA InitBus == Init => BusInv
<1> SUFFICES ASSUME Init PROVE BusInv
  OBVIOUS
<1>1. Accepted = {} /\ Taken = {} /\ queue = {}
  BY DEF Init, Accepted, Taken
<1>2. Cardinality(Taken) = 0
  BY <1>1, FS_EmptySet
<1> QED
  BY <1>1, <1>2 DEF Init, BusInv, FifoWithinPriority

(* publish puts its signal behind every accepted one.                       *)
LEMMA PublishBus ==
  ASSUME BusInv, NEW s \in Signals, NEW from, PublishTo(s, from)
  PROVE  BusInv'
<1>1. taken' = taken /\ Taken' = Taken /\ s \notin Accepted
  BY DEF PublishTo, BusInv, Taken
<1>2. CASE UNCHANGED <<queue, seqOf>> /\ seq' \in {seq, seq + 1}
  <2>1. Accepted' = Accepted
    BY <1>2 DEF Accepted
  <2> QED
    BY <1>1, <1>2, <2>1 DEF BusInv, PublishTo, FifoWithinPriority
<1>3. CASE /\ seq' = seq + 1
           /\ seqOf' = [seqOf EXCEPT ![s] = seq + 1]
           /\ queue' = queue \cup {s}
  <2>1. /\ seqOf' \in [Signals -> Nat] /\ seqOf'[s] = seq + 1
        /\ \A t \in Signals \ {s} : seqOf'[t] = seqOf[t]
    BY <1>3 DEF BusInv
  <2>2. Accepted' = Accepted \cup {s}
    BY <2>1 DEF Accepted, BusInv
  <2>3. s \notin Taken
    BY <1>1 DEF BusInv
  <2>4. FifoWithinPriority'
    <3> SUFFICES ASSUME NEW u \in Accepted', NEW v \in Accepted',
                        PriorityOf[u] = PriorityOf[v], seqOf'[u] < seqOf'[v], v \in Taken
                 PROVE  u \in Taken /\ taken[u] < taken[v]
      BY <1>1 DEF FifoWithinPriority
    <3>1. v # s /\ v \in Accepted /\ seqOf'[v] = seqOf[v] /\ seqOf[v] <= seq
      BY <2>1, <2>2, <2>3 DEF BusInv, Accepted
    <3>2. u # s
      BY <2>1, <3>1 DEF BusInv, Accepted
    <3>3. u \in Accepted /\ seqOf'[u] = seqOf[u]
      BY <2>1, <2>2, <3>2 DEF Accepted
    <3> QED
      BY <3>1, <3>3 DEF BusInv, FifoWithinPriority
  <2>5. \A t \in Signals : seqOf'[t] <= seq'
    BY <1>3, <2>1 DEF BusInv
  <2> QED
    BY <1>1, <1>3, <2>1, <2>2, <2>3, <2>4, <2>5 DEF BusInv, PublishTo
<1> QED
  BY <1>2, <1>3 DEF PublishTo

(* Taking the first of the queue gives it the highest rank so far.          *)
LEMMA TakeBus ==
  ASSUME BusInv, NEW s \in Signals, Take(s)
  PROVE  BusInv'
<1>1. /\ s \in queue /\ s \in Accepted /\ s \notin Taken
      /\ queue' = queue \ {s} /\ seqOf' = seqOf /\ Accepted' = Accepted
      /\ seq' = seq /\ offered' = offered
  BY DEF Take, BusInv, Accepted
<1>2. Cardinality(Taken) \in Nat
  BY TakenFinite
<1>3. /\ taken' \in [Signals -> Nat] /\ taken'[s] = Cardinality(Taken) + 1
      /\ \A t \in Signals \ {s} : taken'[t] = taken[t]
  BY <1>2 DEF Take, BusInv
<1>4. Taken' = Taken \cup {s}
  BY <1>2, <1>3 DEF Taken
<1>5. Cardinality(Taken') = Cardinality(Taken) + 1
  BY <1>1, <1>4, TakenFinite, FS_AddElement
<1>6. \A t \in Signals : taken'[t] <= Cardinality(Taken')
  BY <1>2, <1>3, <1>5 DEF BusInv
<1>7. FifoWithinPriority'
  <2> SUFFICES ASSUME NEW u \in Accepted, NEW v \in Accepted,
                      PriorityOf[u] = PriorityOf[v], seqOf[u] < seqOf[v], v \in Taken'
               PROVE  u \in Taken' /\ taken'[u] < taken'[v]
    BY <1>1 DEF FifoWithinPriority
  <2> u \in Signals /\ v \in Signals
    BY DEF Accepted
  <2>1. CASE v # s
    <3>1. v \in Taken
      BY <1>4, <2>1
    <3>2. u \in Taken /\ taken[u] < taken[v]
      BY <3>1 DEF BusInv, FifoWithinPriority
    <3> QED
      BY <1>1, <1>3, <1>4, <2>1, <3>2
  <2>2. CASE v = s
    <3>1. u # s
      BY <2>2, SignalsAssumption DEF BusInv
    <3>2. u \notin queue
      <4> SUFFICES ASSUME u \in queue PROVE FALSE
        OBVIOUS
      <4>1. Before(s, u)
        BY <3>1 DEF Take
      <4> QED
        BY <2>2, <4>1, SignalsAssumption DEF Before, BusInv
    <3>3. u \in Taken
      BY <3>2 DEF BusInv
    <3>4. taken[u] <= Cardinality(Taken)
      BY DEF BusInv
    <3> QED
      BY <1>2, <1>3, <1>4, <2>2, <3>1, <3>3, <3>4 DEF BusInv
  <2> QED
    BY <2>1, <2>2
<1>8. Accepted' = queue' \cup Taken' /\ queue' \cap Taken' = {}
  BY <1>1, <1>4 DEF BusInv
<1> QED
  BY <1>1, <1>3, <1>6, <1>7, <1>8 DEF BusInv

(* Every other step leaves the bus and the history of its signals alone.    *)
LEMMA OtherBus ==
  ASSUME BusInv, UNCHANGED <<queue, seq, seqOf, offered, taken>>
  PROVE  BusInv'
<1>1. Accepted' = Accepted /\ Taken' = Taken
  BY DEF Accepted, Taken
<1> QED
  BY <1>1 DEF BusInv, FifoWithinPriority

LEMMA NextBus == BusInv /\ [Next]_vars => BusInv'
<1> SUFFICES ASSUME BusInv, [Next]_vars PROVE BusInv'
  OBVIOUS
<1>1. ASSUME NEW s \in Signals, Publish(s) \/ IngestSignal(s) PROVE BusInv'
  BY <1>1, PublishBus DEF Publish, IngestSignal
<1>2. ASSUME NEW s \in Signals, Take(s) PROVE BusInv'
  BY <1>2, TakeBus
<1>3. ASSUME NEW src \in Sources, RegisterSource(src) PROVE BusInv'
  BY <1>3, OtherBus DEF RegisterSource
<1>4. ASSUME NEW o \in {"ok", "refused"}, Executed(o) PROVE BusInv'
  BY <1>4, OtherBus DEF Executed, busVars
<1>5. CASE ExecutionRaises \/ Reported \/ Start
  BY <1>5, OtherBus DEF ExecutionRaises, Reported, Start, busVars
<1>6. CASE Stop
  BY <1>6, OtherBus DEF Stop, Remaining
<1>7. CASE UNCHANGED vars
  BY <1>7, OtherBus DEF vars, busVars
<1> QED
  BY <1>1, <1>2, <1>3, <1>4, <1>5, <1>6, <1>7 DEF Next, RouterStep

(* Signals of one priority are taken in the order the bus accepted them,    *)
(* over any interleaving of publishers, drops, stops and restarts.          *)
THEOREM FifoIsKept == Spec => []FifoWithinPriority
<1>1. BusInv => FifoWithinPriority
  BY DEF BusInv
<1> QED
  BY InitBus, NextBus, <1>1, PTL DEF Spec

-----------------------------------------------------------------------------
(* Order ids.                                                               *)

(* s has its order at the gateway, or had it executed.                      *)
Holds(s) == outcome[s] = "ok" \/ (task = "executing" /\ current = s)

IdsInv ==
  /\ outcome \in [Signals -> Outcomes]
  /\ task = "executing" => current \in Signals
  /\ \A s \in Signals : Holds(s) => ClientIdOf[s] \in known
  /\ \A s, t \in Signals :
       (s # t /\ ClientIdOf[s] = ClientIdOf[t]) => ~(Holds(s) /\ Holds(t))

LEMMA TakeIds ==
  ASSUME IdsInv, NEW s \in Signals, Take(s)
  PROVE  IdsInv'
<1>1. task = "consuming"
  BY DEF Take
<1>2. \A t \in Signals : Holds(t) <=> outcome[t] = "ok"
  BY <1>1 DEF Holds
<1>3. CASE Hold("reporting", s) /\ Ends(s, "refused") /\ UNCHANGED known
  <2>1. \A t \in Signals : Holds(t)' => Holds(t)
    BY <1>3 DEF Hold, Ends, Holds, IdsInv
  <2> QED
    BY <1>3, <2>1 DEF Hold, Ends, IdsInv, Outcomes
<1>4. CASE Duplicate(s) /\ Hold("dead", NoSignal) /\ UNCHANGED <<known, outcome>>
  <2>1. \A t \in Signals : Holds(t)' => Holds(t)
    BY <1>4 DEF Hold, Holds
  <2> QED
    BY <1>4, <2>1 DEF Hold, IdsInv
<1>5. CASE /\ ~Duplicate(s)
           /\ known' = known \cup {ClientIdOf[s]}
           /\ Hold("executing", s)
           /\ UNCHANGED outcome
  <2>1. \A t \in Signals : Holds(t)' => Holds(t) \/ t = s
    BY <1>5 DEF Hold, Holds
  <2>2. \A t \in Signals : Holds(t) => ClientIdOf[t] # ClientIdOf[s]
    BY <1>5 DEF Duplicate, IdsInv
  <2>3. \A t \in Signals : Holds(t)' => ClientIdOf[t] \in known'
    BY <1>5, <2>1 DEF IdsInv
  <2>4. \A t, u \in Signals :
          (t # u /\ ClientIdOf[t] = ClientIdOf[u]) => ~(Holds(t)' /\ Holds(u)')
    BY <2>1, <2>2 DEF IdsInv
  <2> QED
    BY <1>5, <2>3, <2>4 DEF Hold, IdsInv
<1> QED
  BY <1>3, <1>4, <1>5 DEF Take

LEMMA NextIds == IdsInv /\ [Next]_vars => IdsInv'
<1> SUFFICES ASSUME IdsInv, [Next]_vars PROVE IdsInv'
  OBVIOUS
<1>1. ASSUME /\ known' = known /\ outcome' = outcome
             /\ task' # "executing" \/ UNCHANGED <<task, current>>
      PROVE  IdsInv'
  <2>1. \A t \in Signals : Holds(t)' => Holds(t)
    BY <1>1 DEF Holds
  <2> QED
    BY <1>1, <2>1 DEF IdsInv
<1>2. ASSUME NEW s \in Signals, Publish(s) \/ IngestSignal(s) PROVE IdsInv'
  BY <1>1, <1>2 DEF Publish, IngestSignal, PublishTo, routerVars
<1>3. ASSUME NEW s \in Signals, Take(s) PROVE IdsInv'
  BY <1>3, TakeIds
<1>4. ASSUME NEW src \in Sources, RegisterSource(src) PROVE IdsInv'
  BY <1>1, <1>4 DEF RegisterSource, routerVars
<1>5. ASSUME NEW o \in {"ok", "refused"}, Executed(o) PROVE IdsInv'
  <2>1. /\ task = "executing" /\ current \in Signals /\ known' = known
        /\ outcome' = [outcome EXCEPT ![current] = o] /\ task' = "reporting"
    BY <1>5 DEF Executed, Ends, Hold, IdsInv
  <2>2. outcome' \in [Signals -> Outcomes]
    BY <1>5, <2>1 DEF IdsInv, Outcomes
  <2>3. \A t \in Signals : Holds(t)' => Holds(t)
    BY <2>1 DEF Holds, IdsInv
  <2> QED
    BY <2>1, <2>2, <2>3 DEF IdsInv
<1>6. CASE ExecutionRaises \/ Reported \/ Start \/ Stop
  BY <1>1, <1>6 DEF ExecutionRaises, Reported, Start, Stop, Hold
<1>7. CASE UNCHANGED vars
  BY <1>1, <1>7 DEF vars, routerVars
<1> QED
  BY <1>2, <1>3, <1>4, <1>5, <1>6, <1>7 DEF Next, RouterStep

(* Two signals whose client order ids were cut to the same 36 characters    *)
(* are never both executed.                                                 *)
THEOREM OrdersAreNotShared == Spec => []OrdersNotShared
<1>1. Init => IdsInv
  BY DEF Init, IdsInv, Holds, Outcomes
<1>2. IdsInv => OrdersNotShared
  BY DEF IdsInv, Holds, OrdersNotShared
<1> QED
  BY <1>1, NextIds, <1>2, PTL DEF Spec

-----------------------------------------------------------------------------
(* The abstract bus.                                                        *)

LEMMA AcceptMaps ==
  ASSUME BusInv, NEW s \in Signals, NEW from, PublishTo(s, from)
  PROVE  [Bus!Next]_(Bus!vars)
<1>1. taken' = taken /\ Taken' = Taken /\ s \notin Accepted
  BY DEF PublishTo, BusInv, Taken
<1>2. CASE UNCHANGED <<queue, seqOf>>
  BY <1>1, <1>2 DEF Bus!vars
<1>3. CASE /\ seqOf' = [seqOf EXCEPT ![s] = seq + 1]
           /\ queue' = queue \cup {s}
  <2> DEFINE Ahead(t) == {u \in queue : t \in queue /\ PriorityOf[u] = PriorityOf[t] /\ seqOf[u] < seqOf[t]}
  <2>1. /\ seqOf'[s] = seq + 1
        /\ \A t \in Signals \ {s} : seqOf'[t] = seqOf[t]
        /\ \A t \in Signals : seqOf[t] \in Nat /\ seqOf[t] <= seq
    BY <1>3 DEF BusInv
  <2>2. s \notin queue /\ s \notin Taken /\ queue \subseteq Signals /\ seq \in Nat
    BY <1>1 DEF BusInv
  <2>3. Ahead(s)' = {t \in queue : PriorityOf[t] = PriorityOf[s]}
    BY <1>3, <2>1, <2>2
  <2>4. ASSUME NEW t \in Signals \ {s} PROVE Ahead(t)' = Ahead(t)
    BY <1>3, <2>1, <2>2, <2>4
  <2>5. [t \in Signals |-> Ahead(t)]'
          = [[t \in Signals |-> Ahead(t)] EXCEPT ![s] = {t \in queue : PriorityOf[t] = PriorityOf[s]}]
    BY <2>3, <2>4
  <2>6. Bus!Accept(s)
    BY <1>1, <1>3, <2>2, <2>5 DEF Bus!Accept
  <2> QED
    BY <2>6 DEF Bus!Next
<1> QED
  BY <1>2, <1>3 DEF PublishTo

LEMMA DeliverMaps ==
  ASSUME BusInv, NEW s \in Signals, Take(s)
  PROVE  Bus!Deliver(s)
<1> DEFINE Ahead(t) == {u \in queue : t \in queue /\ PriorityOf[u] = PriorityOf[t] /\ seqOf[u] < seqOf[t]}
<1>1. /\ s \in queue /\ \A t \in queue \ {s} : Before(s, t)
      /\ queue' = queue \ {s} /\ seqOf' = seqOf
  BY DEF Take
<1>2. \A t \in Signals : PriorityOf[t] \in Int /\ seqOf[t] \in Nat
  BY SignalsAssumption DEF BusInv
<1>3. \A t \in queue : PriorityOf[t] <= PriorityOf[s]
  BY <1>1, <1>2 DEF Before, BusInv
<1>4. Ahead(s) = {}
  BY <1>1, <1>2 DEF Before, BusInv
<1>5. [t \in Signals |-> Ahead(t)]' = [t \in Signals |-> Ahead(t) \ {s}]
  BY <1>1, <1>4
<1>6. Taken' = Taken \cup {s}
  <2>1. Cardinality(Taken) \in Nat
    BY TakenFinite
  <2>2. /\ taken'[s] = Cardinality(Taken) + 1
        /\ \A t \in Signals \ {s} : taken'[t] = taken[t]
    BY DEF Take, BusInv
  <2> QED
    BY <2>1, <2>2 DEF Taken
<1> QED
  BY <1>1, <1>3, <1>4, <1>5, <1>6 DEF Bus!Deliver

(* Numbered signals in one queue do what the bus promises: each step of bus *)
(* and router is an Accept, a Deliver or nothing to SignalBus.              *)
THEOREM RouterImplementsBus == Spec => ImplementsBus
<1>1. Init => Bus!Init
  <2> SUFFICES ASSUME Init PROVE Bus!Init
    OBVIOUS
  <2>1. Taken = {} /\ queue = {}
    BY DEF Init, Taken
  <2> QED
    BY <2>1 DEF Bus!Init
<1>2. BusInv /\ [Next]_vars => [Bus!Next]_(Bus!vars)
  <2> SUFFICES ASSUME BusInv, [Next]_vars PROVE [Bus!Next]_(Bus!vars)
    OBVIOUS
  <2>1. ASSUME UNCHANGED <<queue, seqOf, taken>> PROVE UNCHANGED Bus!vars
    BY <2>1 DEF Bus!vars, Taken
  <2>2. ASSUME NEW s \in Signals, Publish(s) \/ IngestSignal(s) PROVE [Bus!Next]_(Bus!vars)
    BY <2>2, AcceptMaps DEF Publish, IngestSignal
  <2>3. ASSUME NEW s \in Signals, Take(s) PROVE [Bus!Next]_(Bus!vars)
    BY <2>3, DeliverMaps DEF Bus!Next
  <2>4. ASSUME NEW src \in Sources, RegisterSource(src) PROVE UNCHANGED Bus!vars
    BY <2>1, <2>4 DEF RegisterSource
  <2>5. ASSUME NEW o \in {"ok", "refused"}, Executed(o) PROVE UNCHANGED Bus!vars
    BY <2>1, <2>5 DEF Executed, busVars
  <2>6. CASE ExecutionRaises \/ Reported \/ Start \/ Stop
    BY <2>1, <2>6 DEF ExecutionRaises, Reported, Start, Stop, Remaining, busVars
  <2>7. CASE UNCHANGED vars
    BY <2>1, <2>7 DEF vars, busVars
  <2> QED
    BY <2>2, <2>3, <2>4, <2>5, <2>6, <2>7 DEF Next, RouterStep
<1> QED
  BY InitBus, NextBus, <1>1, <1>2, PTL DEF Spec, ImplementsBus, Bus!Spec

-----------------------------------------------------------------------------
(* Types, and what is lost.                                                 *)

LEMMA TakeType ==
  ASSUME TypeOK, NEW s \in Signals, Take(s)
  PROVE  TypeOK'
<1>1. Cardinality(Taken) + 1 \in Nat
  BY TakenFinite
<1>2. taken' \in [Signals -> Nat]
  BY <1>1 DEF Take, TypeOK
<1>3. s # NoSignal
  BY SignalsAssumption
<1>4. /\ queue' \subseteq Signals /\ running /\ running' = running
      /\ UNCHANGED <<sources, seq, seqOf, offered, starts>>
  BY DEF Take, TypeOK
<1>5. CASE Hold("reporting", s) /\ Ends(s, "refused") /\ UNCHANGED known
  <2>1. outcome' \in [Signals -> Outcomes]
    BY <1>5 DEF Ends, TypeOK, Outcomes
  <2> QED
    BY <1>2, <1>3, <1>4, <1>5, <2>1 DEF Hold, TypeOK, TaskStates
<1>6. CASE Hold("dead", NoSignal) /\ UNCHANGED <<known, outcome>>
  BY <1>2, <1>4, <1>6 DEF Hold, TypeOK, TaskStates
<1>7. CASE known' = known \cup {ClientIdOf[s]} /\ Hold("executing", s) /\ UNCHANGED outcome
  BY <1>2, <1>3, <1>4, <1>7 DEF Hold, TypeOK, TaskStates
<1> QED
  BY <1>5, <1>6, <1>7 DEF Take

LEMMA NextType == TypeOK /\ [Next]_vars => TypeOK'
<1> SUFFICES ASSUME TypeOK, [Next]_vars PROVE TypeOK'
  OBVIOUS
<1>1. ASSUME NEW s \in Signals, NEW from, PublishTo(s, from), sources' \subseteq Sources
      PROVE  TypeOK'
  <2>1. offered' \subseteq Signals /\ seq' \in Nat /\ seqOf' \in [Signals -> Nat]
        /\ queue' \subseteq Signals
    BY <1>1 DEF PublishTo, TypeOK
  <2> QED
    BY <1>1, <2>1 DEF PublishTo, TypeOK, routerVars
<1>2. ASSUME NEW s \in Signals, Publish(s) \/ IngestSignal(s) PROVE TypeOK'
  <2>1. SourceOf[s] \in Sources
    BY SignalsAssumption
  <2> QED
    BY <1>1, <1>2, <2>1 DEF Publish, IngestSignal, TypeOK
<1>3. ASSUME NEW s \in Signals, Take(s) PROVE TypeOK'
  BY <1>3, TakeType
<1>4. ASSUME NEW src \in Sources, RegisterSource(src) PROVE TypeOK'
  BY <1>4 DEF RegisterSource, routerVars, TypeOK
<1>5. ASSUME NEW o \in {"ok", "refused"}, Executed(o) PROVE TypeOK'
  <2>1. current \in Signals /\ outcome' = [outcome EXCEPT ![current] = o]
    BY <1>5 DEF Executed, Ends, TypeOK
  <2>2. outcome' \in [Signals -> Outcomes]
    BY <1>5, <2>1 DEF TypeOK, Outcomes
  <2> QED
    BY <1>5, <2>2 DEF Executed, Hold, TypeOK, busVars, TaskStates
<1>6. CASE ExecutionRaises \/ Reported
  BY <1>6 DEF ExecutionRaises, Reported, Hold, TypeOK, busVars, TaskStates
<1>7. CASE Start
  BY <1>7 DEF Start, Hold, TypeOK, busVars, TaskStates
<1>8. CASE Stop
  BY <1>8 DEF Stop, Remaining, Hold, TypeOK, TaskStates
<1>9. CASE UNCHANGED vars
  BY <1>9 DEF vars, busVars, routerVars, TypeOK
<1> QED
  BY <1>2, <1>3, <1>4, <1>5, <1>6, <1>7, <1>8, <1>9 DEF Next, RouterStep

(* Every state of the bus and the router is well typed, and a live task     *)
(* belongs to a running router.                                             *)
THEOREM TypeCorrect == Spec => []TypeOK
<1>1. Init => TypeOK
  <2> SUFFICES ASSUME Init PROVE TypeOK
    OBVIOUS
  <2>1. /\ seqOf \in [Signals -> Nat] /\ taken \in [Signals -> Nat]
        /\ outcome \in [Signals -> Outcomes]
    BY DEF Init, Outcomes
  <2> QED
    BY <2>1 DEF Init, TypeOK, TaskStates
<1> QED
  BY <1>1, NextType, PTL DEF Spec

(* A signal whose result is reported has one, and losses are counted.       *)
LossInv ==
  /\ task = "reporting" => outcome[current] # "none"
  /\ AtMostOneLossPerStart

LEMMA LostFinite == IsFiniteSet(Lost) /\ Cardinality(Lost) \in Nat
<1>1. Lost \subseteq Signals
  BY DEF Lost, Accepted
<1> QED
  BY <1>1, SignalsAssumption, FS_Subset, FS_CardinalityType

LEMMA OneMore ==
  ASSUME NEW S, NEW T, NEW x, IsFiniteSet(S), T \subseteq S \cup {x}
  PROVE  /\ Cardinality(S) \in Nat /\ Cardinality(T) \in Nat
         /\ Cardinality(T) <= Cardinality(S) + 1
         /\ T \subseteq S => Cardinality(T) <= Cardinality(S)
<1>1. IsFiniteSet(S \cup {x}) /\ IsFiniteSet(T)
      /\ Cardinality(T) <= Cardinality(S \cup {x})
  BY FS_AddElement, FS_Subset
<1>2. /\ Cardinality(S) \in Nat /\ Cardinality(T) \in Nat
      /\ Cardinality(S \cup {x}) \in Nat
  BY <1>1, FS_CardinalityType
<1>3. Cardinality(S \cup {x}) = IF x \in S THEN Cardinality(S) ELSE Cardinality(S) + 1
  BY FS_AddElement
<1>4. T \subseteq S => Cardinality(T) <= Cardinality(S)
  BY FS_Subset
<1> QED
  BY <1>1, <1>2, <1>3, <1>4

(* With no new loss the bound stays; one more is paid by the task's end.    *)
LEMMA NoLoss ==
  ASSUME TypeOK, TypeOK', AtMostOneLossPerStart, Lost' \subseteq Lost, starts' = starts,
         task \in {"none", "dead"} => task' \in {"none", "dead"}
  PROVE  AtMostOneLossPerStart'
<1>1. /\ Cardinality(Lost) \in Nat /\ Cardinality(Lost') \in Nat
      /\ Cardinality(Lost') <= Cardinality(Lost)
  BY LostFinite, OneMore
<1> QED
  BY <1>1 DEF AtMostOneLossPerStart, TypeOK

LEMMA OneLoss ==
  ASSUME TypeOK, AtMostOneLossPerStart, NEW s, Lost' \subseteq Lost \cup {s}, starts' = starts,
         task \notin {"none", "dead"}, task' \in {"none", "dead"}
  PROVE  AtMostOneLossPerStart'
<1>1. /\ Cardinality(Lost) \in Nat /\ Cardinality(Lost') \in Nat
      /\ Cardinality(Lost') <= Cardinality(Lost) + 1
  BY LostFinite, OneMore
<1> QED
  BY <1>1 DEF AtMostOneLossPerStart, TypeOK

LEMMA NextLoss ==
  ASSUME TypeOK, TypeOK', LossInv, [Next]_vars
  PROVE  LossInv'
<1>1. ASSUME UNCHANGED <<task, current, starts>>, outcome' = outcome, Lost' \subseteq Lost
      PROVE  LossInv'
  BY <1>1, NoLoss DEF LossInv
<1>2. ASSUME NEW s \in Signals, Publish(s) \/ IngestSignal(s) PROVE LossInv'
  <2>1. PICK from : PublishTo(s, from)
    BY <1>2 DEF Publish, IngestSignal
  <2>2. /\ UNCHANGED <<task, current, starts>> /\ outcome' = outcome
        /\ queue \subseteq queue'
        /\ \A t \in Signals \ {s} : seqOf'[t] = seqOf[t]
        /\ s \in queue' \/ seqOf' = seqOf
    BY <2>1 DEF PublishTo, routerVars, TypeOK
  <2>3. Lost' \subseteq Lost
    BY <2>2 DEF Lost, Accepted
  <2> QED
    BY <1>1, <2>2, <2>3
<1>3. ASSUME NEW s \in Signals, Take(s) PROVE LossInv'
  <2>1. /\ task = "consuming" /\ current = NoSignal /\ s # NoSignal
        /\ queue' = queue \ {s} /\ seqOf' = seqOf /\ starts' = starts
    BY <1>3, SignalsAssumption DEF Take, TypeOK
  <2>2. CASE Hold("reporting", s) /\ Ends(s, "refused")
    <3>1. outcome'[s] = "refused" /\ \A t \in Signals \ {s} : outcome'[t] = outcome[t]
      BY <2>2 DEF Ends, TypeOK
    <3>2. Lost' \subseteq Lost
      BY <2>1, <2>2, <3>1, SignalsAssumption DEF Lost, Accepted, Hold
    <3> QED
      BY <2>1, <2>2, <3>1, <3>2, NoLoss DEF LossInv, Hold
  <2>3. CASE Hold("executing", s) /\ outcome' = outcome
    <3>1. Lost' \subseteq Lost
      BY <2>1, <2>3, SignalsAssumption DEF Lost, Accepted, Hold
    <3> QED
      BY <2>1, <2>3, <3>1, NoLoss DEF LossInv, Hold
  <2>4. CASE Hold("dead", NoSignal) /\ outcome' = outcome
    <3>1. Lost' \subseteq Lost \cup {s}
      BY <2>1, <2>4 DEF Lost, Accepted, Hold
    <3> QED
      BY <2>1, <2>4, <3>1, OneLoss DEF LossInv, Hold
  <2> QED
    BY <1>3, <2>2, <2>3, <2>4 DEF Take
<1>4. ASSUME NEW src \in Sources, RegisterSource(src) PROVE LossInv'
  BY <1>1, <1>4 DEF RegisterSource, routerVars, Lost, Accepted
<1>5. ASSUME NEW o \in {"ok", "refused"}, Executed(o) PROVE LossInv'
  <2>1. /\ task = "executing" /\ current \in Signals
        /\ outcome' = [outcome EXCEPT ![current] = o]
        /\ task' = "reporting" /\ current' = current
        /\ UNCHANGED <<queue, seqOf, starts>>
    BY <1>5 DEF Executed, Ends, Hold, TypeOK, busVars
  <2>2. outcome'[current] = o /\ \A t \in Signals \ {current} : outcome'[t] = outcome[t]
    BY <2>1 DEF TypeOK
  <2>3. Lost' \subseteq Lost
    BY <2>1, <2>2 DEF Lost, Accepted
  <2> QED
    BY <2>1, <2>2, <2>3, NoLoss DEF LossInv
<1>6. CASE ExecutionRaises
  <2>1. Lost' \subseteq Lost \cup {current}
    BY <1>6 DEF ExecutionRaises, busVars, Lost, Accepted
  <2> QED
    BY <1>6, <2>1, OneLoss DEF ExecutionRaises, Hold, LossInv
<1>7. CASE Reported
  <2>1. Lost' \subseteq Lost
    BY <1>7 DEF Reported, busVars, Lost, Accepted, LossInv
  <2> QED
    BY <1>7, <2>1, NoLoss DEF Reported, Hold, LossInv
<1>8. CASE Start
  <2>1. task \in {"none", "dead"} /\ current = NoSignal
    BY <1>8 DEF Start, TypeOK, TaskStates
  <2>2. Lost' = Lost /\ starts' = starts + 1 /\ task' = "consuming"
    BY <1>8, <2>1 DEF Start, Hold, busVars, Lost, Accepted
  <2> QED
    BY <2>1, <2>2, LostFinite DEF LossInv, AtMostOneLossPerStart, TypeOK
<1>9. CASE Stop
  <2>1. /\ Lost' \subseteq Lost \cup {current}
        /\ starts' = starts /\ task' \in {"none", "dead"}
    BY <1>9 DEF Stop, Remaining, Hold, Lost, Accepted
  <2>2. CASE task \in {"none", "dead"}
    <3>1. Lost' \subseteq Lost
      BY <1>9, <2>2 DEF Stop, Remaining, Hold, Lost, Accepted, TypeOK
    <3> QED
      BY <2>1, <3>1, NoLoss DEF LossInv
  <2>3. CASE task \notin {"none", "dead"}
    BY <2>1, <2>3, OneLoss DEF LossInv
  <2> QED
    BY <2>2, <2>3
<1>10. CASE UNCHANGED vars
  BY <1>1, <1>10 DEF vars, busVars, routerVars, Lost, Accepted
<1> QED
  BY <1>2, <1>3, <1>4, <1>5, <1>6, <1>7, <1>8, <1>9, <1>10 DEF Next, RouterStep

(* Each start of the router costs at most the one signal it had in hand     *)
(* when it was stopped or died, whatever is published meanwhile.            *)
THEOREM LossesAreCounted == Spec => []AtMostOneLossPerStart
<1>1. Init => LossInv
  <2> SUFFICES ASSUME Init PROVE LossInv
    OBVIOUS
  <2>1. Lost = {}
    BY DEF Init, Lost, Accepted
  <2> QED
    BY <2>1, FS_EmptySet DEF Init, LossInv, AtMostOneLossPerStart
<1>2. TypeOK /\ TypeOK' /\ LossInv /\ [Next]_vars => LossInv'
  BY NextLoss
<1>3. LossInv => AtMostOneLossPerStart
  BY DEF LossInv
<1> QED
  BY TypeCorrect, <1>1, <1>2, <1>3, PTL DEF Spec

-----------------------------------------------------------------------------
(* The engine around the router.                                            *)

(* The engine uses the router through its operations only: every step is    *)
(* one of SignalRouter's, or changes nothing there.                         *)
THEOREM EngineRunsRouter == EngineSpec => Spec
<1>1. EngineInit => Init
  BY DEF EngineInit
<1>2. [EngineNext]_allVars => [Next]_vars
  <2> SUFFICES ASSUME [EngineNext]_allVars PROVE [Next]_vars
    OBVIOUS
  <2>1. CASE EngineStart
    BY <2>1 DEF EngineStart, Next
  <2>2. CASE RouterWorks
    BY <2>2 DEF RouterWorks, Next
  <2>3. CASE Signalled
    BY <2>3 DEF Signalled, Next
  <2>4. CASE StopRouter
    BY <2>4 DEF StopRouter, Next
  <2>5. CASE \/ StrategiesStarted \/ SaverStep \/ SavesEnd \/ SaveReopens
             \/ BeginStop \/ FinalSave \/ Close
    BY <2>5 DEF StrategiesStarted, SaverStep, SavesEnd, SaveReopens,
                BeginStop, FinalSave, Close
  <2>6. CASE UNCHANGED allVars
    BY <2>6 DEF allVars
  <2> QED
    BY <2>1, <2>2, <2>3, <2>4, <2>5, <2>6 DEF EngineNext
<1> QED
  BY <1>1, <1>2, PTL DEF EngineSpec, Spec

(* Under the engine too, signals of one priority keep their order.          *)
COROLLARY EngineKeepsFifo == EngineSpec => []FifoWithinPriority
  BY EngineRunsRouter, FifoIsKept, PTL

(* Under the engine too, two signals never share an order.                  *)
COROLLARY EngineSharesNoOrder == EngineSpec => []OrdersNotShared
  BY EngineRunsRouter, OrdersAreNotShared, PTL

-----------------------------------------------------------------------------
(* The steps of stop, and what is not in a snapshot.                        *)

(* What a stop leaves behind is not inductive: EngineInv adds how far the   *)
(* stop has got at each of its steps, and what the router's task may owe.   *)
EngineInv ==
  /\ EngineTypeOK
  /\ at \in {"new", "router_stopped", "closing", "stopped"} => task = "none"
  /\ at \in {"new", "closing", "stopped"} => ~dirty
  /\ at \in {"closing", "stopped"} => saver = "none"
  /\ at = "stopped" => held \subseteq {"store"}
  /\ task \in {"consuming", "reporting"} => ~dirty

LEMMA InitEngine == EngineInit => EngineInv
  BY DEF EngineInit, Init, EngineInv, EngineTypeOK, EnginePoints, SaverPoints, Resources

LEMMA RouterEngine ==
  ASSUME EngineInv, RouterWorks
  PROVE  EngineInv'
<1> USE DEF EngineInv, EngineTypeOK
<1>1. /\ UNCHANGED <<at, engineRunning, saver>>
      /\ held' \subseteq Resources /\ saving' \in BOOLEAN
      /\ dirty' = IF task' = "reporting" THEN FALSE ELSE dirty \/ known' # known
  BY DEF RouterWorks, Schedules, Resources
<1>2. task # "none"
  BY DEF RouterWorks, RouterStep, Take, Executed, ExecutionRaises, Reported
<1>3. task' = "consuming" => task = "reporting" /\ known' = known
  BY DEF RouterWorks, RouterStep, Take, Executed, ExecutionRaises, Reported, Hold
<1>4. dirty' \in BOOLEAN
  BY <1>1
<1>5. task' \in {"consuming", "reporting"} => ~dirty'
  BY <1>1, <1>3
<1> QED
  BY <1>1, <1>2, <1>4, <1>5

LEMMA NextEngine == EngineInv /\ [EngineNext]_allVars => EngineInv'
<1> SUFFICES ASSUME EngineInv, [EngineNext]_allVars PROVE EngineInv'
  OBVIOUS
<1> USE DEF EngineInv, EngineTypeOK
<1>1. CASE EngineStart
  <2>1. /\ at \in {"new", "stopped"} /\ task' = "consuming"
        /\ saver' = "created" /\ saving' = saving /\ dirty' = dirty /\ ~dirty
        /\ held' \subseteq Resources
    BY <1>1 DEF EngineStart, Start, Hold, Resources
  <2>2. \/ at' \in {"starting", "start_failed"} /\ engineRunning' = engineRunning
        \/ at' = "up" /\ engineRunning' = TRUE
    BY <1>1 DEF EngineStart, StrategiesEnd
  <2> QED
    BY <2>1, <2>2 DEF EnginePoints, SaverPoints
<1>2. CASE StrategiesStarted
  BY <1>2 DEF StrategiesStarted, StrategiesEnd, EnginePoints, vars, routerVars
<1>3. CASE Signalled
  <2>1. task' = task
    BY <1>3 DEF Signalled, Publish, IngestSignal, PublishTo, RegisterSource, routerVars
  <2> QED
    BY <1>3, <2>1 DEF Signalled, engineVars
<1>4. CASE RouterWorks
  BY <1>4, RouterEngine
<1>5. CASE SaverStep
  <2>1. task' = task /\ saver # "none" /\ UNCHANGED <<at, engineRunning, saving, held>>
    BY <1>5 DEF SaverStep, vars, routerVars
  <2>2. saver' \in SaverPoints
    BY <1>5 DEF SaverStep, SaverPoints, Test
  <2>3. dirty' = dirty \/ dirty' = FALSE
    BY <1>5 DEF SaverStep
  <2>4. CASE dirty' = dirty
    BY <2>1, <2>2, <2>4
  <2>5. CASE dirty' = FALSE
    BY <2>1, <2>2, <2>5
  <2> QED
    BY <2>3, <2>4, <2>5
<1>6. CASE BeginStop
  BY <1>6 DEF BeginStop, EnginePoints, vars, routerVars
<1>7. CASE StopRouter
  <2>1. at = "stopping" /\ UNCHANGED <<engineRunning, saver, saving, held, dirty>>
    BY <1>7 DEF StopRouter
  <2>2. \/ at' = "stop_failed" /\ task' \in {task, "dead"}
        \/ at' = "router_stopped" /\ task' = "none"
    BY <1>7 DEF StopRouter, Stop, Hold, vars, routerVars
  <2> QED
    BY <2>1, <2>2 DEF EnginePoints
<1>8. CASE FinalSave
  BY <1>8 DEF FinalSave, EnginePoints, SaverPoints, vars, routerVars
<1>9. CASE Close
  BY <1>9 DEF Close, EnginePoints, vars, routerVars
<1>10. CASE SavesEnd
  BY <1>10 DEF SavesEnd, vars, routerVars
<1>11. CASE SaveReopens
  BY <1>11 DEF SaveReopens, Resources, vars, routerVars
<1>12. CASE UNCHANGED allVars
  BY <1>12 DEF allVars, engineVars, vars, routerVars
<1> QED
  BY <1>1, <1>2, <1>3, <1>4, <1>5, <1>6, <1>7, <1>8, <1>9, <1>10, <1>11, <1>12
     DEF EngineNext

LEMMA EngineInvariant == EngineSpec => []EngineInv
  BY InitEngine, NextEngine, PTL DEF EngineSpec

(* The engine's variables are well typed, and its flag is set exactly from  *)
(* the end of start to the beginning of stop.                               *)
THEOREM EngineTypeCorrect == EngineSpec => []EngineTypeOK
<1>1. EngineInv => EngineTypeOK
  BY DEF EngineInv
<1> QED
  BY EngineInvariant, <1>1, PTL

(* No signal is taken while the outcome of an earlier one is in no          *)
(* snapshot, in any phase of start and stop.                                *)
THEOREM EachResultIsSaved == EngineSpec => []SavedBeforeNext
<1>1. EngineInv => SavedBeforeNext
  BY DEF EngineInv, SavedBeforeNext
<1> QED
  BY EngineInvariant, <1>1, PTL

(* A stop that ends has saved every change of the router, wherever it met   *)
(* its task, and leaves no task behind that can reach the exchange, and no  *)
(* connection except one a save begun earlier opens to the store again.     *)
THEOREM StopSavesAndEnds == EngineSpec => []StopIsComplete
<1>1. EngineInv => StopIsComplete
  BY DEF EngineInv, StopIsComplete
<1> QED
  BY EngineInvariant, <1>1, PTL
=============================================================================
