-------------------------- MODULE MarketFeedProofs --------------------------
(***************************************************************************)
(* The way of a tick, for any number of clients and ticks and queues of    *)
(* any capacity.                                                           *)
(*                                                                         *)
(* The list of handlers changes while the loop goes through it.  What      *)
(* keeps that harmless is HandlersInv: the publisher, the only handler     *)
(* that waits, is the first of the list, and the clients come after it.    *)
(* A tick then goes to the publisher alone, and to all clients at once     *)
(* when it is done; a client that comes or leaves meanwhile moves nobody   *)
(* past the loop's index.                                                  *)
(***************************************************************************)
EXTENDS MarketFeed, SequenceTheorems, TLAPS

Ticks       == 1..MaxTick
ClientTypes == [at : {"away", "waiting", "sending"}, sent : 0..MaxTick,
                first : BOOLEAN, queue : Seq(Ticks), gone : BOOLEAN]

TypeInv ==
  /\ phase \in Phases /\ running \in BOOLEAN /\ link \in LinkStates
  /\ produced \in 0..MaxTick /\ received \in 0..MaxTick
  /\ feedQueue \in Seq(Ticks) /\ Len(feedQueue) <= FeedQueue
  /\ loop \in [at : LoopPoints, index : Nat] /\ lastTick \in 0..MaxTick
  /\ handlers \in Seq(Clients \cup {Publisher})
  /\ client \in [Clients -> ClientTypes]
  /\ \A c \in Clients : Len(client[c].queue) <= ClientQueue

HandlersInv ==
  /\ Len(handlers) >= 1 /\ handlers[1] = Publisher
  /\ \A i \in 2..Len(handlers) : handlers[i] \in Clients
  /\ loop.at = "publishing" => loop.index = 1 /\ lastTick \in Ticks

(* Where start and stop are says what the feed and the loop can be doing.   *)
PhaseInv ==
  /\ phase = "new" => loop.at = "none"
  /\ phase \in {"loop_stopped", "stopped"} => loop.at = "ended"
  /\ phase = "stopped" => link = "closed" /\ feedQueue = <<>>
  /\ link = "closed" => phase \in {"new", "stopped"}

(* While the publisher is at work, its tick has not gone to any client, but *)
(* as the first of one that came meanwhile.                                 *)
ClientInOrder(c) ==
  /\ client[c].sent <= lastTick
  /\ Increasing(client[c].queue)
  /\ \A i \in 1..Len(client[c].queue) :
       /\ Least(client[c]) <= client[c].queue[i] /\ client[c].queue[i] <= lastTick
       /\ loop.at = "publishing" => client[c].queue[i] < lastTick
  /\ loop.at = "publishing" => Least(client[c]) <= lastTick

OrderInv ==
  /\ Increasing(feedQueue)
  /\ lastTick <= received /\ received <= produced
  /\ \A i \in 1..Len(feedQueue) : lastTick < feedQueue[i] /\ feedQueue[i] <= received
  /\ \A c \in Clients : ClientInOrder(c)

(* Between two ticks everyone has the last one.                             *)
NewestInv ==
  /\ phase # "stopped" =>
       received = IF feedQueue = <<>> THEN lastTick ELSE feedQueue[Len(feedQueue)]
  /\ \A c \in Attached : \E i \in 1..Len(handlers) : handlers[i] = c
  /\ loop.at \in {"none", "created", "waiting"} =>
       \A c \in Attached : Newest(c) = lastTick

-----------------------------------------------------------------------------
(* The queues.                                                              *)

(* PutNewest keeps a tail of the queue and ends with the new tick.          *)
LEMMA PutNewestForm ==
  ASSUME NEW q \in Seq(Ticks), NEW t \in Ticks, NEW n \in Nat \ {0}, Len(q) <= n
  PROVE  LET r == PutNewest(q, t, n)
         IN /\ r \in Seq(Ticks) /\ Len(r) \in 1..n /\ r[Len(r)] = t
            /\ \E d \in 0..1 : /\ Len(r) = Len(q) + 1 - d
                               /\ \A i \in 1..(Len(r) - 1) : i + d \in 1..Len(q) /\ r[i] = q[i + d]
<1>1. Len(q) \in Nat
  BY LenProperties
<1>2. CASE Len(q) < n
  <2>1. PutNewest(q, t, n) = Append(q, t)
    BY <1>2 DEF PutNewest
  <2>2. /\ Append(q, t) \in Seq(Ticks) /\ Len(Append(q, t)) = Len(q) + 1
        /\ \A i \in 1..Len(q) : Append(q, t)[i] = q[i]
        /\ Append(q, t)[Len(q) + 1] = t
    BY AppendProperties
  <2>3. /\ Len(Append(q, t)) = Len(q) + 1 - 0
        /\ \A i \in 1..(Len(Append(q, t)) - 1) : i + 0 \in 1..Len(q) /\ Append(q, t)[i] = q[i + 0]
    BY <1>1, <2>2
  <2>4. 0 \in 0..1
    OBVIOUS
  <2> QED
    BY <1>1, <1>2, <2>1, <2>2, <2>3, <2>4
<1>3. CASE ~(Len(q) < n)
  <2>1. q # <<>>
    BY <1>1, <1>3, EmptySeq
  <2>2. /\ Tail(q) \in Seq(Ticks) /\ Len(Tail(q)) = Len(q) - 1
        /\ \A i \in 1..Len(Tail(q)) : Tail(q)[i] = q[i + 1]
    BY <2>1, HeadTailProperties
  <2> DEFINE r == Append(Tail(q), t)
  <2>3. PutNewest(q, t, n) = r
    BY <1>3 DEF PutNewest
  <2>4. /\ r \in Seq(Ticks) /\ Len(r) = Len(q)
        /\ \A i \in 1..(Len(q) - 1) : r[i] = q[i + 1]
        /\ r[Len(q)] = t
    BY <1>1, <2>2, AppendProperties
  <2>5. Len(q) = n
    BY <1>1, <1>3
  <2>6. /\ Len(r) = Len(q) + 1 - 1
        /\ \A i \in 1..(Len(r) - 1) : i + 1 \in 1..Len(q) /\ r[i] = q[i + 1]
    BY <1>1, <2>4
  <2>7. 1 \in 0..1
    OBVIOUS
  <2> HIDE DEF r
  <2> QED
    BY <2>3, <2>4, <2>5, <2>6, <2>7
<1> QED
  BY <1>2, <1>3

(* What is newer than a queue can be put into it.                           *)
LEMMA PutNewestOrder ==
  ASSUME NEW q \in Seq(Ticks), NEW t \in Ticks, NEW n \in Nat \ {0}, Len(q) <= n,
         NEW low \in Nat, low <= t, Increasing(q),
         \A i \in 1..Len(q) : low <= q[i] /\ q[i] < t
  PROVE  /\ Increasing(PutNewest(q, t, n))
         /\ \A i \in 1..Len(PutNewest(q, t, n)) :
              low <= PutNewest(q, t, n)[i] /\ PutNewest(q, t, n)[i] <= t
<1> DEFINE r == PutNewest(q, t, n)
<1>1. r \in Seq(Ticks) /\ Len(r) \in 1..n /\ r[Len(r)] = t
  BY PutNewestForm
<1>2. PICK d \in 0..1 : /\ Len(r) = Len(q) + 1 - d
                        /\ \A i \in 1..(Len(r) - 1) : i + d \in 1..Len(q) /\ r[i] = q[i + d]
  BY PutNewestForm
<1> HIDE DEF r
<1>3. Len(q) \in Nat /\ \A i \in 1..Len(q) : q[i] \in Ticks
  BY LenProperties, ElementOfSeq
<1>4. \A i \in 1..Len(r) : low <= r[i] /\ r[i] <= t
  <2> SUFFICES ASSUME NEW i \in 1..Len(r) PROVE low <= r[i] /\ r[i] <= t
    OBVIOUS
  <2>1. CASE i = Len(r)
    BY <1>1, <2>1 DEF Ticks
  <2>2. CASE i # Len(r)
    <3>1. i \in 1..(Len(r) - 1)
      BY <1>1, <2>2
    <3>2. i + d \in 1..Len(q) /\ r[i] = q[i + d]
      BY <1>2, <3>1
    <3> QED
      BY <1>3, <3>2 DEF Ticks
  <2> QED
    BY <2>1, <2>2
<1>5. Increasing(r)
  <2> SUFFICES ASSUME NEW i \in 1..Len(r), NEW j \in 1..Len(r), i < j PROVE r[i] < r[j]
    BY DEF Increasing
  <2>1. i \in 1..(Len(r) - 1)
    BY <1>1
  <2>2. i + d \in 1..Len(q) /\ r[i] = q[i + d]
    BY <1>2, <2>1
  <2>3. CASE j = Len(r)
    BY <1>1, <2>2, <2>3
  <2>4. CASE j # Len(r)
    <3>1. j \in 1..(Len(r) - 1)
      BY <1>1, <2>4
    <3>2. j + d \in 1..Len(q) /\ r[j] = q[j + d] /\ i + d < j + d
      BY <1>2, <3>1
    <3> QED
      BY <2>2, <3>2 DEF Increasing
  <2> QED
    BY <2>3, <2>4
<1> QED
  BY <1>4, <1>5 DEF r

(* A queue from which the first tick has been taken.                        *)
LEMMA TailForm ==
  ASSUME NEW q \in Seq(Ticks), q # <<>>
  PROVE  /\ Head(q) \in Ticks /\ Head(q) = q[1] /\ Len(q) \in Nat \ {0}
         /\ Tail(q) \in Seq(Ticks) /\ Len(Tail(q)) = Len(q) - 1
         /\ \A i \in 1..Len(Tail(q)) : i + 1 \in 1..Len(q) /\ Tail(q)[i] = q[i + 1]
         /\ Increasing(q) => Increasing(Tail(q))
                             /\ \A i \in 1..Len(Tail(q)) : Head(q) < Tail(q)[i]
<1>1. /\ Head(q) \in Ticks /\ Len(q) \in Nat \ {0}
      /\ Tail(q) \in Seq(Ticks) /\ Len(Tail(q)) = Len(q) - 1
      /\ \A i \in 1..Len(Tail(q)) : Tail(q)[i] = q[i + 1]
  BY HeadTailProperties, EmptySeq
<1>2. Head(q) = q[1]
  OBVIOUS
<1>3. \A i \in 1..Len(Tail(q)) : i + 1 \in 1..Len(q)
  BY <1>1
<1>4. ASSUME Increasing(q)
      PROVE  Increasing(Tail(q)) /\ \A i \in 1..Len(Tail(q)) : Head(q) < Tail(q)[i]
  <2>1. ASSUME NEW i \in 1..Len(Tail(q)), NEW j \in 1..Len(Tail(q)), i < j
        PROVE  Tail(q)[i] < Tail(q)[j]
    <3>1. i + 1 \in 1..Len(q) /\ j + 1 \in 1..Len(q) /\ i + 1 < j + 1
      BY <1>3, <2>1
    <3>2. q[i + 1] < q[j + 1]
      BY <1>4, <3>1 DEF Increasing
    <3> QED
      BY <1>1, <3>2
  <2>2. ASSUME NEW i \in 1..Len(Tail(q)) PROVE Head(q) < Tail(q)[i]
    <3>1. 1 \in 1..Len(q) /\ i + 1 \in 1..Len(q) /\ 1 < i + 1
      BY <1>1, <1>3
    <3>2. q[1] < q[i + 1]
      BY <1>4, <3>1 DEF Increasing
    <3> QED
      BY <1>1, <1>2, <3>2
  <2> QED
    BY <2>1, <2>2 DEF Increasing
<1> QED
  BY <1>1, <1>2, <1>3, <1>4

(* The handler that is removed is a later one than the publisher, and no    *)
(* handler of anyone else goes with it.                                     *)
LEMMA RemovedForm ==
  ASSUME TypeInv, HandlersInv, NEW c \in Clients,
         NEW k \in DOMAIN handlers, handlers[k] = c
  PROVE  LET h == RemoveAt(handlers, k)
         IN /\ h \in Seq(Clients \cup {Publisher})
            /\ Len(h) >= 1 /\ h[1] = Publisher
            /\ \A i \in 2..Len(h) : h[i] \in Clients
            /\ \A d \in Clients \ {c} : (\E i \in 1..Len(handlers) : handlers[i] = d)
                                          => \E i \in 1..Len(h) : h[i] = d
<1> DEFINE a == SubSeq(handlers, 1, k - 1)
           b == SubSeq(handlers, k + 1, Len(handlers))
           H == Clients \cup {Publisher}
<1>1. /\ Len(handlers) \in Nat /\ handlers \in Seq(H) /\ k \in 1..Len(handlers)
      /\ \A i \in 1..Len(handlers) : handlers[i] \in H
  BY LenProperties, ElementOfSeq DEF TypeInv
<1>6. RemoveAt(handlers, k) = a \o b
  BY DEF RemoveAt
<1>7. k \in 2..Len(handlers)
  BY <1>1, PublisherAssumption DEF HandlersInv
<1>8. /\ a \in Seq(H) /\ Len(a) = k - 1 /\ \A i \in 1..(k - 1) : a[i] = handlers[i]
      /\ b \in Seq(H) /\ Len(b) = Len(handlers) - k
      /\ \A i \in 1..(Len(handlers) - k) : b[i] = handlers[k + i]
  <2>1. /\ a \in Seq(H) /\ Len(a) = IF 1 <= k - 1 THEN (k - 1) - 1 + 1 ELSE 0
        /\ \A i \in 1..((k - 1) - 1 + 1) : a[i] = handlers[1 + i - 1]
    BY <1>1, <1>7, SubSeqProperties
  <2>2. /\ b \in Seq(H)
        /\ Len(b) = IF k + 1 <= Len(handlers) THEN Len(handlers) - (k + 1) + 1 ELSE 0
        /\ \A i \in 1..(Len(handlers) - (k + 1) + 1) : b[i] = handlers[k + 1 + i - 1]
    <3>1. \A i \in (k + 1)..Len(handlers) : handlers[i] \in H
      BY <1>1, <1>7
    <3>2. k + 1 \in Int /\ Len(handlers) \in Int
      BY <1>1, <1>7
    <3> HIDE DEF H
    <3> QED
      BY <3>1, <3>2, SubSeqProperties
  <2> HIDE DEF a, b, H
  <2>3. Len(a) = k - 1 /\ \A i \in 1..(k - 1) : a[i] = handlers[i]
    BY <1>1, <1>7, <2>1
  <2>4. Len(b) = Len(handlers) - k /\ \A i \in 1..(Len(handlers) - k) : b[i] = handlers[k + i]
    <3>1. Len(b) = Len(handlers) - k
      BY <1>1, <1>7, <2>2
    <3>2. ASSUME NEW i \in 1..(Len(handlers) - k) PROVE b[i] = handlers[k + i]
      <4>1. i \in 1..(Len(handlers) - (k + 1) + 1) /\ k + 1 + i - 1 = k + i
        BY <1>1, <1>7
      <4> QED
        BY <2>2, <4>1
    <3> QED
      BY <3>1, <3>2
  <2> QED
    BY <2>1, <2>2, <2>3, <2>4
<1> DEFINE h == a \o b
<1>9. /\ h \in Seq(H) /\ Len(h) = Len(a) + Len(b)
      /\ \A i \in 1..(Len(a) + Len(b)) : h[i] = IF i <= Len(a) THEN a[i] ELSE b[i - Len(a)]
  <2> HIDE DEF a, b, H
  <2> QED
    BY <1>8, ConcatProperties
<1>10. RemoveAt(handlers, k) = h
  BY <1>6
<1> HIDE DEF a, b, h
<1>11. /\ Len(h) = Len(handlers) - 1
       /\ \A i \in 1..Len(h) : h[i] = IF i < k THEN handlers[i] ELSE handlers[i + 1]
  <2>1. Len(h) = Len(handlers) - 1
    BY <1>1, <1>7, <1>8, <1>9
  <2>2. ASSUME NEW i \in 1..Len(h) PROVE h[i] = IF i < k THEN handlers[i] ELSE handlers[i + 1]
    <3>1. CASE i < k
      BY <1>1, <1>7, <1>8, <1>9, <2>1, <3>1
    <3>2. CASE ~(i < k)
      <4>1. i - (k - 1) \in 1..(Len(handlers) - k) /\ k + (i - (k - 1)) = i + 1 /\ ~(i <= k - 1)
        BY <1>1, <1>7, <2>1, <3>2
      <4>2. h[i] = b[i - (k - 1)]
        BY <1>8, <1>9, <4>1
      <4> QED
        BY <1>8, <3>2, <4>1, <4>2
    <3> QED
      BY <3>1, <3>2
  <2> QED
    BY <2>1, <2>2
<1>12. Len(h) >= 1 /\ h[1] = Publisher
  BY <1>1, <1>7, <1>11 DEF HandlersInv
<1>13. \A i \in 2..Len(h) : h[i] \in Clients
  BY <1>1, <1>7, <1>11 DEF HandlersInv
<1>14. ASSUME NEW d \in Clients \ {c}, NEW i \in 1..Len(handlers), handlers[i] = d
       PROVE  \E j \in 1..Len(h) : h[j] = d
  <2>1. i # k
    BY <1>7, <1>14
  <2>2. CASE i < k
    <3>1. i \in 1..Len(h) /\ h[i] = d
      BY <1>1, <1>7, <1>11, <1>14, <2>2
    <3> QED
      BY <3>1
  <2>3. CASE i > k
    <3>1. i - 1 \in 1..Len(h) /\ h[i - 1] = d
      BY <1>1, <1>7, <1>11, <1>14, <2>3
    <3> QED
      BY <3>1
  <2> QED
    BY <1>1, <1>7, <2>1, <2>2, <2>3
<1> QED
  BY <1>9, <1>10, <1>12, <1>13, <1>14

-----------------------------------------------------------------------------
(* Types.                                                                   *)

LEMMA InitInv == Init => TypeInv /\ HandlersInv /\ PhaseInv /\ OrderInv /\ NewestInv
<1> SUFFICES ASSUME Init PROVE TypeInv /\ HandlersInv /\ PhaseInv /\ OrderInv /\ NewestInv
  OBVIOUS
<1>1. /\ <<>> \in Seq(Ticks) /\ Len(<<>>) = 0
      /\ <<Publisher>> \in Seq(Clients \cup {Publisher}) /\ Len(<<Publisher>>) = 1
      /\ <<Publisher>>[1] = Publisher
  BY EmptySeq
<1>2. 0 \in 0..MaxTick
  BY MaxTickAssumption
<1>3. Away \in ClientTypes /\ \A c \in Clients : client[c] = Away
  BY <1>1, <1>2 DEF Init, Away, ClientTypes
<1>4. TypeInv
  <2>1. client \in [Clients -> ClientTypes]
    BY <1>3 DEF Init
  <2>2. \A c \in Clients : Len(client[c].queue) <= ClientQueue
    BY <1>1, <1>3, CapacityAssumption DEF Away
  <2>3. /\ phase \in Phases /\ running \in BOOLEAN /\ link \in LinkStates
        /\ loop \in [at : LoopPoints, index : Nat]
    BY DEF Init, Phases, LinkStates, LoopPoints
  <2>4. feedQueue \in Seq(Ticks) /\ Len(feedQueue) <= FeedQueue
    BY <1>1, CapacityAssumption DEF Init
  <2> QED
    BY <1>1, <1>2, <2>1, <2>2, <2>3, <2>4 DEF Init, TypeInv
<1>5. HandlersInv
  <2>1. Len(handlers) = 1 /\ handlers[1] = Publisher /\ loop.at = "none"
    BY <1>1 DEF Init
  <2> QED
    BY <2>1 DEF HandlersInv
<1>6. PhaseInv
  BY DEF Init, PhaseInv
<1>7. OrderInv
  BY <1>1, <1>3 DEF Init, OrderInv, ClientInOrder, Increasing, Away, Least
<1>8. NewestInv
  BY <1>3 DEF Init, NewestInv, Attached, Away
<1> QED
  BY <1>4, <1>5, <1>6, <1>7, <1>8

(* What a client's record holds.                                            *)
LEMMA ClientForm ==
  ASSUME TypeInv, NEW c \in Clients
  PROVE  /\ client[c] \in ClientTypes
         /\ client[c].at \in {"away", "waiting", "sending"}
         /\ client[c].sent \in 0..MaxTick /\ client[c].first \in BOOLEAN
         /\ client[c].queue \in Seq(Ticks) /\ Least(client[c]) \in Nat
         /\ Len(client[c].queue) \in Nat /\ Len(client[c].queue) <= ClientQueue
         /\ \A i \in 1..Len(client[c].queue) : client[c].queue[i] \in Ticks
<1>1. client[c] \in ClientTypes /\ Len(client[c].queue) <= ClientQueue
  BY DEF TypeInv
<1>2. client[c].queue \in Seq(Ticks)
  BY <1>1 DEF ClientTypes
<1>3. Least(client[c]) \in Nat
  BY <1>1, MaxTickAssumption DEF ClientTypes, Least
<1> QED
  BY <1>1, <1>2, <1>3, LenProperties, ElementOfSeq DEF ClientTypes

LEMMA FeedForm ==
  ASSUME TypeInv
  PROVE  /\ feedQueue \in Seq(Ticks) /\ Len(feedQueue) \in Nat /\ Len(feedQueue) <= FeedQueue
         /\ \A i \in 1..Len(feedQueue) : feedQueue[i] \in Ticks
         /\ feedQueue # <<>> => Len(feedQueue) >= 1
<1>1. feedQueue \in Seq(Ticks) /\ Len(feedQueue) <= FeedQueue
  BY DEF TypeInv
<1>2. feedQueue # <<>> => Len(feedQueue) \in Nat \ {0}
  BY <1>1, EmptySeq
<1> QED
  BY <1>1, <1>2, LenProperties, ElementOfSeq

(* The first handler of a tick is the publisher, who is waited for.         *)
LEMMA FirstDispatch ==
  ASSUME TypeInv, HandlersInv, NEW t, Dispatch(1, t)
  PROVE  loop' = [at |-> "publishing", index |-> 1] /\ client' = client
<1> DEFINE W == {i \in 1..Len(handlers) : handlers[i] = Publisher}
<1>1. Len(handlers) \in Nat /\ W = {1}
  <2>1. Len(handlers) \in Nat
    BY LenProperties DEF TypeInv
  <2> QED
    BY <2>1, PublisherAssumption DEF HandlersInv
<1>2. /\ client' = Pushed(SubSeq(handlers, 1, 1), t)
      /\ loop' = [at |-> "publishing", index |-> 1]
  BY <1>1 DEF Dispatch
<1>3. Len(SubSeq(handlers, 1, 1)) = 1 /\ SubSeq(handlers, 1, 1)[1] = Publisher
  <2>1. \A i \in 1..1 : handlers[i] \in {Publisher}
    BY DEF HandlersInv
  <2> QED
    BY <2>1, SubSeqProperties DEF HandlersInv
<1>4. \A c \in Clients : ~Contains(SubSeq(handlers, 1, 1), c)
  BY <1>3, PublisherAssumption DEF Contains
<1>5. client' = [c \in Clients |-> client[c]]
  BY <1>2, <1>4 DEF Pushed
<1> QED
  BY <1>2, <1>5 DEF TypeInv

Served == {c \in Clients : \E i \in 2..Len(handlers) : handlers[i] = c}

(* The handlers after it are the clients, who all get the tick at once.     *)
LEMMA RestDispatch ==
  ASSUME TypeInv, HandlersInv, loop.at = "publishing", NEW t, Dispatch(loop.index + 1, t)
  PROVE  /\ loop' = [at |-> Test, index |-> 0]
         /\ client' = [c \in Clients |->
              IF c \in Served
                THEN [client[c] EXCEPT !.queue = PutNewest(@, t, ClientQueue)]
                ELSE client[c]]
<1> DEFINE W == {i \in 2..Len(handlers) : handlers[i] = Publisher}
           h == SubSeq(handlers, 2, Len(handlers))
           H == Clients \cup {Publisher}
<1>1. /\ Len(handlers) \in Nat /\ loop.index + 1 = 2
      /\ \A i \in 1..Len(handlers) : handlers[i] \in H
  BY LenProperties, ElementOfSeq DEF TypeInv, HandlersInv
<1>2. W = {}
  BY PublisherAssumption DEF HandlersInv
<1>3. client' = Pushed(h, t) /\ loop' = [at |-> Test, index |-> 0]
  BY <1>1, <1>2 DEF Dispatch
<1>4. /\ Len(h) = Len(handlers) - 1
      /\ \A i \in 1..(Len(handlers) - 1) : h[i] = handlers[i + 1]
  <2>1. \A i \in 2..Len(handlers) : handlers[i] \in H
    BY <1>1
  <2>2. /\ Len(h) = IF 2 <= Len(handlers) THEN Len(handlers) - 2 + 1 ELSE 0
        /\ \A i \in 1..(Len(handlers) - 2 + 1) : h[i] = handlers[2 + i - 1]
    BY <1>1, <2>1, SubSeqProperties
  <2> HIDE DEF h
  <2>3. Len(h) = Len(handlers) - 1
    <3> DEFINE n == Len(handlers)
    <3>1. n \in Nat /\ n >= 1
      BY <1>1 DEF HandlersInv
    <3>2. CASE 2 <= Len(handlers)
      BY <2>2, <3>1, <3>2
    <3>3. CASE Len(handlers) = 1
      <4>1. ~(2 <= Len(handlers)) /\ Len(handlers) - 1 = 0
        BY <3>3
      <4> QED
        BY <2>2, <4>1
    <3> HIDE DEF n
    <3>4. 2 <= n \/ n = 1
      BY <3>1
    <3> QED
      BY <3>2, <3>3, <3>4, Zenon DEF n
  <2>4. ASSUME NEW i \in 1..(Len(handlers) - 1) PROVE h[i] = handlers[i + 1]
    <3>1. i \in 1..(Len(handlers) - 2 + 1) /\ 2 + i - 1 = i + 1
      BY <1>1
    <3> QED
      BY <2>2, <3>1
  <2> QED
    BY <2>3, <2>4
<1> HIDE DEF h
<1>5. \A c \in Clients : Contains(h, c) <=> c \in Served
  <2> SUFFICES ASSUME NEW c \in Clients PROVE Contains(h, c) <=> c \in Served
    OBVIOUS
  <2>1. ASSUME NEW i \in 1..Len(h), h[i] = c PROVE c \in Served
    <3>1. i + 1 \in 2..Len(handlers) /\ handlers[i + 1] = c
      BY <1>1, <1>4, <2>1
    <3> QED
      BY <3>1 DEF Served
  <2>2. ASSUME NEW i \in 2..Len(handlers), handlers[i] = c PROVE Contains(h, c)
    <3>1. i - 1 \in 1..Len(h) /\ h[i - 1] = c
      BY <1>1, <1>4, <2>2
    <3> QED
      BY <3>1 DEF Contains
  <2> QED
    BY <2>1, <2>2 DEF Contains, Served
<1>6. client' = [c \in Clients |->
        IF Contains(h, c) THEN [client[c] EXCEPT !.queue = PutNewest(@, t, ClientQueue)]
                          ELSE client[c]]
  BY <1>3 DEF Pushed
<1> DEFINE g(c) == [client[c] EXCEPT !.queue = PutNewest(@, t, ClientQueue)]
<1> HIDE DEF g
<1>7. client' = [c \in Clients |-> IF Contains(h, c) THEN g(c) ELSE client[c]]
  BY <1>6 DEF g
<1>8. \A c \in Clients : (IF Contains(h, c) THEN g(c) ELSE client[c])
                            = (IF c \in Served THEN g(c) ELSE client[c])
  BY <1>5
<1>9. client' = [c \in Clients |-> IF c \in Served THEN g(c) ELSE client[c]]
  BY <1>7, <1>8, Zenon
<1> QED
  BY <1>3, <1>9 DEF g

(* A step that gives one client a record.                                   *)
LEMMA OneClientTypes ==
  ASSUME TypeInv, NEW c \in Clients, NEW r \in ClientTypes,
         client' = [client EXCEPT ![c] = r], Len(r.queue) <= ClientQueue
  PROVE  /\ client' \in [Clients -> ClientTypes]
         /\ \A d \in Clients : Len(client'[d].queue) <= ClientQueue
         /\ \A d \in Clients : client'[d] = IF d = c THEN r ELSE client[d]
<1>1. client' \in [Clients -> ClientTypes]
  BY DEF TypeInv
<1>2. \A d \in Clients : client'[d] = IF d = c THEN r ELSE client[d]
  BY DEF TypeInv
<1>3. \A d \in Clients : Len(client'[d].queue) <= ClientQueue
  BY <1>2, ClientForm
<1> QED
  BY <1>1, <1>2, <1>3

(* The records the steps of a client make.                                  *)
LEMMA ClientRecords ==
  ASSUME TypeInv, NEW c \in Clients
  PROVE  /\ Send(c) => \E r \in ClientTypes :
              /\ client' = [client EXCEPT ![c] = r]
              /\ r.at = "sending" /\ r.sent = Head(client[c].queue) /\ ~r.first
              /\ r.queue = Tail(client[c].queue) /\ client[c].queue # <<>>
              /\ Len(r.queue) <= ClientQueue
         /\ Sent(c) \/ HangUp(c) => \E r \in ClientTypes :
              /\ client' = [client EXCEPT ![c] = r]
              /\ r.sent = client[c].sent /\ r.queue = client[c].queue
              /\ r.first = client[c].first /\ r.at # "away" /\ client[c].at # "away"
         /\ Away \in ClientTypes
         /\ Attach(c) => \E r \in ClientTypes :
              /\ client' = [client EXCEPT ![c] = r]
              /\ r.sent = lastTick /\ r.first /\ r.queue = <<>> /\ r.at # "away"
<1>1. /\ client[c] \in ClientTypes /\ Len(client[c].queue) \in Nat
      /\ Len(client[c].queue) <= ClientQueue
  BY ClientForm
<1>2. ASSUME Send(c)
      PROVE  \E r \in ClientTypes :
              /\ client' = [client EXCEPT ![c] = r]
              /\ r.at = "sending" /\ r.sent = Head(client[c].queue) /\ ~r.first
              /\ r.queue = Tail(client[c].queue) /\ client[c].queue # <<>>
              /\ Len(r.queue) <= ClientQueue
  <2> DEFINE r == [client[c] EXCEPT !.at = "sending", !.queue = Tail(@),
                                    !.sent = Head(client[c].queue), !.first = FALSE]
  <2>1. client[c].queue # <<>> /\ client[c].queue \in Seq(Ticks)
    BY <1>1, <1>2 DEF Send, ClientTypes
  <2>2. /\ Head(client[c].queue) \in 0..MaxTick /\ Tail(client[c].queue) \in Seq(Ticks)
        /\ Len(Tail(client[c].queue)) <= ClientQueue
    <3> DEFINE q == client[c].queue
               n == Len(q)
               m == Len(Tail(q))
    <3>1. Head(q) \in Ticks /\ Tail(q) \in Seq(Ticks) /\ m = n - 1
      <4> HIDE DEF q
      <4> QED
        BY <2>1, TailForm DEF q
    <3>2. n \in Nat /\ n <= ClientQueue /\ ClientQueue \in Nat
      BY <1>1, CapacityAssumption
    <3> HIDE DEF q, n, m
    <3>3. m <= ClientQueue
      BY <3>1, <3>2
    <3>4. Head(q) \in 0..MaxTick
      BY <3>1, MaxTickAssumption DEF Ticks
    <3> QED
      BY <3>1, <3>3, <3>4 DEF q, m
  <2>3. /\ r \in ClientTypes /\ r.at = "sending" /\ r.sent = Head(client[c].queue)
        /\ ~r.first /\ r.queue = Tail(client[c].queue)
    BY <1>1, <2>2 DEF ClientTypes
  <2>4. client' = [client EXCEPT ![c] = r]
    BY <1>2 DEF Send, TypeInv, ClientTypes
  <2> QED
    BY <2>1, <2>2, <2>3, <2>4
<1>3. ASSUME Sent(c) \/ HangUp(c)
      PROVE  \E r \in ClientTypes :
              /\ client' = [client EXCEPT ![c] = r]
              /\ r.sent = client[c].sent /\ r.queue = client[c].queue
              /\ r.first = client[c].first /\ r.at # "away" /\ client[c].at # "away"
  <2>1. CASE Sent(c)
    <3> DEFINE r == [client[c] EXCEPT !.at = "waiting"]
    <3>1. r \in ClientTypes /\ r.sent = client[c].sent /\ r.queue = client[c].queue
          /\ r.first = client[c].first /\ r.at # "away"
      BY <1>1 DEF ClientTypes
    <3>2. client' = [client EXCEPT ![c] = r] /\ client[c].at # "away"
      BY <2>1 DEF Sent, TypeInv
    <3> QED
      BY <3>1, <3>2
  <2>2. CASE HangUp(c)
    <3> DEFINE r == [client[c] EXCEPT !.gone = TRUE]
    <3>1. r \in ClientTypes /\ r.sent = client[c].sent /\ r.queue = client[c].queue
          /\ r.first = client[c].first /\ r.at = client[c].at
      BY <1>1 DEF ClientTypes
    <3>2. client' = [client EXCEPT ![c] = r] /\ client[c].at # "away"
      BY <2>2 DEF HangUp, Attached, TypeInv
    <3> QED
      BY <3>1, <3>2
  <2> QED
    BY <1>3, <2>1, <2>2
<1>4. Away \in ClientTypes
  BY EmptySeq, MaxTickAssumption DEF Away, ClientTypes
<1>5. ASSUME Attach(c)
      PROVE  \E r \in ClientTypes :
              /\ client' = [client EXCEPT ![c] = r]
              /\ r.sent = lastTick /\ r.first /\ r.queue = <<>> /\ r.at # "away"
  <2> DEFINE p == IF lastTick = 0 THEN "waiting" ELSE "sending"
             r == [Away EXCEPT !.at = p, !.sent = lastTick]
  <2>1. r \in ClientTypes /\ r.sent = lastTick /\ r.first /\ r.queue = <<>> /\ r.at # "away"
    <3>1. p \in {"waiting", "sending"} /\ lastTick \in 0..MaxTick
      BY DEF TypeInv
    <3> HIDE DEF p
    <3>2. Away.queue = <<>> /\ Away.first
      BY DEF Away
    <3>3. r \in ClientTypes /\ r.at = p /\ r.sent = lastTick /\ r.queue = Away.queue
          /\ r.first = Away.first
      BY <1>4, <3>1 DEF ClientTypes
    <3> QED
      BY <3>1, <3>2, <3>3
  <2>2. client' = [client EXCEPT ![c] = r]
    BY <1>5 DEF Attach
  <2> QED
    BY <2>1, <2>2
<1> QED
  BY <1>2, <1>3, <1>4, <1>5

(* The loop serves the clients: their records stay records.                 *)
LEMMA ServedTypes ==
  ASSUME TypeInv, NEW t \in Ticks,
         client' = [c \in Clients |->
           IF c \in Served THEN [client[c] EXCEPT !.queue = PutNewest(@, t, ClientQueue)]
                           ELSE client[c]]
  PROVE  /\ client' \in [Clients -> ClientTypes]
         /\ \A c \in Clients : Len(client'[c].queue) <= ClientQueue
         /\ \A c \in Clients :
              /\ client'[c].sent = client[c].sent /\ client'[c].at = client[c].at
              /\ client'[c].first = client[c].first
              /\ client'[c].queue = IF c \in Served
                                      THEN PutNewest(client[c].queue, t, ClientQueue)
                                      ELSE client[c].queue
<1> SUFFICES ASSUME NEW c \in Clients
             PROVE  /\ client'[c] \in ClientTypes /\ Len(client'[c].queue) <= ClientQueue
                    /\ client'[c].sent = client[c].sent /\ client'[c].at = client[c].at
                    /\ client'[c].first = client[c].first
                    /\ client'[c].queue = IF c \in Served
                                            THEN PutNewest(client[c].queue, t, ClientQueue)
                                            ELSE client[c].queue
  OBVIOUS
<1> DEFINE q == PutNewest(client[c].queue, t, ClientQueue)
<1>1. /\ client[c] \in ClientTypes /\ client[c].queue \in Seq(Ticks)
      /\ Len(client[c].queue) <= ClientQueue
  BY ClientForm
<1>2. q \in Seq(Ticks) /\ Len(q) \in 1..ClientQueue
  BY <1>1, PutNewestForm, CapacityAssumption
<1>3. Len(q) <= ClientQueue
  BY <1>2, CapacityAssumption
<1> HIDE DEF q
<1>4. CASE c \in Served
  <2>1. client'[c] = [client[c] EXCEPT !.queue = q]
    BY <1>4 DEF q
  <2>2. /\ client'[c] \in ClientTypes /\ client'[c].queue = q
        /\ client'[c].sent = client[c].sent /\ client'[c].at = client[c].at
        /\ client'[c].first = client[c].first
    BY <1>1, <1>2, <2>1 DEF ClientTypes
  <2> QED
    BY <1>3, <1>4, <2>2 DEF q
<1>5. CASE c \notin Served
  BY <1>1, <1>5
<1> QED
  BY <1>4, <1>5

(* Every step: types and the form of the list of handlers.                  *)
LEMMA TypeStep ==
  ASSUME TypeInv, HandlersInv, [Next]_vars
  PROVE  TypeInv' /\ HandlersInv'
<1> USE DEF engineVars, feedVars, loopVars
<1>1. \A c \in Clients : Len(client[c].queue) <= ClientQueue
  BY DEF TypeInv
<1>2. ASSUME Start \/ StrategiesStarted \/ BeginStop \/ StopLoop \/ LinkChanges \/ LoopBegins
             \/ UNCHANGED vars
      PROVE  TypeInv' /\ HandlersInv'
  <2>1. /\ client' = client /\ handlers' = handlers /\ feedQueue' = feedQueue
        /\ produced' = produced /\ received' = received /\ lastTick' = lastTick
    BY <1>2 DEF Start, StrategiesStarted, BeginStop, StopLoop, LinkChanges, LoopBegins, vars
  <2>2. /\ phase' \in Phases /\ running' \in BOOLEAN /\ link' \in LinkStates
        /\ loop' \in [at : LoopPoints, index : Nat]
        /\ loop'.at = "publishing" => loop.at = "publishing" /\ loop'.index = loop.index
    BY <1>2 DEF Start, StrategiesStarted, BeginStop, StopLoop, LinkChanges, LoopBegins, vars,
                TypeInv, Phases, LinkStates, LoopPoints, Test
  <2>3. TypeInv'
    BY <2>1, <2>2 DEF TypeInv
  <2> QED
    BY <2>1, <2>2, <2>3 DEF HandlersInv
<1>3. ASSUME Disconnect \/ Lose PROVE TypeInv' /\ HandlersInv'
  <2>1. /\ client' = client /\ handlers' = handlers /\ loop' = loop
        /\ received' = received /\ lastTick' = lastTick /\ running' = running
    BY <1>3 DEF Disconnect, Lose
  <2>2. phase' \in Phases /\ link' \in LinkStates /\ produced' \in 0..MaxTick
    BY <1>3, MaxTickAssumption DEF Disconnect, Lose, TypeInv, Phases, LinkStates
  <2>3. feedQueue' \in Seq(Ticks) /\ Len(feedQueue') <= FeedQueue
    <3>1. <<>> \in Seq(Ticks) /\ Len(<<>>) <= FeedQueue
      BY EmptySeq, CapacityAssumption
    <3> QED
      BY <1>3, <3>1 DEF Disconnect, Lose, TypeInv
  <2>4. TypeInv'
    BY <2>1, <2>2, <2>3 DEF TypeInv
  <2> QED
    BY <2>1, <2>4 DEF HandlersInv
<1>4. ASSUME Arrive PROVE TypeInv' /\ HandlersInv'
  <2>1. /\ client' = client /\ handlers' = handlers /\ loop' = loop /\ link' = link
        /\ phase' = phase /\ lastTick' = lastTick /\ running' = running
        /\ received' = produced' /\ feedQueue' = PutNewest(feedQueue, produced', FeedQueue)
    BY <1>4 DEF Arrive
  <2>2. produced' \in Ticks /\ produced' \in 0..MaxTick
    BY <1>4, MaxTickAssumption DEF Arrive, TypeInv, Ticks
  <2>3. feedQueue' \in Seq(Ticks) /\ Len(feedQueue') \in 1..FeedQueue
    BY <2>1, <2>2, FeedForm, PutNewestForm, CapacityAssumption
  <2>4. Len(feedQueue') <= FeedQueue
    BY <2>3, CapacityAssumption
  <2>5. TypeInv'
    BY <2>1, <2>2, <2>3, <2>4 DEF TypeInv
  <2> QED
    BY <2>1, <2>5 DEF HandlersInv
<1>5. ASSUME Take PROVE TypeInv' /\ HandlersInv'
  <2>1. /\ handlers' = handlers /\ link' = link /\ phase' = phase /\ running' = running
        /\ produced' = produced /\ received' = received
        /\ feedQueue # <<>> /\ lastTick' = Head(feedQueue) /\ feedQueue' = Tail(feedQueue)
        /\ Dispatch(1, lastTick')
    BY <1>5 DEF Take
  <2>2. loop' = [at |-> "publishing", index |-> 1] /\ client' = client
    BY <2>1, FirstDispatch
  <2>3. lastTick' \in 0..MaxTick /\ feedQueue' \in Seq(Ticks) /\ Len(feedQueue') <= FeedQueue
    <3> DEFINE n == Len(feedQueue)
               m == Len(Tail(feedQueue))
    <3>1. Head(feedQueue) \in Ticks /\ Tail(feedQueue) \in Seq(Ticks) /\ m = n - 1
      BY <2>1, FeedForm, TailForm
    <3>2. n \in Nat /\ n <= FeedQueue /\ FeedQueue \in Nat
      BY FeedForm, CapacityAssumption
    <3> HIDE DEF n, m
    <3>3. m <= FeedQueue
      BY <3>1, <3>2
    <3>4. Head(feedQueue) \in 0..MaxTick
      BY <3>1, MaxTickAssumption DEF Ticks
    <3> QED
      BY <2>1, <3>1, <3>3, <3>4 DEF m
  <2>4. loop' \in [at : LoopPoints, index : Nat]
    BY <2>2 DEF LoopPoints
  <2>5. TypeInv'
    BY <2>1, <2>2, <2>3, <2>4 DEF TypeInv
  <2>6. loop'.index = 1 /\ lastTick' \in Ticks
    BY <2>1, <2>2, FeedForm, TailForm
  <2> QED
    BY <2>1, <2>5, <2>6 DEF HandlersInv
<1>6. ASSUME PublishEnds PROVE TypeInv' /\ HandlersInv'
  <2>1. /\ handlers' = handlers /\ link' = link /\ phase' = phase /\ running' = running
        /\ produced' = produced /\ received' = received /\ feedQueue' = feedQueue
        /\ lastTick' = lastTick
        /\ loop.at = "publishing" /\ Dispatch(loop.index + 1, lastTick)
    BY <1>6 DEF PublishEnds
  <2>2. /\ loop' = [at |-> Test, index |-> 0]
        /\ client' = [c \in Clients |->
             IF c \in Served
               THEN [client[c] EXCEPT !.queue = PutNewest(@, lastTick, ClientQueue)]
               ELSE client[c]]
    BY <2>1, RestDispatch
  <2>3. /\ client' \in [Clients -> ClientTypes]
        /\ \A c \in Clients : Len(client'[c].queue) <= ClientQueue
    BY <2>1, <2>2, ServedTypes DEF HandlersInv
  <2>4. loop' \in [at : LoopPoints, index : Nat] /\ loop'.at # "publishing"
    BY <2>2 DEF LoopPoints, Test
  <2>5. TypeInv'
    BY <2>1, <2>3, <2>4 DEF TypeInv
  <2> QED
    BY <2>1, <2>4, <2>5 DEF HandlersInv
<1>7. ASSUME NEW c \in Clients, Attach(c) PROVE TypeInv' /\ HandlersInv'
  <2>1. /\ UNCHANGED <<engineVars, feedVars, loopVars>>
        /\ handlers' = Append(handlers, c)
    BY <1>7 DEF Attach, OnTick
  <2>2. PICK r \in ClientTypes : client' = [client EXCEPT ![c] = r] /\ r.queue = <<>>
    BY <1>7, ClientRecords
  <2>3. Len(r.queue) <= ClientQueue
    BY <2>2, CapacityAssumption
  <2>4. /\ client' \in [Clients -> ClientTypes]
        /\ \A d \in Clients : Len(client'[d].queue) <= ClientQueue
    BY <2>2, <2>3, OneClientTypes
  <2>5. /\ handlers' \in Seq(Clients \cup {Publisher}) /\ Len(handlers') = Len(handlers) + 1
        /\ \A i \in 1..Len(handlers) : handlers'[i] = handlers[i]
        /\ handlers'[Len(handlers) + 1] = c
    BY <2>1, AppendProperties DEF TypeInv
  <2>6. TypeInv'
    BY <2>1, <2>4, <2>5 DEF TypeInv
  <2>7. HandlersInv'
    <3> DEFINE n == Len(handlers)
               m == Len(handlers')
    <3>1. /\ n \in Nat /\ n >= 1 /\ m = n + 1 /\ handlers[1] = Publisher
          /\ \A i \in 2..n : handlers[i] \in Clients
          /\ \A i \in 1..n : handlers'[i] = handlers[i]
          /\ handlers'[n + 1] = c
      BY <2>5, LenProperties DEF TypeInv, HandlersInv
    <3> HIDE DEF n, m
    <3>2. /\ m >= 1 /\ handlers'[1] = Publisher
          /\ \A i \in 2..m : handlers'[i] \in Clients
      BY <3>1
    <3> QED
      BY <2>1, <3>2 DEF HandlersInv, m
  <2> QED
    BY <2>6, <2>7
<1>8. ASSUME NEW c \in Clients, Send(c) \/ Sent(c) \/ HangUp(c) PROVE TypeInv' /\ HandlersInv'
  <2>1. UNCHANGED <<engineVars, feedVars, loopVars, handlers>>
    BY <1>8 DEF Send, Sent, HangUp
  <2>2. \E r \in ClientTypes : client' = [client EXCEPT ![c] = r] /\ Len(r.queue) <= ClientQueue
    BY <1>1, <1>8, ClientRecords
  <2>3. /\ client' \in [Clients -> ClientTypes]
        /\ \A d \in Clients : Len(client'[d].queue) <= ClientQueue
    BY <2>2, OneClientTypes
  <2> QED
    BY <2>1, <2>3 DEF TypeInv, HandlersInv
<1>9. ASSUME NEW c \in Clients, Detach(c) PROVE TypeInv' /\ HandlersInv'
  <2>1. /\ UNCHANGED <<engineVars, feedVars, loopVars>>
        /\ client' = [client EXCEPT ![c] = Away]
    BY <1>9 DEF Detach
  <2>2. PICK k \in DOMAIN handlers : handlers[k] = c /\ handlers' = RemoveAt(handlers, k)
    BY <1>9 DEF Detach
  <2>3. /\ handlers' \in Seq(Clients \cup {Publisher})
        /\ Len(handlers') >= 1 /\ handlers'[1] = Publisher
        /\ \A i \in 2..Len(handlers') : handlers'[i] \in Clients
    BY <2>2, RemovedForm
  <2>4. Away \in ClientTypes /\ Len(Away.queue) <= ClientQueue
    BY ClientRecords, CapacityAssumption DEF Away
  <2>5. /\ client' \in [Clients -> ClientTypes]
        /\ \A d \in Clients : Len(client'[d].queue) <= ClientQueue
    BY <2>1, <2>4, OneClientTypes
  <2> QED
    BY <2>1, <2>3, <2>5 DEF TypeInv, HandlersInv
<1> QED
  BY <1>2, <1>3, <1>4, <1>5, <1>6, <1>7, <1>8, <1>9 DEF Next, LoopStep, ClientStep

-----------------------------------------------------------------------------
(* Start and stop.                                                          *)

LEMMA PhaseStep ==
  ASSUME TypeInv, HandlersInv, PhaseInv, [Next]_vars
  PROVE  PhaseInv'
<1> USE DEF PhaseInv, engineVars, feedVars, loopVars
<1>1. ASSUME Start \/ StrategiesStarted \/ BeginStop \/ StopLoop \/ Disconnect
      PROVE  PhaseInv'
  <2>1. loop' = loop \/ loop' = [loop EXCEPT !.at = "created"] \/ loop' = [loop EXCEPT !.at = "ended"]
    BY <1>1 DEF Start, StrategiesStarted, BeginStop, StopLoop, Disconnect
  <2> QED
    BY <1>1 DEF Start, StrategiesStarted, BeginStop, StopLoop, Disconnect, TypeInv
<1>2. ASSUME LinkChanges \/ Arrive \/ Lose PROVE PhaseInv'
  BY <1>2 DEF LinkChanges, Arrive, Lose
<1>3. ASSUME LoopBegins PROVE PhaseInv'
  BY <1>3 DEF LoopBegins, TypeInv
<1>4. ASSUME Take PROVE PhaseInv'
  BY <1>4 DEF Take
<1>5. ASSUME PublishEnds PROVE PhaseInv'
  BY <1>5 DEF PublishEnds
<1>6. ASSUME NEW c \in Clients, Attach(c) \/ HangUp(c) \/ ClientStep(c) PROVE PhaseInv'
  BY <1>6 DEF Attach, HangUp, ClientStep, Send, Sent, Detach
<1>7. ASSUME UNCHANGED vars PROVE PhaseInv'
  BY <1>7 DEF vars
<1> QED
  BY <1>1, <1>2, <1>3, <1>4, <1>5, <1>6, <1>7 DEF Next, LoopStep

-----------------------------------------------------------------------------
(* The order of ticks.                                                      *)

(* A step that leaves loop, last tick and the other clients alone.          *)
LEMMA OneClientInOrder ==
  ASSUME TypeInv, OrderInv, NEW c \in Clients, NEW r \in ClientTypes,
         client' = [client EXCEPT ![c] = r], Len(r.queue) <= ClientQueue,
         UNCHANGED <<loop, lastTick>>, r.sent <= lastTick, Increasing(r.queue),
         \A i \in 1..Len(r.queue) : /\ Least(r) <= r.queue[i] /\ r.queue[i] <= lastTick
                                    /\ loop.at = "publishing" => r.queue[i] < lastTick,
         loop.at = "publishing" => Least(r) <= lastTick
  PROVE  \A d \in Clients : ClientInOrder(d)'
<1> SUFFICES ASSUME NEW d \in Clients PROVE ClientInOrder(d)'
  OBVIOUS
<1>1. client'[d] = IF d = c THEN r ELSE client[d]
  BY OneClientTypes
<1>2. CASE d = c
  BY <1>1, <1>2 DEF ClientInOrder
<1>3. CASE d # c
  <2>1. client'[d] = client[d] /\ ClientInOrder(d)
    BY <1>1, <1>3 DEF OrderInv
  <2> QED
    BY <2>1 DEF ClientInOrder
<1> QED
  BY <1>2, <1>3

LEMMA OrderStep ==
  ASSUME TypeInv, HandlersInv, OrderInv, [Next]_vars
  PROVE  OrderInv'
<1> USE DEF engineVars, feedVars, loopVars
<1>1. ASSUME Start \/ StrategiesStarted \/ BeginStop \/ StopLoop \/ LinkChanges \/ LoopBegins
             \/ Disconnect \/ Lose \/ UNCHANGED vars
      PROVE  OrderInv'
  <2>1. /\ client' = client /\ received' = received /\ lastTick' = lastTick
        /\ loop'.at = "publishing" => loop.at = "publishing"
        /\ feedQueue' = feedQueue \/ feedQueue' = <<>>
    BY <1>1 DEF Start, StrategiesStarted, BeginStop, StopLoop, LinkChanges, LoopBegins,
                Disconnect, Lose, vars, TypeInv, Test
  <2>2. produced' >= produced
    BY <1>1 DEF Start, StrategiesStarted, BeginStop, StopLoop, LinkChanges, LoopBegins,
                Disconnect, Lose, vars, TypeInv
  <2>3. \A c \in Clients : ClientInOrder(c)'
    BY <2>1 DEF OrderInv, ClientInOrder
  <2>4. Increasing(feedQueue') /\ \A i \in 1..Len(feedQueue') :
                                     lastTick < feedQueue'[i] /\ feedQueue'[i] <= received
    <3>1. CASE feedQueue' = <<>>
      BY <3>1, EmptySeq DEF Increasing
    <3>2. CASE feedQueue' = feedQueue
      BY <3>2 DEF OrderInv
    <3> QED
      BY <2>1, <3>1, <3>2
  <2>5. received <= produced'
    <3>1. produced \in Nat /\ received \in Nat /\ received <= produced
      BY DEF OrderInv, TypeInv
    <3>2. produced' = produced \/ produced' = produced + 1
      BY <1>1 DEF Start, StrategiesStarted, BeginStop, StopLoop, LinkChanges, LoopBegins,
                  Disconnect, Lose, vars
    <3> QED
      BY <3>1, <3>2
  <2> QED
    BY <2>1, <2>3, <2>4, <2>5 DEF OrderInv, Increasing
<1>2. ASSUME Arrive PROVE OrderInv'
  <2>1. /\ client' = client /\ loop' = loop /\ lastTick' = lastTick
        /\ produced' = produced + 1 /\ received' = produced'
        /\ feedQueue' = PutNewest(feedQueue, produced', FeedQueue)
    BY <1>2 DEF Arrive
  <2> DEFINE t == produced'
             low == lastTick + 1
  <2>2. t \in Ticks
    BY <1>2, MaxTickAssumption DEF Arrive, TypeInv, Ticks
  <2>3. /\ low \in Nat /\ low <= t /\ produced \in Nat /\ received \in Nat /\ lastTick \in Nat
        /\ received < t /\ lastTick <= received
    BY <2>1 DEF OrderInv, TypeInv
  <2>4. ASSUME NEW i \in 1..Len(feedQueue) PROVE low <= feedQueue[i] /\ feedQueue[i] < t
    <3>1. feedQueue[i] \in Ticks
      BY FeedForm
    <3>2. lastTick < feedQueue[i] /\ feedQueue[i] <= received
      BY DEF OrderInv
    <3> DEFINE x == feedQueue[i]
    <3>3. x \in Nat /\ lastTick < x /\ x <= received
      BY <3>1, <3>2 DEF Ticks
    <3>4. t \in Nat
      BY <2>2 DEF Ticks
    <3> HIDE DEF x, t
    <3> QED
      BY <2>3, <3>3, <3>4 DEF x
  <2>5. /\ Increasing(PutNewest(feedQueue, t, FeedQueue))
        /\ \A i \in 1..Len(PutNewest(feedQueue, t, FeedQueue)) :
             /\ low <= PutNewest(feedQueue, t, FeedQueue)[i]
             /\ PutNewest(feedQueue, t, FeedQueue)[i] <= t
    <3> HIDE DEF t, low
    <3> QED
      BY <2>2, <2>3, <2>4, FeedForm, PutNewestOrder, CapacityAssumption DEF OrderInv
  <2>6. Increasing(feedQueue') /\ \A i \in 1..Len(feedQueue') :
                                     low <= feedQueue'[i] /\ feedQueue'[i] <= t
    BY <2>1, <2>5
  <2>7. PutNewest(feedQueue, t, FeedQueue) \in Seq(Ticks)
    BY <2>2, FeedForm, PutNewestForm, CapacityAssumption
  <2>8. \A i \in 1..Len(feedQueue') : lastTick < feedQueue'[i] /\ feedQueue'[i] <= received'
    <3>1. \A i \in 1..Len(feedQueue') : feedQueue'[i] \in Ticks
      BY <2>1, <2>7, ElementOfSeq
    <3> QED
      BY <2>1, <2>3, <2>6, <3>1 DEF Ticks
  <2>9. \A c \in Clients : ClientInOrder(c)'
    BY <2>1 DEF OrderInv, ClientInOrder
  <2>10. lastTick' <= received' /\ received' <= produced'
    <3>1. t \in Nat /\ lastTick' = lastTick /\ received' = t
      BY <2>1, <2>2 DEF Ticks
    <3> HIDE DEF t
    <3>2. lastTick <= t /\ t <= t
      BY <2>3, <3>1
    <3> QED
      BY <3>1, <3>2 DEF t
  <2> QED
    BY <2>1, <2>6, <2>8, <2>9, <2>10 DEF OrderInv, Increasing
<1>3. ASSUME Take PROVE OrderInv'
  <2>1. /\ feedQueue # <<>> /\ lastTick' = Head(feedQueue) /\ feedQueue' = Tail(feedQueue)
        /\ received' = received /\ produced' = produced /\ Dispatch(1, lastTick')
    BY <1>3 DEF Take
  <2>2. loop' = [at |-> "publishing", index |-> 1] /\ client' = client
    BY <2>1, FirstDispatch
  <2>3. /\ lastTick' \in Ticks /\ lastTick' = feedQueue[1] /\ Len(feedQueue) \in Nat \ {0}
        /\ Len(feedQueue') = Len(feedQueue) - 1
        /\ \A i \in 1..Len(feedQueue') : i + 1 \in 1..Len(feedQueue)
                                         /\ feedQueue'[i] = feedQueue[i + 1]
                                         /\ lastTick' < feedQueue'[i]
        /\ Increasing(feedQueue')
    BY <2>1, FeedForm, TailForm DEF OrderInv
  <2>4. 1 \in 1..Len(feedQueue)
    BY <2>3
  <2>5. lastTick < lastTick' /\ lastTick' <= received
    BY <2>3, <2>4 DEF OrderInv
  <2>6. \A i \in 1..Len(feedQueue') : lastTick' < feedQueue'[i] /\ feedQueue'[i] <= received'
    BY <2>1, <2>3 DEF OrderInv
  <2>7. \A c \in Clients : ClientInOrder(c)'
    <3> SUFFICES ASSUME NEW c \in Clients PROVE ClientInOrder(c)'
      OBVIOUS
    <3>1. ClientInOrder(c) /\ client'[c] = client[c]
      BY <2>2 DEF OrderInv
    <3>2. /\ client[c].sent \in 0..MaxTick
          /\ \A i \in 1..Len(client[c].queue) : client[c].queue[i] \in Ticks
          /\ client[c].first \in BOOLEAN
      BY ClientForm
    <3>3. lastTick \in Nat /\ lastTick' \in Nat
      BY <2>3 DEF TypeInv, Ticks
    <3> DEFINE q == client[c].queue
    <3>4. client[c].sent <= lastTick' /\ \A i \in 1..Len(q) : q[i] < lastTick' /\ q[i] <= lastTick'
      BY <2>5, <3>1, <3>2, <3>3 DEF ClientInOrder, Ticks
    <3>5. Least(client[c]) <= lastTick'
      BY <2>5, <3>1, <3>2, <3>3 DEF ClientInOrder, Least
    <3> QED
      BY <3>1, <3>4, <3>5 DEF ClientInOrder
  <2> QED
    BY <2>1, <2>3, <2>5, <2>6, <2>7 DEF OrderInv, Increasing
<1>4. ASSUME PublishEnds PROVE OrderInv'
  <2>1. /\ feedQueue' = feedQueue /\ received' = received /\ produced' = produced
        /\ lastTick' = lastTick
        /\ loop.at = "publishing" /\ Dispatch(loop.index + 1, lastTick)
    BY <1>4 DEF PublishEnds
  <2>2. /\ loop' = [at |-> Test, index |-> 0]
        /\ client' = [c \in Clients |->
             IF c \in Served
               THEN [client[c] EXCEPT !.queue = PutNewest(@, lastTick, ClientQueue)]
               ELSE client[c]]
    BY <2>1, RestDispatch
  <2>3. lastTick \in Ticks /\ loop'.at # "publishing"
    BY <2>1, <2>2 DEF HandlersInv, Test
  <2>4. \A c \in Clients :
          /\ client'[c].sent = client[c].sent /\ client'[c].first = client[c].first
          /\ client'[c].queue = IF c \in Served
                                  THEN PutNewest(client[c].queue, lastTick, ClientQueue)
                                  ELSE client[c].queue
    BY <2>2, <2>3, ServedTypes
  <2>5. ASSUME NEW c \in Clients PROVE ClientInOrder(c)'
    <3> DEFINE q == client[c].queue
               low == Least(client[c])
               r == PutNewest(q, lastTick, ClientQueue)
    <3>1. /\ low \in Nat /\ low <= lastTick /\ client[c].sent <= lastTick
          /\ Increasing(q) /\ q \in Seq(Ticks) /\ Len(q) <= ClientQueue
          /\ \A i \in 1..Len(q) : low <= q[i] /\ q[i] < lastTick /\ q[i] <= lastTick
      BY <2>1, ClientForm DEF OrderInv, ClientInOrder
    <3>2. Increasing(r) /\ \A i \in 1..Len(r) : low <= r[i] /\ r[i] <= lastTick
      <4> HIDE DEF q, low
      <4> QED
        BY <2>3, <3>1, PutNewestOrder, CapacityAssumption
    <3>3. /\ client'[c].sent = client[c].sent /\ Least(client'[c]) = low
          /\ client'[c].queue = IF c \in Served THEN r ELSE q
      BY <2>4 DEF Least
    <3> HIDE DEF q, low, r
    <3>4. /\ client'[c].sent <= lastTick /\ Increasing(client'[c].queue)
          /\ \A i \in 1..Len(client'[c].queue) :
               Least(client'[c]) <= client'[c].queue[i] /\ client'[c].queue[i] <= lastTick
      BY <3>1, <3>2, <3>3
    <3> QED
      BY <2>1, <2>3, <3>4 DEF ClientInOrder, Increasing
  <2> QED
    BY <2>1, <2>5 DEF OrderInv
<1>5. ASSUME NEW c \in Clients, Attach(c) PROVE OrderInv'
  <2>1. UNCHANGED <<feedVars, loopVars>>
    BY <1>5 DEF Attach
  <2>2. PICK r \in ClientTypes :
          client' = [client EXCEPT ![c] = r] /\ r.sent = lastTick /\ r.first /\ r.queue = <<>>
    BY <1>5, ClientRecords
  <2>3. /\ Len(r.queue) = 0 /\ Len(r.queue) <= ClientQueue
        /\ r.sent <= lastTick /\ Least(r) <= lastTick
    <3>1. Len(r.queue) = 0
      BY <2>2
    <3>2. lastTick \in Nat /\ ClientQueue \in Nat
      BY CapacityAssumption DEF TypeInv
    <3> QED
      BY <2>2, <3>1, <3>2 DEF Least
  <2>4. \A d \in Clients : ClientInOrder(d)'
    <3>1. Increasing(r.queue) /\ 1..Len(r.queue) = {}
      BY <2>3 DEF Increasing
    <3> QED
      BY <2>1, <2>2, <2>3, <3>1, OneClientInOrder
  <2> QED
    BY <2>1, <2>4 DEF OrderInv
<1>6. ASSUME NEW c \in Clients, Sent(c) \/ HangUp(c) PROVE OrderInv'
  <2>1. UNCHANGED <<feedVars, loopVars>>
    BY <1>6 DEF Sent, HangUp
  <2>2. PICK r \in ClientTypes :
          /\ client' = [client EXCEPT ![c] = r]
          /\ r.sent = client[c].sent /\ r.queue = client[c].queue /\ r.first = client[c].first
    BY <1>6, ClientRecords
  <2>3. ClientInOrder(c) /\ Least(r) = Least(client[c]) /\ Len(client[c].queue) <= ClientQueue
    BY <2>2, ClientForm DEF OrderInv, Least
  <2>4. \A d \in Clients : ClientInOrder(d)'
    BY <2>1, <2>2, <2>3, OneClientInOrder DEF ClientInOrder
  <2> QED
    BY <2>1, <2>4 DEF OrderInv
<1>7. ASSUME NEW c \in Clients, Send(c) PROVE OrderInv'
  <2>1. UNCHANGED <<feedVars, loopVars>>
    BY <1>7 DEF Send
  <2>2. PICK r \in ClientTypes :
          /\ client' = [client EXCEPT ![c] = r] /\ r.sent = Head(client[c].queue) /\ ~r.first
          /\ r.queue = Tail(client[c].queue) /\ client[c].queue # <<>>
          /\ Len(r.queue) <= ClientQueue
    BY <1>7, ClientRecords
  <2> DEFINE q == client[c].queue
  <2>3. /\ q \in Seq(Ticks) /\ Increasing(q)
        /\ \A i \in 1..Len(q) : q[i] \in Ticks /\ q[i] <= lastTick
                                /\ (loop.at = "publishing" => q[i] < lastTick)
    BY ClientForm DEF OrderInv, ClientInOrder
  <2>4. /\ Head(q) = q[1] /\ Head(q) \in Ticks /\ 1 \in 1..Len(q) /\ Increasing(Tail(q))
        /\ Tail(q) \in Seq(Ticks)
        /\ \A i \in 1..Len(Tail(q)) : /\ i + 1 \in 1..Len(q) /\ Tail(q)[i] = q[i + 1]
                                      /\ Head(q) < Tail(q)[i]
    <3> HIDE DEF q
    <3>1. Len(q) \in Nat \ {0}
      BY <2>2, <2>3, TailForm DEF q
    <3> QED
      BY <2>2, <2>3, <3>1, TailForm DEF q
  <2>5. \A i \in 1..Len(Tail(q)) : /\ Head(q) + 1 <= Tail(q)[i] /\ Tail(q)[i] <= lastTick
                                   /\ loop.at = "publishing" => Tail(q)[i] < lastTick
    BY <2>3, <2>4 DEF Ticks
  <2>6. Head(q) <= lastTick /\ (loop.at = "publishing" => Head(q) + 1 <= lastTick)
    <3>1. Head(q) \in Nat /\ lastTick \in Nat
      BY <2>4 DEF TypeInv, Ticks
    <3> QED
      BY <2>3, <2>4, <3>1
  <2>7. Least(r) = Head(q) + 1
    BY <2>2 DEF Least
  <2>8. \A d \in Clients : ClientInOrder(d)'
    BY <2>1, <2>2, <2>4, <2>5, <2>6, <2>7, OneClientInOrder
  <2> QED
    BY <2>1, <2>8 DEF OrderInv
<1>8. ASSUME NEW c \in Clients, Detach(c) PROVE OrderInv'
  <2>1. UNCHANGED <<feedVars, loopVars>> /\ client' = [client EXCEPT ![c] = Away]
    BY <1>8 DEF Detach
  <2>2. /\ Away \in ClientTypes /\ Away.sent <= lastTick /\ Least(Away) <= lastTick
        /\ Away.queue = <<>>
        /\ Len(Away.queue) = 0 /\ Len(Away.queue) <= ClientQueue
    <3>1. Away \in ClientTypes
      BY ClientRecords
    <3>2. Away.sent = 0 /\ Least(Away) = 0 /\ Away.queue = <<>>
      BY DEF Away, Least
    <3>3. Len(Away.queue) = 0
      BY <3>2
    <3>4. lastTick \in Nat /\ ClientQueue \in Nat
      BY CapacityAssumption DEF TypeInv
    <3> QED
      BY <3>1, <3>2, <3>3, <3>4
  <2>3. \A d \in Clients : ClientInOrder(d)'
    <3>1. Increasing(Away.queue) /\ 1..Len(Away.queue) = {}
      BY <2>2 DEF Increasing
    <3> DEFINE r == Away
    <3>2. /\ r \in ClientTypes /\ client' = [client EXCEPT ![c] = r] /\ Len(r.queue) <= ClientQueue
          /\ r.sent <= lastTick /\ Least(r) <= lastTick
          /\ Increasing(r.queue) /\ 1..Len(r.queue) = {}
      BY <2>1, <2>2, <3>1
    <3> HIDE DEF r
    <3> QED
      BY <2>1, <3>2, OneClientInOrder
  <2> QED
    BY <2>1, <2>3 DEF OrderInv
<1> QED
  BY <1>1, <1>2, <1>3, <1>4, <1>5, <1>6, <1>7, <1>8 DEF Next, LoopStep, ClientStep

-----------------------------------------------------------------------------
(* The newest tick.                                                         *)

NewestOf(r) == IF r.queue = <<>> THEN r.sent ELSE r.queue[Len(r.queue)]

LEMMA NewestIsOf == \A c \in Clients : Newest(c) = NewestOf(client[c])
BY DEF Newest, NewestOf, Last

(* A step that gives one client a record and leaves loop and last tick.     *)
LEMMA OneClientNewest ==
  ASSUME TypeInv, NewestInv, NEW c \in Clients, NEW r \in ClientTypes,
         client' = [client EXCEPT ![c] = r],
         UNCHANGED <<phase, received, feedQueue, loop, lastTick>>,
         \A d \in Attached \ {c} : \E i \in 1..Len(handlers') : handlers'[i] = d,
         r.at # "away" =>
           /\ \E i \in 1..Len(handlers') : handlers'[i] = c
           /\ loop.at \in {"none", "created", "waiting"} => NewestOf(r) = lastTick
  PROVE  NewestInv'
<1>1. \A d \in Clients : client'[d] = IF d = c THEN r ELSE client[d]
  BY DEF TypeInv
<1>2. Attached' \subseteq Clients /\ \A d \in Attached' \ {c} : d \in Attached
  BY <1>1 DEF Attached
<1>3. c \in Attached' => r.at # "away"
  BY <1>1 DEF Attached
<1>4. \A d \in Attached' : \E i \in 1..Len(handlers') : handlers'[i] = d
  BY <1>2, <1>3
<1>5. ASSUME loop'.at \in {"none", "created", "waiting"}, NEW d \in Attached'
      PROVE  Newest(d)' = lastTick'
  <2>1. Newest(d)' = NewestOf(client'[d])
    BY <1>2 DEF Newest, NewestOf, Last
  <2>2. CASE d = c
    BY <1>1, <1>3, <1>5, <2>1, <2>2
  <2>3. CASE d # c
    <3>1. d \in Attached /\ client'[d] = client[d]
      BY <1>1, <1>2, <2>3
    <3>2. Newest(d) = lastTick /\ Newest(d) = NewestOf(client[d])
      BY <1>5, <3>1, NewestIsOf DEF NewestInv, Attached
    <3> QED
      BY <2>1, <3>1, <3>2
  <2> QED
    BY <2>2, <2>3
<1> QED
  BY <1>4, <1>5 DEF NewestInv

(* Who takes the first of a queue leaves its last, or has it.               *)
LEMMA LastStays ==
  ASSUME NEW q \in Seq(Ticks), q # <<>>
  PROVE  q[Len(q)] = IF Tail(q) = <<>> THEN Head(q) ELSE Tail(q)[Len(Tail(q))]
<1> DEFINE n == Len(q)
           m == Len(Tail(q))
<1>1. /\ Head(q) = q[1] /\ n \in Nat \ {0} /\ m = n - 1 /\ Tail(q) \in Seq(Ticks)
      /\ \A i \in 1..m : Tail(q)[i] = q[i + 1]
  BY TailForm
<1>2. m = 0 <=> Tail(q) = <<>>
  BY <1>1, EmptySeq
<1> HIDE DEF n, m
<1>3. CASE m = 0
  <2>1. n = 1
    BY <1>1, <1>3
  <2> QED
    BY <1>1, <1>2, <1>3, <2>1 DEF n
<1>4. CASE m # 0
  <2>1. m \in 1..m /\ m + 1 = n
    BY <1>1, <1>4
  <2>2. Tail(q)[m] = q[n]
    BY <1>1, <2>1
  <2> QED
    BY <1>2, <1>4, <2>2 DEF n, m
<1> QED
  BY <1>3, <1>4

LEMMA NewestStep ==
  ASSUME TypeInv, HandlersInv, PhaseInv, NewestInv, [Next]_vars
  PROVE  NewestInv'
<1> USE DEF engineVars, feedVars, loopVars
<1>1. ASSUME Start \/ StrategiesStarted \/ BeginStop \/ StopLoop \/ LinkChanges \/ LoopBegins
             \/ Disconnect \/ Lose \/ UNCHANGED vars
      PROVE  NewestInv'
  <2>1. /\ client' = client /\ handlers' = handlers
        /\ received' = received /\ lastTick' = lastTick
    BY <1>1 DEF Start, StrategiesStarted, BeginStop, StopLoop, LinkChanges, LoopBegins,
                Disconnect, Lose, vars
  <2>2. phase' # "stopped" => phase # "stopped" /\ feedQueue' = feedQueue
    BY <1>1 DEF Start, StrategiesStarted, BeginStop, StopLoop, LinkChanges, LoopBegins,
                Disconnect, Lose, vars
  <2>3. loop'.at \in {"none", "created", "waiting"} => loop.at \in {"none", "created", "waiting"}
    BY <1>1 DEF Start, StrategiesStarted, BeginStop, StopLoop, LinkChanges, LoopBegins,
                Disconnect, Lose, vars, TypeInv, PhaseInv
  <2>4. Attached' = Attached /\ \A c \in Clients : Newest(c)' = Newest(c)
    BY <2>1 DEF Attached, Newest
  <2> QED
    BY <2>1, <2>2, <2>3, <2>4 DEF NewestInv, Attached
<1>2. ASSUME Arrive PROVE NewestInv'
  <2>1. /\ client' = client /\ loop' = loop /\ lastTick' = lastTick /\ handlers' = handlers
        /\ received' = produced' /\ feedQueue' = PutNewest(feedQueue, produced', FeedQueue)
    BY <1>2 DEF Arrive
  <2>2. produced' \in Ticks
    BY <1>2, MaxTickAssumption DEF Arrive, TypeInv, Ticks
  <2>3. /\ feedQueue' \in Seq(Ticks) /\ Len(feedQueue') \in 1..FeedQueue
        /\ feedQueue'[Len(feedQueue')] = produced'
    BY <2>1, <2>2, FeedForm, PutNewestForm, CapacityAssumption
  <2>4. feedQueue' # <<>>
    BY <2>3, EmptySeq
  <2>5. Attached' = Attached /\ \A c \in Clients : Newest(c)' = Newest(c)
    BY <2>1 DEF Attached, Newest
  <2> QED
    BY <2>1, <2>3, <2>4, <2>5 DEF NewestInv, Attached
<1>3. ASSUME Take PROVE NewestInv'
  <2>1. /\ feedQueue # <<>> /\ lastTick' = Head(feedQueue) /\ feedQueue' = Tail(feedQueue)
        /\ received' = received /\ handlers' = handlers /\ phase' = phase
        /\ Dispatch(1, lastTick')
    BY <1>3 DEF Take
  <2>2. loop'.at = "publishing" /\ client' = client
    BY <2>1, FirstDispatch
  <2>3. feedQueue[Len(feedQueue)] =
          IF feedQueue' = <<>> THEN lastTick' ELSE feedQueue'[Len(feedQueue')]
    BY <2>1, FeedForm, LastStays
  <2>4. Attached' = Attached
    BY <2>2 DEF Attached
  <2> QED
    BY <2>1, <2>2, <2>3, <2>4 DEF NewestInv
<1>4. ASSUME PublishEnds PROVE NewestInv'
  <2>1. /\ feedQueue' = feedQueue /\ received' = received /\ phase' = phase
        /\ lastTick' = lastTick /\ handlers' = handlers
        /\ loop.at = "publishing" /\ Dispatch(loop.index + 1, lastTick)
    BY <1>4 DEF PublishEnds
  <2>2. client' = [c \in Clients |->
          IF c \in Served
            THEN [client[c] EXCEPT !.queue = PutNewest(@, lastTick, ClientQueue)]
            ELSE client[c]]
    BY <2>1, RestDispatch
  <2>3. lastTick \in Ticks
    BY <2>1 DEF HandlersInv
  <2>4. \A c \in Clients :
          /\ client'[c].at = client[c].at
          /\ client'[c].queue = IF c \in Served
                                  THEN PutNewest(client[c].queue, lastTick, ClientQueue)
                                  ELSE client[c].queue
    BY <2>2, <2>3, ServedTypes
  <2>5. Attached' = Attached
    BY <2>4 DEF Attached
  <2>6. ASSUME NEW c \in Attached PROVE Newest(c)' = lastTick
    <3>1. c \in Clients /\ c # Publisher
      BY PublisherAssumption DEF Attached
    <3>2. PICK i \in 1..Len(handlers) : handlers[i] = c
      BY DEF NewestInv
    <3>3. i \in 2..Len(handlers)
      <4>1. i # 1
        BY <3>1, <3>2 DEF HandlersInv
      <4>2. Len(handlers) \in Nat
        BY LenProperties DEF TypeInv
      <4> QED
        BY <4>1, <4>2
    <3>4. c \in Served
      BY <3>1, <3>2, <3>3 DEF Served
    <3> DEFINE r == PutNewest(client[c].queue, lastTick, ClientQueue)
    <3>5. r \in Seq(Ticks) /\ Len(r) \in 1..ClientQueue /\ r[Len(r)] = lastTick
      BY <2>3, <3>1, ClientForm, PutNewestForm, CapacityAssumption
    <3>6. r # <<>>
      BY <3>5, EmptySeq
    <3>7. client'[c].queue = r
      BY <2>4, <3>1, <3>4
    <3> HIDE DEF r
    <3> QED
      BY <3>5, <3>6, <3>7 DEF Newest, Last
  <2> QED
    BY <2>1, <2>5, <2>6 DEF NewestInv
<1>5. ASSUME NEW c \in Clients, Attach(c) PROVE NewestInv'
  <2>1. UNCHANGED <<phase, received, feedQueue, loop, lastTick>> /\ handlers' = Append(handlers, c)
    BY <1>5 DEF Attach, OnTick
  <2>2. PICK r \in ClientTypes :
          client' = [client EXCEPT ![c] = r] /\ r.sent = lastTick /\ r.queue = <<>>
    BY <1>5, ClientRecords
  <2>3. /\ Len(handlers) \in Nat /\ Len(handlers') = Len(handlers) + 1
        /\ \A i \in 1..Len(handlers) : handlers'[i] = handlers[i]
        /\ handlers'[Len(handlers) + 1] = c
    BY <2>1, AppendProperties, LenProperties DEF TypeInv
  <2> DEFINE n == Len(handlers)
             m == Len(handlers')
  <2>4. /\ n \in Nat /\ m = n + 1 /\ \A i \in 1..n : handlers'[i] = handlers[i]
        /\ handlers'[n + 1] = c /\ \A d \in Attached : \E i \in 1..n : handlers[i] = d
    BY <2>3 DEF NewestInv
  <2> HIDE DEF n, m
  <2>5. /\ \E i \in 1..m : handlers'[i] = c
        /\ \A d \in Attached : \E i \in 1..m : handlers'[i] = d
    BY <2>4
  <2>6. NewestOf(r) = lastTick
    BY <2>2 DEF NewestOf
  <2> QED
    BY <2>1, <2>2, <2>5, <2>6, OneClientNewest DEF m
<1>6. ASSUME NEW c \in Clients, Send(c) \/ Sent(c) \/ HangUp(c) PROVE NewestInv'
  <2>1. UNCHANGED <<phase, received, feedQueue, loop, lastTick, handlers>>
    BY <1>6 DEF Send, Sent, HangUp
  <2>2. c \in Attached
    BY <1>6, ClientRecords DEF Attached, Send
  <2>3. \E r \in ClientTypes :
          client' = [client EXCEPT ![c] = r] /\ NewestOf(r) = NewestOf(client[c])
    <3>1. CASE Send(c)
      <4>1. PICK r \in ClientTypes :
              /\ client' = [client EXCEPT ![c] = r] /\ r.sent = Head(client[c].queue)
              /\ r.queue = Tail(client[c].queue) /\ client[c].queue # <<>>
        BY <3>1, ClientRecords
      <4>2. NewestOf(r) = NewestOf(client[c])
        BY <4>1, ClientForm, LastStays DEF NewestOf
      <4> QED
        BY <4>1, <4>2
    <3>2. CASE Sent(c) \/ HangUp(c)
      BY <3>2, ClientRecords DEF NewestOf
    <3> QED
      BY <1>6, <3>1, <3>2
  <2>4. PICK r \in ClientTypes :
          client' = [client EXCEPT ![c] = r] /\ NewestOf(r) = NewestOf(client[c])
    BY <2>3
  <2>5. /\ \A d \in Attached : \E i \in 1..Len(handlers') : handlers'[i] = d
        /\ loop.at \in {"none", "created", "waiting"} => NewestOf(r) = lastTick
    BY <2>1, <2>2, <2>4, NewestIsOf DEF NewestInv
  <2> QED
    BY <2>1, <2>2, <2>4, <2>5, OneClientNewest
<1>7. ASSUME NEW c \in Clients, Detach(c) PROVE NewestInv'
  <2>1. UNCHANGED <<phase, received, feedQueue, loop, lastTick>>
        /\ client' = [client EXCEPT ![c] = Away]
    BY <1>7 DEF Detach
  <2>2. PICK k \in DOMAIN handlers : handlers[k] = c /\ handlers' = RemoveAt(handlers, k)
    BY <1>7 DEF Detach
  <2>3. \A d \in Attached \ {c} : \E i \in 1..Len(handlers') : handlers'[i] = d
    BY <2>2, RemovedForm DEF NewestInv, Attached
  <2>4. Away \in ClientTypes /\ Away.at = "away"
    BY ClientRecords DEF Away
  <2> DEFINE r == Away
  <2>5. r \in ClientTypes /\ r.at = "away" /\ client' = [client EXCEPT ![c] = r]
    BY <2>1, <2>4
  <2> HIDE DEF r
  <2> QED
    BY <2>1, <2>3, <2>5, OneClientNewest
<1> QED
  BY <1>1, <1>2, <1>3, <1>4, <1>5, <1>6, <1>7 DEF Next, LoopStep, ClientStep

-----------------------------------------------------------------------------
(* Theorems.                                                                *)

LEMMA Inductive == Spec => [](TypeInv /\ HandlersInv /\ PhaseInv /\ OrderInv /\ NewestInv)
<1>1. /\ TypeInv /\ HandlersInv /\ PhaseInv /\ OrderInv /\ NewestInv /\ [Next]_vars
      => (TypeInv /\ HandlersInv /\ PhaseInv /\ OrderInv /\ NewestInv)'
  BY TypeStep, PhaseStep, OrderStep, NewestStep
<1> QED
  BY InitInv, <1>1, PTL DEF Spec

(* Whatever arrives, comes and leaves, every variable keeps its type and    *)
(* no queue passes its capacity (feeds/binance.py _consume, api/main.py     *)
(* push_tick: a full queue drops its oldest).                               *)
THEOREM TypeCorrect == Spec => []TypeOK
<1>1. TypeInv => TypeOK
  <2> SUFFICES ASSUME TypeInv PROVE TypeOK
    OBVIOUS
  <2>1. \A c \in Clients :
          /\ client[c].at \in {"away", "waiting", "sending"}
          /\ client[c].sent \in 0..MaxTick
          /\ client[c].first \in BOOLEAN /\ client[c].gone \in BOOLEAN
          /\ client[c].queue \in Seq(Ticks) /\ Len(client[c].queue) <= ClientQueue
    BY ClientForm DEF ClientTypes
  <2> QED
    BY <2>1 DEF TypeInv, TypeOK, Ticks
<1> QED
  BY Inductive, <1>1, PTL

(* After the feed is disconnected the loop is not left in queue.get()       *)
(* (engine.py stop cancels the loop before it disconnects).                 *)
THEOREM ConsumerGetsReleased == Spec => []ConsumerIsReleased
<1>1. PhaseInv => ConsumerIsReleased
  BY DEF PhaseInv, ConsumerIsReleased
<1> QED
  BY Inductive, <1>1, PTL

(* No strategy and no client is given a tick that is older than one it has  *)
(* had, or has waiting, whatever the queues drop.                           *)
THEOREM TicksKeepOrder == Spec => []TicksInOrder
<1>1. TypeInv /\ OrderInv => TicksInOrder
  <2> SUFFICES ASSUME TypeInv, OrderInv PROVE TicksInOrder
    OBVIOUS
  <2>1. DOMAIN feedQueue = 1..Len(feedQueue)
    BY FeedForm, LenProperties
  <2>2. \A c \in Clients : DOMAIN client[c].queue = 1..Len(client[c].queue)
    BY ClientForm, LenProperties
  <2> QED
    BY <2>1, <2>2 DEF OrderInv, ClientInOrder, TicksInOrder
<1> QED
  BY Inductive, <1>1, PTL

(* However handlers come and go while the loop waits in one of them, and    *)
(* whatever the queues drop, the newest tick passes nobody over.            *)
THEOREM NewestGoesToClients == Spec => []NewestReachesClients
<1>1. PhaseInv /\ NewestInv => NewestReachesClients
  BY DEF PhaseInv, NewestInv, NewestReachesClients
<1> QED
  BY Inductive, <1>1, PTL

=============================================================================
