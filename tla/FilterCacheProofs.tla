------------------------- MODULE FilterCacheProofs -------------------------
(***************************************************************************)
(* The filter cache, for any number of calls and symbols, any lifetime,    *)
(* timeout and correction of the clock.                                    *)
(*                                                                         *)
(* Types come first, with a record type for each point of a call.  On them *)
(* rest three invariants that do not need each other: who may fetch        *)
(* (FetchInv), how old an answer can be (AgeInv) and what a call knows of  *)
(* its symbol (TradingInv).                                                *)
(***************************************************************************)
EXTENDS FilterCache, SequenceTheorems, TLAPS

WaitingCalls    == [at : {"waiting"}, symbol : Symbols, since : Nat, trading : BOOLEAN]
RequestingCalls == [at : {"requesting"}, symbol : Symbols, since : Nat, trading : BOOLEAN,
                    sent : Nat, sentClock : Int]
AnsweredCalls   == [at : {"answered"}, symbol : Symbols, since : Nat, trading : BOOLEAN,
                    sent : Nat, sentClock : Int, response : SUBSET Symbols, answeredAt : Nat]
CallTypes       == {Idle} \cup WaitingCalls \cup RequestingCalls \cup AnsweredCalls

Answers == [kind : {"none", "failed"}] \cup [kind : {"ok"}, age : Int]
             \cup [kind : {"unknown"}, trading : BOOLEAN]

TypeInv ==
  /\ now \in Nat /\ setBack \in Nat /\ listed \subseteq Symbols
  /\ symbols \subseteq Symbols /\ fetchedAt \in Int /\ asOf \in Nat
  /\ holder \in Calls \cup {NoCall} /\ waiters \in Seq(Calls)
  /\ holder = NoCall => waiters = <<>>
  /\ call \in [Calls -> CallTypes]
  /\ \A c \in Calls : InGet(c) => call[c].since <= now
  /\ answer \in Answers

(* What the point of a call says of its record.                             *)
LEMMA CallForms ==
  ASSUME TypeInv, NEW c \in Calls
  PROVE  /\ call[c].at = "waiting"    => call[c] \in WaitingCalls
         /\ call[c].at = "requesting" => call[c] \in RequestingCalls
         /\ call[c].at = "answered"   => call[c] \in AnsweredCalls
         /\ call[c].at \in {"idle", "waiting", "requesting", "answered"}
         /\ InGet(c) => call[c].symbol \in Symbols /\ call[c].since \in Nat
                        /\ call[c].trading \in BOOLEAN
<1>1. call[c] \in CallTypes
  BY DEF TypeInv
<1> QED
  BY <1>1 DEF CallTypes, WaitingCalls, RequestingCalls, AnsweredCalls, Idle, InGet

LEMMA ClockIsInt == TypeInv => Clock \in Int
  BY DEF TypeInv, Clock

LEMMA BeginForm ==
  ASSUME TypeInv, NEW s \in Symbols
  PROVE  Begin(s) \in WaitingCalls /\ Begin(s).since = now /\ Begin(s).symbol = s
         /\ Begin(s).trading = (s \in listed)
  BY DEF TypeInv, Begin, WaitingCalls

LEMMA RequestForm ==
  ASSUME TypeInv, NEW g \in WaitingCalls
  PROVE  /\ Request(g) \in RequestingCalls
         /\ Request(g).since = g.since /\ Request(g).symbol = g.symbol
         /\ Request(g).trading = g.trading
         /\ Request(g).sent = now /\ Request(g).sentClock = Clock
  BY ClockIsInt DEF TypeInv, Request, WaitingCalls, RequestingCalls

LEMMA FoundForm ==
  ASSUME TypeInv, NEW g, g.trading \in BOOLEAN, NEW cached, NEW since \in Nat
  PROVE  Found(g, cached, since) \in Answers
  BY DEF TypeInv, Found, Answers

LEMMA ReleaseForm ==
  ASSUME TypeInv, Release
  PROVE  /\ holder' \in Calls \cup {NoCall} /\ waiters' \in Seq(Calls)
         /\ holder' = NoCall => waiters' = <<>>
<1>1. CASE waiters = <<>>
  BY <1>1 DEF Release, TypeInv
<1>2. CASE waiters # <<>>
  <2>1. Head(waiters) \in Calls /\ Tail(waiters) \in Seq(Calls)
    BY <1>2, HeadTailProperties DEF TypeInv
  <2> QED
    BY <1>2, <2>1, CallsAssumption DEF Release
<1> QED
  BY <1>1, <1>2

LEMMA RemovedForm ==
  ASSUME TypeInv, NEW i \in DOMAIN waiters
  PROVE  RemoveAt(waiters, i) \in Seq(Calls)
<1>1. /\ waiters \in Seq(Calls) /\ Len(waiters) \in Nat /\ i \in 1..Len(waiters)
      /\ \A j \in 1..Len(waiters) : waiters[j] \in Calls
  BY LenProperties, ElementOfSeq DEF TypeInv
<1>2. SubSeq(waiters, 1, i - 1) \in Seq(Calls) /\ SubSeq(waiters, i + 1, Len(waiters)) \in Seq(Calls)
  BY <1>1, SubSeqProperties
<1> QED
  BY <1>2, ConcatProperties DEF RemoveAt

(* A step that moves one call, and perhaps the lock and the answer.         *)
LEMMA OneCallTypes ==
  ASSUME TypeInv, NEW c \in Calls, NEW g \in CallTypes,
         call' = [call EXCEPT ![c] = g], g.at # "idle" => g.since <= now,
         UNCHANGED envVars,
         symbols' \subseteq Symbols, fetchedAt' \in Int, asOf' \in Nat,
         holder' \in Calls \cup {NoCall}, waiters' \in Seq(Calls),
         holder' = NoCall => waiters' = <<>>, answer' \in Answers
  PROVE  TypeInv'
<1>1. call' \in [Calls -> CallTypes]
  BY DEF TypeInv
<1>2. \A d \in Calls : call'[d] = IF d = c THEN g ELSE call[d]
  BY DEF TypeInv
<1>3. \A d \in Calls : InGet(d)' => call'[d].since <= now'
  BY <1>2 DEF TypeInv, InGet, envVars
<1> QED
  BY <1>1, <1>3 DEF TypeInv, envVars

LEMMA NextTypes == TypeInv /\ [Next]_vars => TypeInv'
<1> SUFFICES ASSUME TypeInv, [Next]_vars PROVE TypeInv'
  OBVIOUS
<1>0. /\ now \in Nat /\ setBack \in Nat /\ listed \subseteq Symbols
      /\ symbols \subseteq Symbols /\ fetchedAt \in Int /\ asOf \in Nat
      /\ holder \in Calls \cup {NoCall} /\ waiters \in Seq(Calls)
      /\ holder = NoCall => waiters = <<>>
      /\ answer \in Answers
  BY DEF TypeInv
<1>1. ASSUME NEW c \in Calls, NEW s \in Symbols, Get(c, s) PROVE TypeInv'
  <2>1. CASE /\ holder # NoCall
             /\ waiters' = Append(waiters, c)
             /\ call' = [call EXCEPT ![c] = Begin(s)]
             /\ UNCHANGED <<holder, answer>>
    <3>1. waiters' \in Seq(Calls)
      BY <1>0, <2>1, AppendProperties
    <3>2. Begin(s) \in CallTypes /\ Begin(s).since <= now
      BY <1>0, BeginForm DEF CallTypes
    <3> QED
      BY <1>0, <1>1, <2>1, <3>1, <3>2, OneCallTypes DEF Get, cacheVars
  <2>2. CASE /\ holder' = c
             /\ call' = [call EXCEPT ![c] = Request(Begin(s))]
             /\ UNCHANGED <<waiters, answer>>
    <3>1. Request(Begin(s)) \in CallTypes /\ Request(Begin(s)).since <= now
      BY <1>0, BeginForm, RequestForm DEF CallTypes
    <3> QED
      BY <1>0, <1>1, <2>2, <3>1, OneCallTypes, CallsAssumption DEF Get, cacheVars
  <2>3. CASE answer' = Found(Begin(s), symbols, asOf) /\ UNCHANGED <<call, lockVars>>
    <3>1. answer' \in Answers
      BY <1>0, <2>3, BeginForm, FoundForm DEF WaitingCalls
    <3> QED
      BY <1>1, <2>3, <3>1 DEF Get, envVars, cacheVars, lockVars, TypeInv, InGet
  <2> QED
    BY <1>1, <2>1, <2>2, <2>3 DEF Get
<1>2. ASSUME NEW c \in Calls, Enter(c) PROVE TypeInv'
  <2>1. call[c] \in WaitingCalls /\ call[c].since <= now
    BY <1>2, CallForms DEF Enter, TypeInv, InGet
  <2>2. CASE call' = [call EXCEPT ![c] = Request(@)] /\ UNCHANGED <<lockVars, answer>>
    <3>1. Request(call[c]) \in CallTypes /\ Request(call[c]).since <= now
      BY <1>0, <2>1, RequestForm DEF CallTypes
    <3>2. call' = [call EXCEPT ![c] = Request(call[c])]
      BY <2>2 DEF TypeInv
    <3> QED
      BY <1>0, <1>2, <2>2, <3>1, <3>2, OneCallTypes DEF Enter, cacheVars, lockVars
  <2>3. CASE Leave(c, Found(call[c], symbols, asOf)) /\ Release
    <3>1. Found(call[c], symbols, asOf) \in Answers
      BY <1>0, <2>1, FoundForm DEF WaitingCalls
    <3> QED
      BY <1>0, <1>2, <2>3, <3>1, ReleaseForm, OneCallTypes DEF Enter, Leave, cacheVars, CallTypes, Idle
  <2> QED
    BY <1>2, <2>2, <2>3 DEF Enter
<1>3. ASSUME NEW c \in Calls, ExchangeAnswers(c) PROVE TypeInv'
  <2> DEFINE g == [at |-> "answered", symbol |-> call[c].symbol, since |-> call[c].since,
                   trading |-> call[c].trading, sent |-> call[c].sent,
                   sentClock |-> call[c].sentClock, response |-> listed, answeredAt |-> now]
  <2>1. call[c] \in RequestingCalls /\ call[c].since <= now
    BY <1>3, CallForms DEF ExchangeAnswers, TypeInv, InGet
  <2>2. g \in CallTypes /\ g.since <= now
    BY <1>0, <2>1 DEF CallTypes, AnsweredCalls, RequestingCalls
  <2>3. call' = [call EXCEPT ![c] = g]
    BY <1>3 DEF ExchangeAnswers, TypeInv
  <2> QED
    BY <1>0, <1>3, <2>2, <2>3, OneCallTypes DEF ExchangeAnswers, cacheVars, lockVars
<1>4. ASSUME NEW c \in Calls, Refreshed(c) PROVE TypeInv'
  <2>1. call[c] \in AnsweredCalls
    BY <1>4, CallForms DEF Refreshed
  <2>2. symbols' \subseteq Symbols /\ fetchedAt' \in Int /\ asOf' \in Nat
    BY <1>4, <2>1, ClockIsInt DEF Refreshed, AnsweredCalls
  <2>3. Found(call[c], symbols', asOf') \in Answers
    BY <2>1, <2>2, FoundForm DEF AnsweredCalls
  <2> QED
    BY <1>4, <2>2, <2>3, ReleaseForm, OneCallTypes DEF Refreshed, Leave, CallTypes, Idle
<1>5. ASSUME NEW c \in Calls, RefreshFails(c) PROVE TypeInv'
  BY <1>0, <1>5, ReleaseForm, OneCallTypes
     DEF RefreshFails, Leave, Failed, Answers, CallTypes, Idle, cacheVars
<1>6. ASSUME NEW c \in Calls, Cancelled(c) PROVE TypeInv'
  <2>1. CASE Release
    BY <1>0, <1>6, <2>1, ReleaseForm, OneCallTypes
       DEF Cancelled, Leave, Failed, Answers, CallTypes, Idle, cacheVars
  <2>2. CASE /\ UNCHANGED holder
             /\ \E i \in DOMAIN waiters : waiters[i] = c /\ waiters' = RemoveAt(waiters, i)
    <3>1. waiters' \in Seq(Calls) /\ holder' # NoCall
      BY <1>0, <2>2, RemovedForm, EmptySeq
    <3> QED
      BY <1>0, <1>6, <2>2, <3>1, OneCallTypes
         DEF Cancelled, Leave, Failed, Answers, CallTypes, Idle, cacheVars
  <2> QED
    BY <1>6, <2>1, <2>2 DEF Cancelled
<1>7. ASSUME NEW s \in Symbols, Delist(s) PROVE TypeInv'
  <2>1. ASSUME NEW c \in Calls
        PROVE  call'[c] \in CallTypes /\ (InGet(c)' => InGet(c) /\ call'[c].since = call[c].since)
    <3>1. call'[c] = IF InGet(c) /\ call[c].symbol = s THEN [call[c] EXCEPT !.trading = FALSE]
                     ELSE call[c]
      BY <1>7 DEF Delist
    <3> QED
      BY <3>1, CallForms DEF TypeInv, InGet, CallTypes, WaitingCalls, RequestingCalls, AnsweredCalls
  <2>2. call' \in [Calls -> CallTypes]
    BY <1>7, <2>1 DEF Delist
  <2> QED
    BY <1>0, <1>7, <2>1, <2>2 DEF Delist, TypeInv, cacheVars, lockVars
<1>8. CASE (\E s \in Symbols : List(s)) \/ SetClockBack
  BY <1>8 DEF List, SetClockBack, TypeInv, InGet, cacheVars, lockVars
<1>9. CASE Tick
  <2>1. \A c \in Calls : InGet(c) => call[c].since \in Nat
    BY CallForms
  <2> QED
    BY <1>0, <1>9, <2>1 DEF Tick, TypeInv, InGet, cacheVars, lockVars
<1>10. CASE UNCHANGED vars
  BY <1>10 DEF vars, envVars, cacheVars, lockVars, TypeInv, InGet
<1> QED
  BY <1>1, <1>2, <1>3, <1>4, <1>5, <1>6, <1>7, <1>8, <1>9, <1>10 DEF Next, CallStep

LEMMA InitTypes == Init => TypeInv
  BY CallsAssumption, TimesAssumption, EmptySeq
     DEF Init, TypeInv, CallTypes, Answers, InGet, Idle

LEMMA Types == Spec => []TypeInv
  BY InitTypes, NextTypes, PTL DEF Spec

(* Every state is well typed; while the lock is free nobody waits for it.   *)
THEOREM TypeCorrect == Spec => []TypeOK
<1>1. TypeInv => TypeOK
  <2> SUFFICES ASSUME TypeInv PROVE TypeOK
    OBVIOUS
  <2>1. \A c \in Calls : InGet(c) => call[c].since \in 0..now
    BY CallForms DEF TypeInv
  <2>2. answer.kind \in {"none", "ok", "unknown", "failed"}
    BY DEF TypeInv, Answers
  <2> QED
    BY <2>1, <2>2, CallForms DEF TypeInv, TypeOK, Points
<1> QED
  BY <1>1, Types, PTL

-----------------------------------------------------------------------------
(* Who fetches.                                                             *)

Fetches(c) == call[c].at \in {"requesting", "answered"}

LEMMA Moved ==
  ASSUME TypeInv, NEW c \in Calls, NEW g, call' = [call EXCEPT ![c] = g]
  PROVE  call'[c] = g /\ \A d \in Calls \ {c} : call'[d] = call[d]
  BY DEF TypeInv

(* Whoever fetches after a step did so before, for the same reason and with *)
(* lock and cache untouched, or it has just found that it must.             *)
LEMMA NextFetching ==
  ASSUME TypeInv, OneFetchServesAll, [Next]_vars, NEW d \in Calls, Fetches(d)'
  PROVE  \/ /\ Fetches(d)
            /\ call'[d].sent = call[d].sent /\ call'[d].sentClock = call[d].sentClock
            /\ call'[d].symbol = call[d].symbol
            /\ UNCHANGED <<holder, cacheVars>>
         \/ /\ call'[d].at = "requesting" /\ holder' = d
            /\ call'[d].sent = now /\ call'[d].sentClock = Clock
            /\ Stale(call'[d].symbol)
            /\ UNCHANGED <<envVars, cacheVars>>
<1> DEFINE Old == /\ Fetches(d)
                  /\ call'[d].sent = call[d].sent /\ call'[d].sentClock = call[d].sentClock
                  /\ call'[d].symbol = call[d].symbol
                  /\ UNCHANGED <<holder, cacheVars>>
           New == /\ call'[d].at = "requesting" /\ holder' = d
                  /\ call'[d].sent = now /\ call'[d].sentClock = Clock
                  /\ Stale(call'[d].symbol)
                  /\ UNCHANGED <<envVars, cacheVars>>
<1> SUFFICES Old \/ New
  OBVIOUS
<1>0. Fetches(d) => holder = d /\ \A c \in Calls : Fetches(c) => c = d
  BY DEF OneFetchServesAll, Fetching, Fetches
<1>1. ASSUME NEW c \in Calls, NEW s \in Symbols, Get(c, s) PROVE Old \/ New
  <2>1. CASE call' = [call EXCEPT ![c] = Begin(s)] /\ UNCHANGED holder
    <3>1. call'[c] = Begin(s) /\ \A e \in Calls \ {c} : call'[e] = call[e]
      BY <2>1, Moved
    <3>2. c # d
      BY <3>1 DEF Fetches, Begin
    <3> QED
      BY <1>1, <2>1, <3>1, <3>2 DEF Get, Fetches
  <2>2. CASE holder = NoCall /\ Stale(s) /\ holder' = c /\ call' = [call EXCEPT ![c] = Request(Begin(s))]
    <3>1. call'[c] = Request(Begin(s)) /\ \A e \in Calls \ {c} : call'[e] = call[e]
      BY <2>2, Moved
    <3>2. CASE c = d
      BY <1>1, <2>2, <3>1, <3>2 DEF Get, Request, Begin
    <3>3. CASE c # d
      BY <1>0, <2>2, <3>1, <3>3, CallsAssumption DEF Fetches
    <3> QED
      BY <3>2, <3>3
  <2>3. CASE UNCHANGED <<call, lockVars>>
    BY <1>1, <2>3 DEF Get, lockVars, Fetches
  <2> QED
    BY <1>1, <2>1, <2>2, <2>3 DEF Get
<1>2. ASSUME NEW c \in Calls, Enter(c) PROVE Old \/ New
  <2>1. CASE Stale(call[c].symbol) /\ call' = [call EXCEPT ![c] = Request(@)] /\ UNCHANGED lockVars
    <3>1. call' = [call EXCEPT ![c] = Request(call[c])]
      BY <2>1 DEF TypeInv
    <3>2. call'[c] = Request(call[c]) /\ \A e \in Calls \ {c} : call'[e] = call[e]
      BY <3>1, Moved
    <3>3. CASE c = d
      BY <1>2, <2>1, <3>2, <3>3 DEF Enter, Request, lockVars
    <3>4. CASE c # d
      BY <1>2, <2>1, <3>2, <3>4 DEF Enter, lockVars, Fetches
    <3> QED
      BY <3>3, <3>4
  <2>2. CASE call' = [call EXCEPT ![c] = Idle]
    <3>1. call'[c] = Idle /\ \A e \in Calls \ {c} : call'[e] = call[e]
      BY <2>2, Moved
    <3>2. Fetches(d) /\ holder = c /\ c # d
      BY <1>2, <3>1 DEF Enter, Fetches, Idle
    <3> QED
      BY <1>0, <3>2
  <2> QED
    BY <1>2, <2>1, <2>2 DEF Enter, Leave
<1>3. ASSUME NEW c \in Calls, ExchangeAnswers(c) PROVE Old \/ New
  <2> DEFINE g == [at |-> "answered", symbol |-> call[c].symbol, since |-> call[c].since,
                   trading |-> call[c].trading, sent |-> call[c].sent,
                   sentClock |-> call[c].sentClock, response |-> listed, answeredAt |-> now]
  <2>1. call' = [call EXCEPT ![c] = g]
    BY <1>3 DEF ExchangeAnswers, TypeInv
  <2>2. call'[c] = g /\ \A e \in Calls \ {c} : call'[e] = call[e]
    BY <2>1, Moved
  <2> QED
    BY <1>3, <2>2 DEF ExchangeAnswers, lockVars, Fetches
<1>4. ASSUME NEW c \in Calls, Refreshed(c) PROVE Old \/ New
  <2>1. call' = [call EXCEPT ![c] = Idle]
    BY <1>4 DEF Refreshed, Leave
  <2>2. call'[c] = Idle /\ \A e \in Calls \ {c} : call'[e] = call[e]
    BY <2>1, Moved
  <2>3. Fetches(c) /\ Fetches(d) /\ c # d
    BY <1>4, <2>2 DEF Refreshed, Fetches, Idle
  <2> QED
    BY <1>0, <2>3
<1>5. ASSUME NEW c \in Calls, RefreshFails(c) \/ Cancelled(c) PROVE Old \/ New
  <2>1. call' = [call EXCEPT ![c] = Idle]
    BY <1>5 DEF RefreshFails, Cancelled, Leave
  <2>2. call'[c] = Idle /\ \A e \in Calls \ {c} : call'[e] = call[e]
    BY <2>1, Moved
  <2>3. Fetches(d) /\ c # d /\ call'[d] = call[d]
    BY <2>2 DEF Fetches, Idle
  <2>4. holder = d /\ ~Fetches(c)
    BY <1>0, <2>3
  <2> QED
    BY <1>5, <2>3, <2>4 DEF RefreshFails, Cancelled, Fetching, Fetches
<1>6. ASSUME NEW s \in Symbols, Delist(s) PROVE Old \/ New
  <2>1. call'[d] = IF InGet(d) /\ call[d].symbol = s THEN [call[d] EXCEPT !.trading = FALSE]
                   ELSE call[d]
    BY <1>6 DEF Delist
  <2>2. \/ call'[d] = call[d]
        \/ /\ call[d] \in WaitingCalls \cup RequestingCalls \cup AnsweredCalls
           /\ call'[d] = [call[d] EXCEPT !.trading = FALSE]
    BY <2>1, CallForms DEF InGet
  <2> QED
    BY <1>6, <2>2 DEF Delist, Fetches, lockVars, RequestingCalls, AnsweredCalls, WaitingCalls
<1>7. CASE (\E s \in Symbols : List(s)) \/ SetClockBack \/ Tick
  BY <1>7 DEF List, SetClockBack, Tick, lockVars, Fetches
<1>8. CASE UNCHANGED vars
  BY <1>8 DEF vars, lockVars, Fetches
<1> QED
  BY <1>1, <1>2, <1>3, <1>4, <1>5, <1>6, <1>7, <1>8 DEF Next, CallStep
(* Of callers that find the cache out of date together, one refreshes it.   *)
THEOREM OneRequestAtATime == Spec => []OneFetchServesAll
<1>1. Init => OneFetchServesAll
  BY DEF Init, OneFetchServesAll, Fetching, Idle
<1>2. TypeInv /\ TypeInv' /\ OneFetchServesAll /\ [Next]_vars => OneFetchServesAll'
  <2> SUFFICES ASSUME TypeInv, OneFetchServesAll, [Next]_vars, NEW d \in Calls, Fetches(d)'
               PROVE  /\ holder' = d
                      /\ \/ call'[d].sentClock - fetchedAt' > Ttl
                         \/ call'[d].symbol \notin symbols'
    BY DEF OneFetchServesAll, Fetching, Fetches
  <2>1. CASE /\ Fetches(d)
             /\ call'[d].sentClock = call[d].sentClock /\ call'[d].symbol = call[d].symbol
             /\ UNCHANGED <<holder, cacheVars>>
    BY <2>1 DEF OneFetchServesAll, Fetching, Fetches, cacheVars
  <2>2. CASE /\ holder' = d /\ call'[d].sentClock = Clock
             /\ Stale(call'[d].symbol) /\ UNCHANGED cacheVars
    BY <2>2 DEF Stale, cacheVars
  <2> QED
    BY <2>1, <2>2, NextFetching
<1> QED
  BY Types, <1>1, <1>2, PTL DEF Spec

-----------------------------------------------------------------------------
(* How old an answer can be.                                                *)

AgeInv ==
  /\ setBack <= MaxSetBack
  /\ fetchedAt - FetchTimeout <= asOf
  /\ \A c \in Calls : Fetches(c) => call[c].sent <= now /\ now <= call[c].sent + FetchTimeout
  /\ \A c \in Calls : call[c].at = "answered" =>
       call[c].sent <= call[c].answeredAt /\ call[c].answeredAt <= now
  /\ AnswersAreFresh

(* What is found in a cache that is not stale is fresh.                     *)
LEMMA NotStaleIsFresh ==
  ASSUME TypeInv, AgeInv, NEW g, ~Stale(g.symbol)
  PROVE  Found(g, symbols, asOf).kind = "ok" =>
           Found(g, symbols, asOf).age <= Ttl + FetchTimeout + MaxSetBack
<1>1. now - setBack - fetchedAt <= Ttl
  BY TimesAssumption DEF Stale, Clock, TypeInv
<1>2. now - asOf <= Ttl + FetchTimeout + MaxSetBack
  BY <1>1, TimesAssumption DEF AgeInv, TypeInv
<1>3. Found(g, symbols, asOf).kind = "ok" => Found(g, symbols, asOf).age = now - asOf
  BY DEF Found
<1> QED
  BY <1>2, <1>3

LEMMA NextAnswer ==
  ASSUME TypeInv, AgeInv, [Next]_vars
  PROVE  AnswersAreFresh'
<1>0. AnswersAreFresh
  BY DEF AgeInv
<1>1. ASSUME answer' = answer PROVE AnswersAreFresh'
  BY <1>0, <1>1 DEF AnswersAreFresh
<1>2. ASSUME answer' = Failed PROVE AnswersAreFresh'
  BY <1>2 DEF AnswersAreFresh, Failed
<1>3. ASSUME NEW c \in Calls, NEW s \in Symbols, Get(c, s) PROVE AnswersAreFresh'
  <2>1. CASE ~Stale(s) /\ answer' = Found(Begin(s), symbols, asOf)
    <3>1. Begin(s).symbol = s
      BY DEF Begin
    <3> QED
      BY <2>1, <3>1, NotStaleIsFresh DEF AnswersAreFresh
  <2> QED
    BY <1>1, <1>3, <2>1 DEF Get
<1>4. ASSUME NEW c \in Calls, Enter(c) PROVE AnswersAreFresh'
  BY <1>1, <1>4, NotStaleIsFresh DEF Enter, Leave, AnswersAreFresh
<1>5. ASSUME NEW c \in Calls, Refreshed(c) PROVE AnswersAreFresh'
  <2>1. /\ call[c] \in AnsweredCalls /\ asOf' = call[c].answeredAt
        /\ answer' = Found(call[c], symbols', asOf')
    BY <1>5, CallForms DEF Refreshed, Leave
  <2>2. call[c].answeredAt \in Nat /\ call[c].sent \in Nat
    BY <2>1 DEF AnsweredCalls
  <2>3. now <= call[c].answeredAt + FetchTimeout
    BY <1>5, <2>2, TimesAssumption DEF Refreshed, AgeInv, TypeInv, Fetches
  <2>4. answer'.kind = "ok" => answer'.age = now - call[c].answeredAt
    BY <2>1 DEF Found
  <2> QED
    BY <2>2, <2>3, <2>4, TimesAssumption DEF AnswersAreFresh, TypeInv
<1>6. ASSUME NEW c \in Calls, RefreshFails(c) \/ Cancelled(c) PROVE AnswersAreFresh'
  BY <1>2, <1>6 DEF RefreshFails, Cancelled, Leave
<1>7. ASSUME NEW c \in Calls, ExchangeAnswers(c) PROVE AnswersAreFresh'
  BY <1>1, <1>7 DEF ExchangeAnswers
<1>8. CASE (\E s \in Symbols : List(s) \/ Delist(s)) \/ SetClockBack \/ Tick
  BY <1>1, <1>8 DEF List, Delist, SetClockBack, Tick
<1>9. CASE UNCHANGED vars
  BY <1>1, <1>9 DEF vars
<1> QED
  BY <1>3, <1>4, <1>5, <1>6, <1>7, <1>8, <1>9 DEF Next, CallStep
(* An answer that is being read was there before, or is what is listed now. *)
LEMMA NextAnswered ==
  ASSUME TypeInv, [Next]_vars, NEW d \in Calls, call'[d].at = "answered"
  PROVE  \/ /\ call[d].at = "answered"
            /\ call'[d].sent = call[d].sent /\ call'[d].answeredAt = call[d].answeredAt
            /\ call'[d].symbol = call[d].symbol /\ call'[d].response = call[d].response
            /\ call'[d].trading => call[d].trading
         \/ /\ call[d].at = "requesting"
            /\ call'[d].sent = call[d].sent /\ call'[d].answeredAt = now
            /\ call'[d].symbol = call[d].symbol /\ call'[d].response = listed
            /\ call'[d].trading = call[d].trading
            /\ UNCHANGED envVars
<1> DEFINE Old == /\ call[d].at = "answered"
                  /\ call'[d].sent = call[d].sent /\ call'[d].answeredAt = call[d].answeredAt
                  /\ call'[d].symbol = call[d].symbol /\ call'[d].response = call[d].response
                  /\ call'[d].trading => call[d].trading
           New == /\ call[d].at = "requesting"
                  /\ call'[d].sent = call[d].sent /\ call'[d].answeredAt = now
                  /\ call'[d].symbol = call[d].symbol /\ call'[d].response = listed
                  /\ call'[d].trading = call[d].trading
                  /\ UNCHANGED envVars
<1> SUFFICES Old \/ New
  OBVIOUS
<1>1. ASSUME call'[d] = call[d] PROVE Old \/ New
  BY <1>1
<1>2. ASSUME NEW c \in Calls, NEW g, g.at # "answered", call' = [call EXCEPT ![c] = g] PROVE Old \/ New
  <2>1. call'[c] = g /\ \A e \in Calls \ {c} : call'[e] = call[e]
    BY <1>2, Moved
  <2> QED
    BY <1>1, <1>2, <2>1
<1>3. ASSUME NEW c \in Calls, NEW s \in Symbols, Get(c, s) PROVE Old \/ New
  <2>1. Begin(s).at # "answered" /\ Request(Begin(s)).at # "answered"
    BY DEF Begin, Request
  <2>2. \/ call' = [call EXCEPT ![c] = Begin(s)]
        \/ call' = [call EXCEPT ![c] = Request(Begin(s))]
        \/ call' = call
    BY <1>3 DEF Get
  <2> QED
    BY <1>1, <1>2, <2>1, <2>2
<1>4. ASSUME NEW c \in Calls, Enter(c) PROVE Old \/ New
  <2>1. Request(call[c]).at # "answered" /\ Idle.at # "answered"
    BY DEF Request, Idle
  <2>2. \/ call' = [call EXCEPT ![c] = Request(call[c])]
        \/ call' = [call EXCEPT ![c] = Idle]
    BY <1>4 DEF Enter, Leave, TypeInv
  <2> QED
    BY <1>2, <2>1, <2>2
<1>5. ASSUME NEW c \in Calls, Refreshed(c) \/ RefreshFails(c) \/ Cancelled(c) PROVE Old \/ New
  <2>1. Idle.at # "answered"
    BY DEF Idle
  <2>2. call' = [call EXCEPT ![c] = Idle]
    BY <1>5 DEF Refreshed, RefreshFails, Cancelled, Leave
  <2> QED
    BY <1>2, <2>1, <2>2
<1>6. ASSUME NEW c \in Calls, ExchangeAnswers(c) PROVE Old \/ New
  <2> DEFINE g == [at |-> "answered", symbol |-> call[c].symbol, since |-> call[c].since,
                   trading |-> call[c].trading, sent |-> call[c].sent,
                   sentClock |-> call[c].sentClock, response |-> listed, answeredAt |-> now]
  <2>1. call' = [call EXCEPT ![c] = g]
    BY <1>6 DEF ExchangeAnswers, TypeInv
  <2>2. call'[c] = g /\ \A e \in Calls \ {c} : call'[e] = call[e]
    BY <2>1, Moved
  <2> QED
    BY <1>1, <1>6, <2>2 DEF ExchangeAnswers
<1>7. ASSUME NEW s \in Symbols, Delist(s) PROVE Old \/ New
  <2>1. call'[d] = IF InGet(d) /\ call[d].symbol = s THEN [call[d] EXCEPT !.trading = FALSE]
                   ELSE call[d]
    BY <1>7 DEF Delist
  <2>2. \/ call'[d] = call[d]
        \/ /\ call[d] \in WaitingCalls \cup RequestingCalls \cup AnsweredCalls
           /\ call'[d] = [call[d] EXCEPT !.trading = FALSE]
    BY <2>1, CallForms DEF InGet
  <2> QED
    BY <1>1, <2>2 DEF RequestingCalls, AnsweredCalls, WaitingCalls
<1>8. CASE (\E s \in Symbols : List(s)) \/ SetClockBack \/ Tick \/ UNCHANGED vars
  BY <1>1, <1>8 DEF List, SetClockBack, Tick, vars
<1> QED
  BY <1>3, <1>4, <1>5, <1>6, <1>7, <1>8 DEF Next, CallStep

LEMMA NextAge ==
  ASSUME TypeInv, TypeInv', OneFetchServesAll, AgeInv, [Next]_vars
  PROVE  AgeInv'
<1>1. AnswersAreFresh'
  BY NextAnswer
<1>2. CASE Tick
  <2>1. now' = now + 1 /\ UNCHANGED <<setBack, cacheVars, call>>
    BY <1>2 DEF Tick
  <2>2. ASSUME NEW c \in Calls, Fetches(c)
        PROVE  call[c].sent \in Nat /\ now < call[c].sent + FetchTimeout
    <3>1. call[c].sent \in Nat
      BY <2>2, CallForms DEF Fetches, RequestingCalls, AnsweredCalls
    <3> QED
      BY <1>2, <2>2, <3>1 DEF Tick, OneFetchServesAll, Fetching, Fetches
  <2>3. \A c \in Calls : Fetches(c) => call[c].sent <= now + 1 /\ now + 1 <= call[c].sent + FetchTimeout
    BY <2>2, TimesAssumption DEF AgeInv, TypeInv
  <2>4. ASSUME NEW c \in Calls, call[c].at = "answered"
        PROVE  call[c].sent <= call[c].answeredAt /\ call[c].answeredAt <= now + 1
    BY <2>4, CallForms DEF AgeInv, TypeInv, AnsweredCalls
  <2> QED
    BY <1>1, <2>1, <2>3, <2>4 DEF AgeInv, Fetches, cacheVars
<1>3. CASE ~Tick
  <2>1. now' = now
    BY <1>3 DEF Next, CallStep, Get, Enter, Refreshed, RefreshFails, ExchangeAnswers, Cancelled,
                List, Delist, SetClockBack, envVars, vars
  <2>2. setBack' <= MaxSetBack
    <3>1. setBack' = setBack \/ SetClockBack
      BY <1>3 DEF Next, CallStep, Get, Enter, Refreshed, RefreshFails, ExchangeAnswers, Cancelled,
                  List, Delist, envVars, vars
    <3> QED
      BY <3>1, TimesAssumption DEF SetClockBack, AgeInv, TypeInv
  <2>3. fetchedAt' - FetchTimeout <= asOf'
    <3>1. CASE \E c \in Calls : Refreshed(c)
      <4>1. PICK c \in Calls : Refreshed(c)
        BY <3>1
      <4>2. call[c] \in AnsweredCalls
        BY <4>1, CallForms DEF Refreshed
      <4>3. call[c].sent \in Nat /\ call[c].answeredAt \in Nat
            /\ call[c].sent <= call[c].answeredAt /\ now <= call[c].sent + FetchTimeout
        BY <4>1, <4>2 DEF Refreshed, AgeInv, Fetches, AnsweredCalls
      <4>4. fetchedAt' = now - setBack /\ asOf' = call[c].answeredAt
        BY <4>1 DEF Refreshed, Clock
      <4> QED
        BY <4>3, <4>4, TimesAssumption DEF TypeInv
    <3>2. CASE ~\E c \in Calls : Refreshed(c)
      <4>1. UNCHANGED cacheVars
        BY <1>3, <3>2 DEF Next, CallStep, Get, Enter, RefreshFails, ExchangeAnswers, Cancelled,
                          List, Delist, SetClockBack, vars
      <4> QED
        BY <4>1 DEF AgeInv, cacheVars
    <3> QED
      BY <3>1, <3>2
  <2>4. ASSUME NEW c \in Calls, Fetches(c)'
        PROVE  call'[c].sent <= now' /\ now' <= call'[c].sent + FetchTimeout
    <3>1. CASE Fetches(c) /\ call'[c].sent = call[c].sent
      BY <2>1, <3>1 DEF AgeInv
    <3>2. CASE call'[c].sent = now
      BY <2>1, <3>2, TimesAssumption DEF TypeInv
    <3> QED
      BY <2>4, <3>1, <3>2, NextFetching
  <2>5. ASSUME NEW c \in Calls, call'[c].at = "answered"
        PROVE  call'[c].sent <= call'[c].answeredAt /\ call'[c].answeredAt <= now'
    <3>1. CASE /\ call[c].at = "answered"
               /\ call'[c].sent = call[c].sent /\ call'[c].answeredAt = call[c].answeredAt
      BY <2>1, <3>1 DEF AgeInv
    <3>2. CASE /\ call[c].at = "requesting"
               /\ call'[c].sent = call[c].sent /\ call'[c].answeredAt = now
      BY <2>1, <3>2 DEF AgeInv, Fetches, TypeInv
    <3> QED
      BY <2>5, <3>1, <3>2, NextAnswered
  <2> QED
    BY <1>1, <2>2, <2>3, <2>4, <2>5 DEF AgeInv, Fetches
<1> QED
  BY <1>2, <1>3

(* No filters are used that are older than lifetime, timeout and correction *)
(* of the clock together.                                                   *)
THEOREM FiltersAreFresh == Spec => []AnswersAreFresh
<1>1. Init => AgeInv
  <2> SUFFICES ASSUME Init PROVE AgeInv
    OBVIOUS
  <2>1. \A c \in Calls : call[c].at = "idle"
    BY DEF Init, Idle
  <2> QED
    BY <2>1, TimesAssumption DEF Init, AgeInv, Fetches, AnswersAreFresh
<1>2. TypeInv /\ TypeInv' /\ OneFetchServesAll /\ AgeInv /\ [Next]_vars => AgeInv'
  BY NextAge
<1>3. AgeInv => AnswersAreFresh
  BY DEF AgeInv
<1> QED
  BY Types, OneRequestAtATime, <1>1, <1>2, <1>3, PTL DEF Spec

-----------------------------------------------------------------------------
(* What a call knows of its symbol.                                         *)

TradingInv ==
  /\ \A c \in Calls : InGet(c) /\ call[c].trading => call[c].symbol \in listed
  /\ \A c \in Calls : call[c].at = "answered" /\ call[c].trading =>
       call[c].symbol \in call[c].response
  /\ UnknownDoesNotTrade
LEMMA NextListed ==
  ASSUME TypeInv, TradingInv, [Next]_vars, NEW d \in Calls, InGet(d)', call'[d].trading
  PROVE  call'[d].symbol \in listed'
<1> DEFINE Listed == call'[d].symbol \in listed'
<1>1. ASSUME call'[d] = call[d], listed \subseteq listed' PROVE Listed
  BY <1>1 DEF TradingInv, InGet
<1>2. ASSUME NEW c \in Calls, NEW g, call' = [call EXCEPT ![c] = g], listed' = listed,
             g.at # "idle" /\ g.trading => g.symbol \in listed
      PROVE  Listed
  <2>1. call'[c] = g /\ \A e \in Calls \ {c} : call'[e] = call[e]
    BY <1>2, Moved
  <2>2. CASE c = d
    BY <1>2, <2>1, <2>2 DEF InGet
  <2>3. CASE c # d
    BY <1>1, <1>2, <2>1, <2>3
  <2> QED
    BY <2>2, <2>3
<1>3. ASSUME NEW c \in Calls, NEW s \in Symbols, Get(c, s) PROVE Listed
  <2>1. /\ Begin(s).trading => Begin(s).symbol \in listed
        /\ Request(Begin(s)).trading => Request(Begin(s)).symbol \in listed
    BY BeginForm, RequestForm
  <2>2. \/ call' = [call EXCEPT ![c] = Begin(s)]
        \/ call' = [call EXCEPT ![c] = Request(Begin(s))]
        \/ call' = call
    BY <1>3 DEF Get
  <2>3. listed' = listed
    BY <1>3 DEF Get, envVars
  <2> QED
    BY <1>1, <1>2, <2>1, <2>2, <2>3
<1>4. ASSUME NEW c \in Calls, Enter(c) PROVE Listed
  <2>1. Request(call[c]).trading => Request(call[c]).symbol \in listed
    BY <1>4, CallForms, RequestForm DEF Enter, TradingInv, InGet
  <2>2. Idle.at = "idle"
    BY DEF Idle
  <2>3. /\ \/ call' = [call EXCEPT ![c] = Request(call[c])]
           \/ call' = [call EXCEPT ![c] = Idle]
        /\ listed' = listed
    BY <1>4 DEF Enter, Leave, TypeInv, envVars
  <2> QED
    BY <1>2, <2>1, <2>2, <2>3
<1>5. ASSUME NEW c \in Calls, Refreshed(c) \/ RefreshFails(c) \/ Cancelled(c) PROVE Listed
  <2>1. Idle.at = "idle"
    BY DEF Idle
  <2>2. call' = [call EXCEPT ![c] = Idle] /\ listed' = listed
    BY <1>5 DEF Refreshed, RefreshFails, Cancelled, Leave, envVars
  <2> QED
    BY <1>2, <2>1, <2>2
<1>6. ASSUME NEW c \in Calls, ExchangeAnswers(c) PROVE Listed
  <2> DEFINE g == [at |-> "answered", symbol |-> call[c].symbol, since |-> call[c].since,
                   trading |-> call[c].trading, sent |-> call[c].sent,
                   sentClock |-> call[c].sentClock, response |-> listed, answeredAt |-> now]
  <2>1. call' = [call EXCEPT ![c] = g] /\ listed' = listed
    BY <1>6 DEF ExchangeAnswers, TypeInv, envVars
  <2>2. g.trading => g.symbol \in listed
    BY <1>6 DEF ExchangeAnswers, TradingInv, InGet
  <2> QED
    BY <1>2, <2>1, <2>2
<1>7. ASSUME NEW s \in Symbols, Delist(s) PROVE Listed
  <2>1. /\ call'[d] = IF InGet(d) /\ call[d].symbol = s THEN [call[d] EXCEPT !.trading = FALSE]
                      ELSE call[d]
        /\ listed' = listed \ {s}
    BY <1>7 DEF Delist
  <2>2. CASE InGet(d) /\ call[d].symbol = s
    <3>1. call[d] \in WaitingCalls \cup RequestingCalls \cup AnsweredCalls
      BY <2>2, CallForms DEF InGet
    <3> QED
      BY <2>1, <2>2, <3>1 DEF RequestingCalls, AnsweredCalls, WaitingCalls
  <2>3. CASE ~(InGet(d) /\ call[d].symbol = s)
    BY <2>1, <2>3 DEF InGet, TradingInv
  <2> QED
    BY <2>2, <2>3
<1>8. CASE (\E s \in Symbols : List(s)) \/ SetClockBack \/ Tick \/ UNCHANGED vars
  BY <1>1, <1>8 DEF List, SetClockBack, Tick, vars, envVars
<1> QED
  BY <1>3, <1>4, <1>5, <1>6, <1>7, <1>8 DEF Next, CallStep

LEMMA NextUnknown ==
  ASSUME TypeInv, TradingInv, [Next]_vars
  PROVE  UnknownDoesNotTrade'
<1>1. ASSUME answer' \in {answer, Failed} PROVE UnknownDoesNotTrade'
  BY <1>1 DEF TradingInv, UnknownDoesNotTrade, Failed
<1>2. ASSUME NEW g, g.symbol \in symbols, answer' = Found(g, symbols, asOf)
      PROVE  UnknownDoesNotTrade'
  BY <1>2 DEF Found, UnknownDoesNotTrade
<1>3. ASSUME NEW c \in Calls, NEW s \in Symbols, Get(c, s) PROVE UnknownDoesNotTrade'
  <2>1. Begin(s).symbol = s
    BY DEF Begin
  <2> QED
    BY <1>1, <1>2, <1>3, <2>1 DEF Get, Stale
<1>4. ASSUME NEW c \in Calls, Enter(c) PROVE UnknownDoesNotTrade'
  BY <1>1, <1>2, <1>4 DEF Enter, Leave, Stale
<1>5. ASSUME NEW c \in Calls, Refreshed(c) PROVE UnknownDoesNotTrade'
  <2>1. /\ call[c].at = "answered" /\ symbols' = call[c].response
        /\ answer' = Found(call[c], symbols', asOf')
    BY <1>5 DEF Refreshed, Leave
  <2>2. call[c].trading => call[c].symbol \in symbols'
    BY <2>1 DEF TradingInv
  <2> QED
    BY <2>1, <2>2 DEF Found, UnknownDoesNotTrade
<1>6. ASSUME NEW c \in Calls, RefreshFails(c) \/ Cancelled(c) \/ ExchangeAnswers(c)
      PROVE  UnknownDoesNotTrade'
  BY <1>1, <1>6 DEF RefreshFails, Cancelled, Leave, ExchangeAnswers
<1>7. CASE (\E s \in Symbols : List(s) \/ Delist(s)) \/ SetClockBack \/ Tick \/ UNCHANGED vars
  BY <1>1, <1>7 DEF List, Delist, SetClockBack, Tick, vars
<1> QED
  BY <1>3, <1>4, <1>5, <1>6, <1>7 DEF Next, CallStep

(* A symbol that trades while a call asks for it is found.                  *)
THEOREM TradedSymbolsAreKnown == Spec => []UnknownDoesNotTrade
<1>1. Init => TradingInv
  <2> SUFFICES ASSUME Init PROVE TradingInv
    OBVIOUS
  <2>1. \A c \in Calls : call[c].at = "idle"
    BY DEF Init, Idle
  <2> QED
    BY <2>1 DEF Init, TradingInv, InGet, UnknownDoesNotTrade
<1>2. TypeInv /\ TradingInv /\ [Next]_vars => TradingInv'
  <2> SUFFICES ASSUME TypeInv, TradingInv, [Next]_vars PROVE TradingInv'
    OBVIOUS
  <2>1. \A c \in Calls : InGet(c)' /\ call'[c].trading => call'[c].symbol \in listed'
    BY NextListed
  <2>2. ASSUME NEW c \in Calls, call'[c].at = "answered", call'[c].trading
        PROVE  call'[c].symbol \in call'[c].response
    BY <2>2, NextAnswered DEF TradingInv, InGet
  <2>3. UnknownDoesNotTrade'
    BY NextUnknown
  <2> QED
    BY <2>1, <2>2, <2>3 DEF TradingInv, InGet
<1>3. TradingInv => UnknownDoesNotTrade
  BY DEF TradingInv
<1> QED
  BY Types, <1>1, <1>2, <1>3, PTL DEF Spec
=============================================================================
