---------------------------- MODULE FilterCache ----------------------------
(***************************************************************************)
(* The cache of the exchange's symbol filters (exchanges/filters.py) and   *)
(* the orders that ask it for them before they are sent (submit_order in   *)
(* exchanges/binance.py).  Callers wait their turn at an asyncio.Lock, and *)
(* whoever holds it reads exchangeInfo if the cache is too old or lacks    *)
(* its symbol.  Meanwhile the exchange lists and delists symbols.          *)
(*                                                                         *)
(* After the lock is released the lookup follows without a wait, so that   *)
(* leaving the lock and answering is one step.  What a filter says of      *)
(* prices and quantities is as old as the listing and not told apart.      *)
(***************************************************************************)
EXTENDS Integers, Sequences, FiniteSets, SequencesExt

CONSTANTS
  Calls,         \* tasks that submit orders
  NoCall,
  Symbols,
  Ttl,           \* _ttl
  FetchTimeout,  \* total timeout of the HTTP client, from request to body
  Cancellable,   \* calls that may be cancelled: the router's
  MaxSetBack,    \* by how much the system clock may be set back altogether
  MaxTime        \* bound on time

ASSUME CallsAssumption ==
  IsFiniteSet(Calls) /\ NoCall \notin Calls /\ Cancellable \subseteq Calls
ASSUME TimesAssumption ==
  /\ Ttl \in Nat /\ FetchTimeout \in Nat
  /\ MaxSetBack \in Nat /\ MaxTime \in Nat

VARIABLES
  now,        \* time as it passes
  setBack,    \* by how much time.time() has been set back so far
  listed,     \* external: the symbols with status TRADING
  symbols,    \* keys of _symbols
  fetchedAt,  \* _fetched_at
  asOf,       \* history: when the exchange gave the answer that is cached
  holder,     \* who holds _lock, or has just been woken to take it
  waiters,    \* those queued at _lock, in the order they came
  call,       \* per call: what it does in submit_order
  answer      \* history: how the last get to end did

envVars   == <<now, setBack, listed>>
cacheVars == <<symbols, fetchedAt, asOf>>
lockVars  == <<holder, waiters>>
vars      == <<envVars, cacheVars, lockVars, call, answer>>

Clock == now - setBack            \* time.time()

Idle == [at |-> "idle"]

\* A call in get: for which symbol, since when, and whether the symbol has
\* been trading all the while; for a request also when (by either clock) it
\* was sent, and the answer given to it, at what time.
Points   == {"waiting", "requesting", "answered"}
Fetching == {c \in Calls : call[c].at \in {"requesting", "answered"}}
InGet(c) == call[c].at # "idle"

-----------------------------------------------------------------------------
(* get.                                                                     *)

\* Mutants of Stale: the age is not looked at; the symbol is not.
MutStaleAge(s)    == s \notin symbols
MutStaleSymbol(s) == Clock - fetchedAt > Ttl

(* The test under the lock.                                                 *)
Stale(s) == Clock - fetchedAt > Ttl \/ s \notin symbols

Begin(s) == [at |-> "waiting", symbol |-> s, since |-> now, trading |-> s \in listed]

Request(g) == [at |-> "requesting", symbol |-> g.symbol, since |-> g.since,
               trading |-> g.trading, sent |-> now, sentClock |-> Clock]

Failed == [kind |-> "failed"]          \* whatever the request raised

(* The lookup after the lock, in what is cached and how old that is: no     *)
(* entry is a KeyError.                                                     *)
Found(g, cached, since) ==
  IF g.symbol \in cached THEN [kind |-> "ok", age |-> now - since]
                         ELSE [kind |-> "unknown", trading |-> g.trading]

(* The lock goes to the one who has waited longest.                         *)
Release == IF waiters = <<>>
             THEN holder' = NoCall /\ UNCHANGED waiters
             ELSE holder' = Head(waiters) /\ waiters' = Tail(waiters)

Leave(c, a) == call' = [call EXCEPT ![c] = Idle] /\ answer' = a

(* The lock is free: the test is made at once.                              *)
Get(c, s) ==
  /\ ~InGet(c)
  /\ \/ /\ holder # NoCall
        /\ waiters' = Append(waiters, c)
        /\ call' = [call EXCEPT ![c] = Begin(s)]
        /\ UNCHANGED <<holder, answer>>
     \/ /\ holder = NoCall /\ Stale(s)
        /\ holder' = c
        /\ call' = [call EXCEPT ![c] = Request(Begin(s))]
        /\ UNCHANGED <<waiters, answer>>
     \/ /\ holder = NoCall /\ ~Stale(s)
        /\ answer' = Found(Begin(s), symbols, asOf)
        /\ UNCHANGED <<call, lockVars>>
  /\ UNCHANGED <<envVars, cacheVars>>

\* Mutant of Enter: the test was made before the wait for the lock.
MutEnter(c) == /\ call[c].at = "waiting" /\ holder = c
               /\ call' = [call EXCEPT ![c] = Request(@)]
               /\ UNCHANGED <<envVars, cacheVars, lockVars, answer>>

(* A waiter is woken with the lock and makes the test itself.               *)
Enter(c) ==
  /\ call[c].at = "waiting" /\ holder = c
  /\ \/ /\ Stale(call[c].symbol)
        /\ call' = [call EXCEPT ![c] = Request(@)]
        /\ UNCHANGED <<lockVars, answer>>
     \/ /\ ~Stale(call[c].symbol)
        /\ Leave(c, Found(call[c], symbols, asOf))
        /\ Release
  /\ UNCHANGED <<envVars, cacheVars>>

-----------------------------------------------------------------------------
(* _refresh.                                                                *)

(* The exchange answers with what trades at that moment.                    *)
ExchangeAnswers(c) ==
  /\ call[c].at = "requesting"
  /\ call' = [call EXCEPT ![c] =
       [at |-> "answered", symbol |-> @.symbol, since |-> @.since, trading |-> @.trading,
        sent |-> @.sent, sentClock |-> @.sentClock, response |-> listed, answeredAt |-> now]]
  /\ UNCHANGED <<envVars, cacheVars, lockVars, answer>>

(* The body is read: the cache is replaced as a whole and the call returns. *)
Refreshed(c) ==
  /\ call[c].at = "answered"
  /\ symbols' = call[c].response
  /\ fetchedAt' = Clock
  /\ asOf' = call[c].answeredAt
  /\ Leave(c, Found(call[c], symbols', asOf'))
  /\ Release
  /\ UNCHANGED envVars

\* Mutant of RefreshFails: the lock stays locked.
MutKeepsLock(c) == /\ c \in Fetching
                   /\ Leave(c, Failed)
                   /\ UNCHANGED <<envVars, cacheVars, lockVars>>

(* An error status, a lost connection or the timeout: the cache stays as it *)
(* was, the lock is released and the exception leaves get.                  *)
RefreshFails(c) == /\ c \in Fetching
                   /\ Leave(c, Failed)
                   /\ Release
                   /\ UNCHANGED <<envVars, cacheVars>>

(* A task that is cancelled releases the lock, or gives up its place.       *)
Cancelled(c) ==
  /\ c \in Cancellable /\ InGet(c)
  /\ Leave(c, Failed)
  /\ \/ holder = c /\ Release
     \/ /\ holder # c /\ UNCHANGED holder
        /\ \E i \in DOMAIN waiters : waiters[i] = c /\ waiters' = RemoveAt(waiters, i)
  /\ UNCHANGED <<envVars, cacheVars>>

-----------------------------------------------------------------------------
(* The exchange and time.                                                   *)

Delist(s) == /\ s \in listed
             /\ listed' = listed \ {s}
             /\ call' = [c \in Calls |->
                  IF InGet(c) /\ call[c].symbol = s THEN [call[c] EXCEPT !.trading = FALSE]
                  ELSE call[c]]
             /\ UNCHANGED <<now, setBack, cacheVars, lockVars, answer>>

List(s) == /\ s \notin listed
           /\ listed' = listed \cup {s}
           /\ UNCHANGED <<now, setBack, cacheVars, lockVars, call, answer>>

(* Time does not pass while a task is ready to run, nor beyond the timeout  *)
(* of a request under way.                                                  *)
Tick == /\ now < MaxTime
        /\ \A c \in Calls : holder = c => c \in Fetching /\ now < call[c].sent + FetchTimeout
        /\ now' = now + 1
        /\ UNCHANGED <<setBack, listed, cacheVars, lockVars, call, answer>>

(* time.time() is no monotonic clock.                                       *)
SetClockBack == /\ setBack < MaxSetBack
                /\ setBack' = setBack + 1
                /\ UNCHANGED <<now, listed, cacheVars, lockVars, call, answer>>

Init ==
  /\ now = 0 /\ setBack = 0 /\ listed = Symbols
  /\ symbols = {} /\ fetchedAt = 0 - Ttl - 1 /\ asOf = 0
  /\ holder = NoCall /\ waiters = <<>>
  /\ call = [c \in Calls |-> Idle]
  /\ answer = [kind |-> "none"]

CallStep(c) == Enter(c) \/ Refreshed(c) \/ RefreshFails(c)

Next == \/ \E c \in Calls :
             \/ \E s \in Symbols : Get(c, s)
             \/ CallStep(c) \/ ExchangeAnswers(c) \/ Cancelled(c)
        \/ \E s \in Symbols : List(s) \/ Delist(s)
        \/ Tick \/ SetClockBack

Spec == Init /\ [][Next]_vars

(* The event loop runs a task that is ready, and a request ends: with an    *)
(* answer, an error or its timeout.                                         *)
FairSpec == Spec /\ \A c \in Calls : WF_vars(CallStep(c))

-----------------------------------------------------------------------------
(* Type invariant: also who may hold the lock, and who may wait for it.     *)
TypeOK ==
  /\ now \in Nat /\ setBack \in Nat /\ listed \subseteq Symbols
  /\ symbols \subseteq Symbols /\ fetchedAt \in Int /\ asOf \in Nat
  /\ holder \in Calls \cup {NoCall} /\ waiters \in Seq(Calls)
  /\ \A c \in Calls :
       /\ call[c].at \in Points \cup {"idle"}
       /\ InGet(c) => call[c].symbol \in Symbols /\ call[c].since \in 0..now
                      /\ call[c].trading \in BOOLEAN
  /\ answer.kind \in {"none", "ok", "unknown", "failed"}
  /\ holder = NoCall => waiters = <<>>

(* Of callers that find the cache out of date together, one reads           *)
(* exchangeInfo and the others go by its answer: a request is under way for *)
(* one caller only, and what was cached when it was sent would not do       *)
(* (filters.py get: the test is made under the lock).                       *)
OneFetchServesAll ==
  \A c \in Fetching :
    /\ holder = c
    /\ call[c].sentClock - fetchedAt > Ttl \/ call[c].symbol \notin symbols

(* No order is checked against filters older than the lifetime of the cache *)
(* and the time their answer took, counted from when the exchange gave it:  *)
(* _fetched_at is taken when the answer has come.  A clock that is set back *)
(* adds as much (filters.py get).                                           *)
AnswersAreFresh ==
  answer.kind = "ok" => answer.age <= Ttl + FetchTimeout + MaxSetBack

(* A symbol that trades all the while a call asks for it is not unknown,    *)
(* whatever is cached and whoever refreshes it meanwhile (filters.py get).  *)
UnknownDoesNotTrade ==
  answer.kind = "unknown" => ~answer.trading

(* Every call gets its turn and ends, also after failures and cancellation  *)
(* of those ahead of it (filters.py get: async with releases the lock).     *)
CallsEnd == \A c \in Calls : InGet(c) ~> ~InGet(c)
=============================================================================
