---------------------------- MODULE RateLimiter ----------------------------
(***************************************************************************)
(* The venue rate limiter (sybakiller/adapters/rate_limit.py) and the two  *)
(* ways the program gets hold of one: BinanceAdapter keeps a limiter for   *)
(* its "rest" bucket, while the gateway asks ExchangeAdapter.rate_limiter  *)
(* for one on every call, which builds a new limiter each time.            *)
(*                                                                         *)
(* Tokens are floats in the code; here one token is Cost credits and one   *)
(* tick of the clock refills Rate[b] credits, so that every amount is an   *)
(* integer.  Times are kept relative to the present.                       *)
(***************************************************************************)
EXTENDS Integers

CONSTANTS
  Callers,     \* coroutines that call acquire
  Buckets,     \* "order", "cancel", "rest"
  PerCall,     \* the buckets taken from a limiter built for that one call
  Rate,        \* _limits: credits a bucket gains per tick
  Burst,       \* _burst, in credits
  Cost,        \* credits in a token
  ZeroRatePoll,\* ticks in the 0.1 s poll of a bucket whose rate is zero
  Saturation,  \* ticks after which elapsed time no longer makes a difference
  MaxWindow    \* longest window over which grants are counted

ASSUME CreditsAssumption ==
  /\ Cost \in Nat \ {0} /\ Burst \in Nat /\ Burst >= Cost
  /\ Rate \in [Buckets -> Nat]
  /\ PerCall \subseteq Buckets
ASSUME TimeAssumption ==
  /\ Saturation \in Nat /\ MaxWindow \in Nat /\ ZeroRatePoll \in Nat \ {0}
  /\ \A b \in Buckets : Rate[b] # 0 => Saturation * Rate[b] >= Burst

VARIABLES
  tokens,     \* per bucket: _BucketState.tokens, as of the last refill
  elapsed,    \* per bucket: time since _BucketState.last_refill, saturating
  sleeping,   \* per caller: the bucket it sleeps for, or Awake
  remaining,  \* per caller: ticks left of its asyncio.sleep
  overtaken,  \* history: sleepers whose bucket granted a token since
  window,     \* history: age of the window being counted, or Closed
  granted     \* history: per bucket, tokens granted within that window

bucketVars == <<tokens, elapsed>>
vars == <<bucketVars, sleeping, remaining, overtaken, window, granted>>

Awake  == "awake"
Closed == -1

ASSUME BucketsAssumption == Awake \notin Buckets

Lesser(x, y) == IF x <= y THEN x ELSE y

\* Mutant of Refilled: only whole tokens are credited, and the stamp moves on
\* all the same.
MutRefilledWhole(b) ==
  Lesser(Burst, tokens[b] + ((elapsed[b] * Rate[b]) \div Cost) * Cost)

(* state.tokens as acquire computes it on entry.  A bucket's first acquire  *)
(* finds it full (setdefault), which is what Init says.                     *)
Refilled(b) == Lesser(Burst, tokens[b] + elapsed[b] * Rate[b])

Available(b) == IF b \in PerCall THEN Burst ELSE Refilled(b)

\* Mutant of TicksFor: the quotient is truncated, the sleeper wakes early.
MutTicksFor(deficit, rate) == IF rate > 0 THEN deficit \div rate ELSE ZeroRatePoll

(* wait = deficit / rate if rate > 0 else 0.1, in whole ticks.              *)
TicksFor(deficit, rate) ==
  IF rate > 0 THEN (deficit + rate - 1) \div rate ELSE ZeroRatePoll

-----------------------------------------------------------------------------
(* The body of acquire's loop.  It runs under a lock but never suspends     *)
(* while it holds it, so it is one step.                                    *)

\* Mutant of Refill: the tokens are stored, last_refill is not.
MutRefill(b, left) == /\ tokens' = [tokens EXCEPT ![b] = left]
                      /\ UNCHANGED elapsed

(* state.last_refill = now, and the tokens left after this pass.            *)
Refill(b, left) ==
  IF b \in PerCall
  THEN UNCHANGED bucketVars       \* the new limiter is dropped with the call
  ELSE /\ tokens' = [tokens EXCEPT ![b] = left]
       /\ elapsed' = [elapsed EXCEPT ![b] = 0]

Grant(c, b) ==
  /\ Available(b) >= Cost
  /\ Refill(b, Available(b) - Cost)
  /\ sleeping' = [sleeping EXCEPT ![c] = Awake]
  /\ remaining' = [remaining EXCEPT ![c] = 0]
  /\ overtaken' = {d \in Callers : sleeping'[d] # Awake
                                   /\ (d \in overtaken \/ sleeping[d] = b)}
  /\ granted' = IF window = Closed THEN granted
                                   ELSE [granted EXCEPT ![b] = @ + 1]
  /\ UNCHANGED window

Deny(c, b) ==
  /\ Available(b) < Cost
  /\ Refill(b, Available(b))
  /\ sleeping' = [sleeping EXCEPT ![c] = b]
  /\ remaining' = [remaining EXCEPT ![c] = TicksFor(Cost - Available(b), Rate[b])]
  /\ overtaken' = overtaken \ {c}
  /\ UNCHANGED <<window, granted>>

(* acquire is called ...                                                    *)
Acquire(c, b) ==
  /\ sleeping[c] = Awake
  /\ Grant(c, b) \/ Deny(c, b)

(* ... and goes round its loop when its sleep is over.                      *)
Retry(c) ==
  /\ sleeping[c] # Awake /\ remaining[c] = 0
  /\ Grant(c, sleeping[c]) \/ Deny(c, sleeping[c])

(* Time passes, for the buckets, the sleepers and the counted window.  A    *)
(* sleeper may be woken late: the event loop is busy with something else.   *)
Tick ==
  /\ elapsed' = [b \in Buckets |-> Lesser(Saturation, elapsed[b] + 1)]
  /\ remaining' = [c \in Callers |-> IF remaining[c] = 0 THEN 0 ELSE remaining[c] - 1]
  /\ window' = IF window = MaxWindow \/ window = Closed THEN Closed ELSE window + 1
  /\ granted' = IF window' = Closed THEN [b \in Buckets |-> 0] ELSE granted
  /\ UNCHANGED <<tokens, sleeping, overtaken>>

(* An observer starts to count the grants of every bucket, at any moment.   *)
OpenWindow ==
  /\ window = Closed
  /\ window' = 0
  /\ UNCHANGED <<bucketVars, sleeping, remaining, overtaken, granted>>

Init ==
  /\ tokens = [b \in Buckets |-> Burst]
  /\ elapsed = [b \in Buckets |-> 0]
  /\ sleeping = [c \in Callers |-> Awake]
  /\ remaining = [c \in Callers |-> 0]
  /\ overtaken = {}
  /\ window = Closed
  /\ granted = [b \in Buckets |-> 0]

Arrival == \E c \in Callers, b \in Buckets : Acquire(c, b)

Next == \/ Arrival
        \/ \E c \in Callers : Retry(c)
        \/ Tick
        \/ OpenWindow

Spec == Init /\ [][Next]_vars

(* Time goes on, and the event loop runs every coroutine whose sleep ended. *)
FairSpec == Spec /\ WF_vars(Tick) /\ \A c \in Callers : WF_vars(Retry(c))

-----------------------------------------------------------------------------
(* Type invariant; it includes that a bucket never holds more than Burst.   *)
TypeOK ==
  /\ tokens \in [Buckets -> 0..Burst]
  /\ elapsed \in [Buckets -> 0..Saturation]
  /\ sleeping \in [Callers -> Buckets \cup {Awake}]
  /\ remaining \in [Callers -> Nat]
  /\ overtaken \subseteq {c \in Callers : sleeping[c] # Awake}
  /\ window \in (0..MaxWindow) \cup {Closed}
  /\ granted \in [Buckets -> Nat]

(* The limiter's contract: over any window, however its start and length    *)
(* fall relative to the calls, a bucket grants at most the burst plus what  *)
(* its rate refills in that time.  ("one limiter instance per adapter".)    *)
GrantsWithinRate ==
  window # Closed =>
    \A b \in Buckets : granted[b] * Cost <= Burst + Rate[b] * window

(* A sleep is long enough: when it ends there is a token for the sleeper,   *)
(* unless somebody else was granted one of the bucket's tokens meanwhile.   *)
(* acquire never wakes just to find it must sleep again.                    *)
SleepIsEnough ==
  \A c \in Callers :
    LET b == sleeping[c] IN
    (b # Awake /\ c \notin overtaken /\ Rate[b] # 0) =>
      tokens[b] + (elapsed[b] + remaining[c]) * Rate[b] >= Cost

(* A sleep is no longer than needed: a sleeper is never left more than one  *)
(* tick beyond the moment its token is there.                               *)
SleepIsNotTooLong ==
  \A c \in Callers :
    LET b == sleeping[c] IN
    (b # Awake /\ remaining[c] > 1 /\ Rate[b] # 0) =>
      tokens[b] + (elapsed[b] + remaining[c] - 1) * Rate[b] < Cost

(* acquire sleeps for as long as its token takes, whatever the others do.   *)
SleepIsExact == SleepIsEnough /\ SleepIsNotTooLong

(* acquire is not first come, first served: later callers may overtake a    *)
(* sleeper for ever.  Once no new caller arrives, every sleeper of a bucket *)
(* that refills gets its token.                                             *)
SleepersAreServed ==
  <>[][~Arrival]_vars =>
    \A c \in Callers :
      (sleeping[c] # Awake /\ Rate[sleeping[c]] # 0) ~> sleeping[c] = Awake
=============================================================================
