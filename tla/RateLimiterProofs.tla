-------------------------- MODULE RateLimiterProofs --------------------------
(***************************************************************************)
(* What the limiter promises, for every rate, burst and number of callers. *)
(*                                                                         *)
(* GrantsWithinRate is not inductive: a window may be within its bound     *)
(* while the bucket still holds tokens for more.  Counted adds what the    *)
(* bucket would hold now: what was granted and what is left never exceed   *)
(* the burst plus the refill of the window.                                *)
(***************************************************************************)
EXTENDS RateLimiter, TLAPS

Counted ==
  IF window = Closed
  THEN \A b \in Buckets : granted[b] = 0
  ELSE \A b \in Buckets \ PerCall :
         granted[b] * Cost + Refilled(b) <= Burst + Rate[b] * window

(* A limiter built for the call is full: nobody sleeps for its bucket.      *)
SleepersShare ==
  \A c \in Callers : sleeping[c] # Awake => sleeping[c] \notin PerCall

-----------------------------------------------------------------------------
(* Arithmetic of refills and sleeps.                                        *)

LEMMA LesserIsNat ==
  ASSUME NEW x \in Nat, NEW y \in Nat
  PROVE  Lesser(x, y) \in Nat /\ Lesser(x, y) <= x /\ Lesser(x, y) <= y
  BY DEF Lesser

(* elapsed * rate and its like stay in Nat.                                 *)
LEMMA ProductIsNat ==
  ASSUME NEW x \in Nat, NEW y \in Nat
  PROVE  x * y \in Nat
  OBVIOUS

LEMMA ProductMonotone ==
  ASSUME NEW x \in Nat, NEW y \in Nat, NEW r \in Nat, x <= y
  PROVE  x * r <= y * r
  OBVIOUS

(* A tick refills at most Rate credits, saturated or not.                   *)
LEMMA TickRefills ==
  ASSUME NEW t \in Nat, NEW e \in Nat, NEW r \in Nat
  PROVE  Lesser(Burst, t + Lesser(Saturation, e + 1) * r)
           <= Lesser(Burst, t + e * r) + r
<1> DEFINE e2 == Lesser(Saturation, e + 1)
<1>1. e2 \in Nat /\ e2 <= e + 1
  BY TimeAssumption DEF Lesser
<1>2. e2 * r <= (e + 1) * r
  BY <1>1, ProductMonotone
<1>3. (e + 1) * r = e * r + r
  OBVIOUS
<1>4. e2 * r \in Nat /\ e * r \in Nat
  BY <1>1, ProductIsNat
<1> HIDE DEF e2
<1>5. Lesser(Burst, t + e2 * r) <= Lesser(Burst, t + e * r) + r
  BY <1>2, <1>3, <1>4, CreditsAssumption DEF Lesser
<1> QED
  BY <1>5 DEF e2

(* The sleep covers the deficit, and one tick less would not.               *)
LEMMA TicksCover ==
  ASSUME NEW d \in Nat \ {0}, NEW r \in Nat
  PROVE  /\ TicksFor(d, r) \in Nat
         /\ r # 0 => TicksFor(d, r) * r >= d
         /\ r # 0 => (TicksFor(d, r) - 1) * r < d
<1>1. CASE r = 0
  BY <1>1, TimeAssumption DEF TicksFor
<1>2. CASE r # 0
  <2> DEFINE q == (d + r - 1) \div r
  <2>1. q \in Nat /\ q * r <= d + r - 1 /\ d + r - 1 < (q + 1) * r
    BY <1>2, Z3
  <2>2. (q + 1) * r = q * r + r /\ (q - 1) * r = q * r - r /\ q * r \in Nat
    BY <2>1
  <2>3. TicksFor(d, r) = q
    BY <1>2 DEF TicksFor
  <2> HIDE DEF q
  <2> QED
    BY <2>1, <2>2, <2>3, <1>2
<1> QED
  BY <1>1, <1>2

-----------------------------------------------------------------------------
(* What a pass of acquire's loop leaves in the bucket.                      *)

LEMMA RefilledType ==
  ASSUME TypeOK, NEW b \in Buckets
  PROVE  /\ Refilled(b) \in 0..Burst
         /\ tokens[b] \in Nat /\ elapsed[b] \in Nat /\ Rate[b] \in Nat
         /\ elapsed[b] * Rate[b] \in Nat
         /\ Refilled(b) <= tokens[b] + elapsed[b] * Rate[b]
         /\ Refilled(b) < Burst => Refilled(b) = tokens[b] + elapsed[b] * Rate[b]
<1>1. tokens[b] \in Nat /\ elapsed[b] \in Nat /\ Rate[b] \in Nat
  BY CreditsAssumption, TimeAssumption DEF TypeOK
<1>2. elapsed[b] * Rate[b] \in Nat
  BY <1>1, ProductIsNat
<1> QED
  BY <1>1, <1>2, CreditsAssumption DEF Refilled, Lesser

LEMMA RefillEffect ==
  ASSUME TypeOK, NEW b \in Buckets, NEW left \in 0..Burst, Refill(b, left)
  PROVE  /\ tokens' \in [Buckets -> 0..Burst]
         /\ elapsed' \in [Buckets -> 0..Saturation]
         /\ \A d \in Buckets : d # b \/ b \in PerCall
              => tokens'[d] = tokens[d] /\ elapsed'[d] = elapsed[d]
         /\ b \notin PerCall => tokens'[b] = left /\ elapsed'[b] = 0
<1>1. CASE b \in PerCall
  BY <1>1 DEF Refill, bucketVars, TypeOK
<1>2. CASE b \notin PerCall
  BY <1>2, TimeAssumption DEF Refill, TypeOK
<1> QED
  BY <1>1, <1>2

LEMMA AvailableType ==
  ASSUME TypeOK, NEW b \in Buckets
  PROVE  Available(b) \in 0..Burst
BY RefilledType, CreditsAssumption DEF Available

-----------------------------------------------------------------------------
(* Type correctness.                                                        *)

LEMMA GrantType ==
  ASSUME TypeOK, NEW c \in Callers, NEW b \in Buckets, Grant(c, b)
  PROVE  TypeOK'
<1>1. Available(b) - Cost \in 0..Burst
  BY AvailableType, CreditsAssumption DEF Grant
<1>2. tokens' \in [Buckets -> 0..Burst] /\ elapsed' \in [Buckets -> 0..Saturation]
  BY <1>1, RefillEffect DEF Grant
<1>3. /\ sleeping' \in [Callers -> Buckets \cup {Awake}]
      /\ remaining' \in [Callers -> Nat]
  BY DEF Grant, TypeOK
<1>4. overtaken' \subseteq {d \in Callers : sleeping'[d] # Awake}
  BY DEF Grant
<1>5. window' \in (0..MaxWindow) \cup {Closed} /\ granted' \in [Buckets -> Nat]
  BY DEF Grant, TypeOK
<1> QED
  BY <1>2, <1>3, <1>4, <1>5 DEF TypeOK

LEMMA DenyType ==
  ASSUME TypeOK, NEW c \in Callers, NEW b \in Buckets, Deny(c, b), b # Awake
  PROVE  TypeOK'
<1>1. Available(b) \in 0..Burst /\ Available(b) < Cost
  BY AvailableType DEF Deny
<1>2. tokens' \in [Buckets -> 0..Burst] /\ elapsed' \in [Buckets -> 0..Saturation]
  BY <1>1, RefillEffect DEF Deny
<1>3. TicksFor(Cost - Available(b), Rate[b]) \in Nat
  BY <1>1, TicksCover, CreditsAssumption
<1>4. /\ sleeping' \in [Callers -> Buckets \cup {Awake}]
      /\ remaining' \in [Callers -> Nat]
  BY <1>3 DEF Deny, TypeOK
<1>5. overtaken' \subseteq {d \in Callers : sleeping'[d] # Awake}
  BY DEF Deny, TypeOK
<1>6. window' \in (0..MaxWindow) \cup {Closed} /\ granted' \in [Buckets -> Nat]
  BY DEF Deny, TypeOK
<1> QED
  BY <1>2, <1>4, <1>5, <1>6 DEF TypeOK

LEMMA TickType ==
  ASSUME TypeOK, Tick
  PROVE  TypeOK'
<1>1. elapsed' \in [Buckets -> 0..Saturation]
  <2> SUFFICES ASSUME NEW b \in Buckets
               PROVE  Lesser(Saturation, elapsed[b] + 1) \in 0..Saturation
    BY DEF Tick
  <2> QED
    BY TimeAssumption DEF TypeOK, Lesser
<1>2. remaining' \in [Callers -> Nat]
  BY DEF Tick, TypeOK
<1>3. window' \in (0..MaxWindow) \cup {Closed}
  BY TimeAssumption DEF Tick, TypeOK, Closed
<1>4. granted' \in [Buckets -> Nat]
  BY DEF Tick, TypeOK
<1> QED
  BY <1>1, <1>2, <1>3, <1>4 DEF Tick, TypeOK

(* Every step keeps the types; in particular a bucket never holds more than *)
(* the burst, however long it was left alone.                               *)
THEOREM TypeCorrect == Spec => []TypeOK
<1>1. Init => TypeOK
  BY CreditsAssumption, TimeAssumption DEF Init, TypeOK, Closed
<1>2. TypeOK /\ [Next]_vars => TypeOK'
  <2> SUFFICES ASSUME TypeOK, [Next]_vars PROVE TypeOK'
    OBVIOUS
  <2>1. CASE Arrival
    <3> PICK c \in Callers, b \in Buckets : Acquire(c, b)
      BY <2>1 DEF Arrival
    <3> b # Awake
      BY BucketsAssumption
    <3> QED
      BY GrantType, DenyType DEF Acquire
  <2>2. ASSUME NEW c \in Callers, Retry(c) PROVE TypeOK'
    <3> sleeping[c] \in Buckets /\ sleeping[c] # Awake
      BY <2>2 DEF Retry, TypeOK
    <3> QED
      BY <2>2, GrantType, DenyType DEF Retry
  <2>3. CASE Tick
    BY <2>3, TickType
  <2>4. CASE OpenWindow
    BY <2>4, TimeAssumption DEF OpenWindow, TypeOK, bucketVars
  <2>5. CASE UNCHANGED vars
    BY <2>5 DEF vars, bucketVars, TypeOK
  <2> QED
    BY <2>1, <2>2, <2>3, <2>4, <2>5 DEF Next
<1> QED
  BY <1>1, <1>2, PTL DEF Spec

-----------------------------------------------------------------------------
(* A window never sees more grants than burst plus refill.                  *)

LEMMA GrantCounts ==
  ASSUME TypeOK, Counted, NEW c \in Callers, NEW b \in Buckets, Grant(c, b)
  PROVE  Counted'
<1>1. window' = window
  BY DEF Grant
<1>2. CASE window = Closed
  BY <1>1, <1>2 DEF Grant, Counted
<1>3. CASE window # Closed
  <2> SUFFICES ASSUME NEW d \in Buckets \ PerCall
               PROVE  granted'[d] * Cost + Refilled(d)' <= Burst + Rate[d] * window
    BY <1>1, <1>3 DEF Counted
  <2>1. granted[d] * Cost + Refilled(d) <= Burst + Rate[d] * window
    BY <1>3 DEF Counted
  <2>2. Available(b) - Cost \in 0..Burst
    BY AvailableType, CreditsAssumption DEF Grant
  <2>3. CASE d # b
    <3>1. tokens'[d] = tokens[d] /\ elapsed'[d] = elapsed[d]
      BY <2>2, <2>3, RefillEffect DEF Grant
    <3>2. granted'[d] = granted[d]
      BY <2>3, <1>3 DEF Grant, TypeOK
    <3> QED
      BY <2>1, <3>1, <3>2 DEF Refilled
  <2>4. CASE d = b
    <3>1. tokens'[b] = Refilled(b) - Cost /\ elapsed'[b] = 0
      BY <2>2, <2>4, RefillEffect DEF Grant, Available
    <3>2. granted'[b] = granted[b] + 1
      BY <1>3 DEF Grant, TypeOK
    <3>3. Refilled(b)' = Refilled(b) - Cost
      <4>1. Refilled(b) - Cost \in 0..Burst
        BY <2>2, <2>4 DEF Available
      <4>2. Rate[b] \in Nat
        BY CreditsAssumption
      <4> QED
        BY <3>1, <4>1, <4>2, CreditsAssumption DEF Refilled, Lesser
    <3>4. (granted[b] + 1) * Cost = granted[b] * Cost + Cost
      BY CreditsAssumption DEF TypeOK
    <3>5. granted[b] * Cost \in Nat /\ Refilled(b) \in Nat /\ Rate[b] * window \in Int
      BY RefilledType, ProductIsNat, CreditsAssumption DEF TypeOK, Closed
    <3> QED
      BY <2>1, <2>4, <3>2, <3>3, <3>4, <3>5, CreditsAssumption
  <2> QED
    BY <2>3, <2>4
<1> QED
  BY <1>2, <1>3

LEMMA DenyCounts ==
  ASSUME TypeOK, Counted, NEW c \in Callers, NEW b \in Buckets, Deny(c, b)
  PROVE  Counted'
<1>1. Available(b) \in 0..Burst
  BY AvailableType
<1>2. \A d \in Buckets \ PerCall : Refilled(d)' = Refilled(d)
  <2> SUFFICES ASSUME NEW d \in Buckets \ PerCall PROVE Refilled(d)' = Refilled(d)
    OBVIOUS
  <2>1. CASE d # b
    <3>1. tokens'[d] = tokens[d] /\ elapsed'[d] = elapsed[d]
      BY <1>1, <2>1, RefillEffect DEF Deny
    <3> QED
      BY <3>1 DEF Refilled
  <2>2. CASE d = b
    <3>1. tokens'[d] = Refilled(d) /\ elapsed'[d] = 0
      BY <1>1, <2>2, RefillEffect DEF Deny, Available
    <3>2. Refilled(d) \in 0..Burst /\ Rate[d] \in Nat
      BY RefilledType
    <3>3. Refilled(d)' = Lesser(Burst, tokens'[d] + elapsed'[d] * Rate[d])
      BY DEF Refilled
    <3> QED
      BY <3>1, <3>2, <3>3, CreditsAssumption DEF Lesser
  <2> QED
    BY <2>1, <2>2
<1>3. window' = window /\ granted' = granted
  BY DEF Deny
<1> QED
  BY <1>2, <1>3 DEF Counted

LEMMA TickCounts ==
  ASSUME TypeOK, Counted, Tick
  PROVE  Counted'
<1>1. CASE window' = Closed
  BY <1>1 DEF Tick, Counted
<1>2. CASE window' # Closed
  <2>1. window # Closed /\ window' = window + 1 /\ granted' = granted
    BY <1>2 DEF Tick
  <2> SUFFICES ASSUME NEW d \in Buckets \ PerCall
               PROVE  granted[d] * Cost + Refilled(d)' <= Burst + Rate[d] * (window + 1)
    BY <1>2, <2>1 DEF Counted
  <2>2. granted[d] * Cost + Refilled(d) <= Burst + Rate[d] * window
    BY <2>1 DEF Counted
  <2>3. Refilled(d)' <= Refilled(d) + Rate[d]
    <3>1. tokens'[d] = tokens[d] /\ elapsed'[d] = Lesser(Saturation, elapsed[d] + 1)
      BY DEF Tick
    <3>2. tokens[d] \in Nat /\ elapsed[d] \in Nat /\ Rate[d] \in Nat
      BY RefilledType
    <3> QED
      BY <3>1, <3>2, TickRefills DEF Refilled
  <2>4. Refilled(d)' \in Int
    <3>1. tokens'[d] \in Nat /\ elapsed'[d] \in Nat /\ Rate[d] \in Nat
      BY TickType, TimeAssumption, CreditsAssumption DEF TypeOK
    <3>2. elapsed'[d] * Rate[d] \in Nat
      BY <3>1, ProductIsNat
    <3> QED
      BY <3>1, <3>2, CreditsAssumption DEF Refilled, Lesser
  <2>5. window \in Nat /\ Rate[d] \in Nat
    BY <2>1, CreditsAssumption DEF TypeOK
  <2>6. Rate[d] * (window + 1) = Rate[d] * window + Rate[d] /\ Rate[d] * window \in Nat
    BY <2>5, ProductIsNat
  <2>7. granted[d] * Cost \in Nat /\ Refilled(d) \in Nat
    BY RefilledType, ProductIsNat, CreditsAssumption DEF TypeOK
  <2> QED
    BY <2>2, <2>3, <2>4, <2>5, <2>6, <2>7, CreditsAssumption
<1> QED
  BY <1>1, <1>2

(* The limiter keeps its contract in every window, provided every bucket is *)
(* shared by its callers: with limiters built per call it is false.         *)
THEOREM RateIsKept ==
  ASSUME PerCall = {}
  PROVE  Spec => []GrantsWithinRate
<1>1. Init => Counted
  BY DEF Init, Counted
<1>2. TypeOK /\ Counted /\ [Next]_vars => Counted'
  <2> SUFFICES ASSUME TypeOK, Counted, [Next]_vars PROVE Counted'
    OBVIOUS
  <2>1. CASE Arrival
    BY <2>1, GrantCounts, DenyCounts DEF Arrival, Acquire
  <2>2. ASSUME NEW c \in Callers, Retry(c) PROVE Counted'
    <3> sleeping[c] \in Buckets
      BY <2>2 DEF Retry, TypeOK
    <3> QED
      BY <2>2, GrantCounts, DenyCounts DEF Retry
  <2>3. CASE Tick
    BY <2>3, TickCounts
  <2>4. CASE OpenWindow
    <3>1. \A d \in Buckets : granted'[d] = 0 /\ Refilled(d)' = Refilled(d)
      BY <2>4 DEF OpenWindow, Counted, Refilled, bucketVars
    <3>2. window' = 0 /\ window' # Closed
      BY <2>4 DEF OpenWindow, Closed
    <3>3. \A d \in Buckets : Refilled(d) <= Burst /\ Refilled(d) \in Nat /\ Rate[d] \in Nat
      BY RefilledType, CreditsAssumption
    <3> QED
      BY <3>1, <3>2, <3>3, CreditsAssumption DEF Counted
  <2>5. CASE UNCHANGED vars
    BY <2>5 DEF vars, bucketVars, Counted, Refilled
  <2> QED
    BY <2>1, <2>2, <2>3, <2>4, <2>5 DEF Next
<1>3. TypeOK /\ Counted => GrantsWithinRate
  <2> SUFFICES ASSUME TypeOK, Counted, window # Closed, NEW b \in Buckets
               PROVE  granted[b] * Cost <= Burst + Rate[b] * window
    BY DEF GrantsWithinRate
  <2>1. granted[b] * Cost + Refilled(b) <= Burst + Rate[b] * window
    BY DEF Counted
  <2>2. granted[b] * Cost \in Nat /\ Refilled(b) \in Nat /\ Rate[b] * window \in Int
    BY RefilledType, ProductIsNat, CreditsAssumption DEF TypeOK, Closed
  <2> QED
    BY <2>1, <2>2, CreditsAssumption
<1> QED
  BY TypeCorrect, <1>1, <1>2, <1>3, PTL DEF Spec

-----------------------------------------------------------------------------
(* A sleep lasts exactly as long as it must.                                *)

LEMMA NobodySleepsPerCall ==
  ASSUME TypeOK, NEW c \in Callers, NEW b \in Buckets, Deny(c, b)
  PROVE  /\ b \notin PerCall
         /\ Refilled(b) = tokens[b] + elapsed[b] * Rate[b]
         /\ Refilled(b) \in Nat /\ Cost - Refilled(b) \in Nat \ {0}
         /\ tokens'[b] = Refilled(b) /\ elapsed'[b] = 0
<1>1. b \notin PerCall
  BY CreditsAssumption DEF Deny, Available
<1>2. Refilled(b) \in 0..Burst /\ Refilled(b) < Cost
  BY <1>1, RefilledType DEF Deny, Available
<1>3. Refilled(b) = tokens[b] + elapsed[b] * Rate[b]
  BY <1>2, RefilledType, CreditsAssumption
<1>4. tokens'[b] = Refilled(b) /\ elapsed'[b] = 0
  BY <1>1, <1>2, RefillEffect DEF Deny, Available
<1> QED
  BY <1>1, <1>2, <1>3, <1>4, CreditsAssumption

(* Both bounds of one sleeper d, said of its bucket's bare numbers.         *)
Enough(t, e, w, r)     == r # 0 => t + (e + w) * r >= Cost
NotTooLong(t, e, w, r) == (w > 1 /\ r # 0) => t + (e + w - 1) * r < Cost

LEMMA BoundsOfNewSleep ==
  ASSUME NEW t \in Nat, NEW r \in Nat, Cost - t \in Nat \ {0}
  PROVE  /\ Enough(t, 0, TicksFor(Cost - t, r), r)
         /\ NotTooLong(t, 0, TicksFor(Cost - t, r), r)
<1> DEFINE w == TicksFor(Cost - t, r)
<1>1. /\ w \in Nat
      /\ r # 0 => w * r >= Cost - t
      /\ r # 0 => (w - 1) * r < Cost - t
  BY TicksCover
<1>2. w * r \in Nat /\ (w - 1) * r = w * r - r
  BY <1>1, ProductIsNat
<1> HIDE DEF w
<1>3. (0 + w) * r = w * r /\ (0 + w - 1) * r = (w - 1) * r
  BY <1>1
<1>4. Enough(t, 0, w, r) /\ NotTooLong(t, 0, w, r)
  BY <1>1, <1>2, <1>3, CreditsAssumption DEF Enough, NotTooLong
<1> QED
  BY <1>4 DEF w

(* Storing the refill changes neither bound.                                *)
LEMMA BoundsOverRefill ==
  ASSUME NEW t \in Nat, NEW e \in Nat, NEW w \in Nat, NEW r \in Nat,
         NEW s \in Int, s <= t + e * r
  PROVE  /\ s = t + e * r /\ Enough(t, e, w, r) => Enough(s, 0, w, r)
         /\ NotTooLong(t, e, w, r) => NotTooLong(s, 0, w, r)
<1>1. (e + w) * r = e * r + w * r /\ (e + w - 1) * r = e * r + w * r - r
  OBVIOUS
<1>2. (0 + w) * r = w * r /\ (0 + w - 1) * r = w * r - r
  OBVIOUS
<1>3. e * r \in Nat /\ w * r \in Nat
  BY ProductIsNat
<1> QED
  BY <1>1, <1>2, <1>3, CreditsAssumption DEF Enough, NotTooLong

LEMMA BoundsOverTick ==
  ASSUME NEW t \in Nat, NEW e \in 0..Saturation, NEW w \in Nat, NEW r \in Nat,
         r # 0 => Saturation * r >= Burst
  PROVE  LET e2 == Lesser(Saturation, e + 1)
             w2 == IF w = 0 THEN 0 ELSE w - 1
         IN  /\ Enough(t, e, w, r) => Enough(t, e2, w2, r)
             /\ NotTooLong(t, e, w, r) => NotTooLong(t, e2, w2, r)
<1> DEFINE e2 == Lesser(Saturation, e + 1)
           w2 == IF w = 0 THEN 0 ELSE w - 1
<1>1. e2 \in Nat /\ w2 \in Nat
  BY TimeAssumption DEF Lesser
<1>2. e2 + w2 >= e + w \/ e2 = Saturation
  BY TimeAssumption DEF Lesser
<1>3. w2 > 1 => w > 1 /\ e2 + w2 - 1 <= e + w - 1
  BY TimeAssumption DEF Lesser
<1> HIDE DEF e2, w2
<1>4. Enough(t, e, w, r) => Enough(t, e2, w2, r)
  <2> SUFFICES ASSUME Enough(t, e, w, r), r # 0 PROVE t + (e2 + w2) * r >= Cost
    BY DEF Enough
  <2>1. CASE e2 + w2 >= e + w
    <3>1. (e2 + w2) * r >= (e + w) * r
      BY <1>1, <2>1, ProductMonotone
    <3>2. (e2 + w2) * r \in Nat /\ (e + w) * r \in Nat
      BY <1>1, ProductIsNat
    <3> QED
      BY <3>1, <3>2, CreditsAssumption DEF Enough
  <2>2. CASE e2 = Saturation
    <3>1. (e2 + w2) * r >= Saturation * r
      BY <1>1, <2>2, ProductMonotone, TimeAssumption
    <3>2. (e2 + w2) * r \in Nat /\ Saturation * r \in Nat
      BY <1>1, ProductIsNat, TimeAssumption
    <3> QED
      BY <3>1, <3>2, CreditsAssumption
  <2> QED
    BY <1>2, <2>1, <2>2
<1>5. NotTooLong(t, e, w, r) => NotTooLong(t, e2, w2, r)
  <2> SUFFICES ASSUME NotTooLong(t, e, w, r), w2 > 1, r # 0
               PROVE  t + (e2 + w2 - 1) * r < Cost
    BY DEF NotTooLong
  <2>1. e2 + w2 - 1 \in Nat /\ e + w - 1 \in Nat
    BY <1>1, <1>3
  <2>2. (e2 + w2 - 1) * r <= (e + w - 1) * r
    BY <1>3, <2>1, ProductMonotone
  <2>3. (e2 + w2 - 1) * r \in Nat /\ (e + w - 1) * r \in Nat
    BY <2>1, ProductIsNat
  <2>4. t + (e + w - 1) * r < Cost
    BY <1>3 DEF NotTooLong
  <2> QED
    BY <2>2, <2>3, <2>4, CreditsAssumption
<1> QED
  BY <1>4, <1>5 DEF e2, w2

(* The two bounds of every sleeper, the inductive form of both properties.  *)
SleepsOf(c, b) ==
  /\ c \notin overtaken => Enough(tokens[b], elapsed[b], remaining[c], Rate[b])
  /\ NotTooLong(tokens[b], elapsed[b], remaining[c], Rate[b])
Sleeps == \A c \in Callers : sleeping[c] # Awake => SleepsOf(c, sleeping[c])

LEMMA GrantSleeps ==
  ASSUME TypeOK, Sleeps, NEW c \in Callers, NEW b \in Buckets, Grant(c, b)
  PROVE  Sleeps'
<1> SUFFICES ASSUME NEW d \in Callers, sleeping'[d] # Awake
             PROVE  SleepsOf(d, sleeping[d])' /\ sleeping'[d] = sleeping[d]
  BY DEF Sleeps, SleepsOf
<1> DEFINE bd == sleeping[d]
<1>1. d # c /\ sleeping'[d] = bd /\ remaining'[d] = remaining[d] /\ bd \in Buckets
  BY DEF Grant, TypeOK
<1>2. SleepsOf(d, bd)
  BY <1>1 DEF Sleeps
<1>3. Available(b) - Cost \in 0..Burst
  BY AvailableType, CreditsAssumption DEF Grant
<1>4. tokens[bd] \in Nat /\ elapsed[bd] \in Nat /\ Rate[bd] \in Nat /\ remaining[d] \in Nat
  BY <1>1, RefilledType DEF TypeOK
<1>5. CASE bd # b \/ b \in PerCall
  <2>1. tokens'[bd] = tokens[bd] /\ elapsed'[bd] = elapsed[bd]
    BY <1>1, <1>3, <1>5, RefillEffect DEF Grant
  <2>2. d \notin overtaken' => d \notin overtaken
    BY <1>1 DEF Grant
  <2> QED
    BY <1>1, <1>2, <2>1, <2>2 DEF SleepsOf
<1>6. CASE bd = b /\ b \notin PerCall
  <2>1. d \in overtaken'
    BY <1>1, <1>6 DEF Grant
  <2>2. tokens'[b] = Refilled(b) - Cost /\ elapsed'[b] = 0
    BY <1>3, <1>6, RefillEffect DEF Grant, Available
  <2>3. Refilled(b) - Cost \in Int /\ Refilled(b) - Cost <= tokens[b] + elapsed[b] * Rate[b]
    BY RefilledType, CreditsAssumption
  <2>4. NotTooLong(Refilled(b) - Cost, 0, remaining[d], Rate[b])
    BY <1>2, <1>4, <1>6, <2>3, BoundsOverRefill DEF SleepsOf
  <2> QED
    BY <1>1, <1>6, <2>1, <2>2, <2>4 DEF SleepsOf
<1> QED
  BY <1>1, <1>5, <1>6

LEMMA DenySleeps ==
  ASSUME TypeOK, Sleeps, NEW c \in Callers, NEW b \in Buckets, Deny(c, b)
  PROVE  Sleeps'
<1> SUFFICES ASSUME NEW d \in Callers, sleeping'[d] # Awake
             PROVE  SleepsOf(d, sleeping[d])'
  BY DEF Sleeps
<1>1. /\ b \notin PerCall
      /\ Refilled(b) = tokens[b] + elapsed[b] * Rate[b]
      /\ Refilled(b) \in Nat /\ Cost - Refilled(b) \in Nat \ {0}
      /\ tokens'[b] = Refilled(b) /\ elapsed'[b] = 0
  BY NobodySleepsPerCall
<1>2. Available(b) = Refilled(b)
  BY <1>1 DEF Available
<1>3. Rate[b] \in Nat
  BY CreditsAssumption
<1>4. CASE d = c
  <2>1. sleeping'[c] = b /\ remaining'[c] = TicksFor(Cost - Refilled(b), Rate[b])
    BY <1>2 DEF Deny, TypeOK
  <2>2. /\ Enough(Refilled(b), 0, remaining'[c], Rate[b])
        /\ NotTooLong(Refilled(b), 0, remaining'[c], Rate[b])
    BY <1>1, <1>3, <2>1, BoundsOfNewSleep
  <2> QED
    BY <1>1, <1>4, <2>1, <2>2 DEF SleepsOf
<1>5. CASE d # c
  <2> DEFINE bd == sleeping[d]
  <2>1. sleeping'[d] = bd /\ remaining'[d] = remaining[d] /\ bd \in Buckets
    BY <1>5 DEF Deny, TypeOK
  <2>2. d \notin overtaken' => d \notin overtaken
    BY <1>5 DEF Deny
  <2>3. SleepsOf(d, bd)
    BY <2>1 DEF Sleeps
  <2>4. CASE bd # b
    <3>1. tokens'[bd] = tokens[bd] /\ elapsed'[bd] = elapsed[bd]
      BY <2>1, <2>4, AvailableType, RefillEffect DEF Deny
    <3> QED
      BY <2>1, <2>2, <2>3, <3>1 DEF SleepsOf
  <2>5. CASE bd = b
    <3>1. /\ tokens[b] \in Nat /\ elapsed[b] \in Nat /\ remaining[d] \in Nat
          /\ Refilled(b) \in Int /\ Refilled(b) <= tokens[b] + elapsed[b] * Rate[b]
      BY <1>1, RefilledType DEF TypeOK
    <3>2. /\ Enough(tokens[b], elapsed[b], remaining[d], Rate[b])
               => Enough(Refilled(b), 0, remaining[d], Rate[b])
          /\ NotTooLong(tokens[b], elapsed[b], remaining[d], Rate[b])
               => NotTooLong(Refilled(b), 0, remaining[d], Rate[b])
      BY <1>1, <1>3, <3>1, BoundsOverRefill
    <3> QED
      BY <1>1, <2>1, <2>2, <2>3, <2>5, <3>2 DEF SleepsOf
  <2> QED
    BY <2>4, <2>5
<1> QED
  BY <1>4, <1>5

LEMMA TickSleeps ==
  ASSUME TypeOK, Sleeps, Tick
  PROVE  Sleeps'
<1> SUFFICES ASSUME NEW d \in Callers, sleeping'[d] # Awake
             PROVE  SleepsOf(d, sleeping[d])'
  BY DEF Sleeps
<1> DEFINE bd == sleeping[d]
<1>1. sleeping'[d] = bd /\ bd \in Buckets /\ bd # Awake /\ overtaken' = overtaken
  BY DEF Tick, TypeOK
<1>2. SleepsOf(d, bd)
  BY <1>1 DEF Sleeps
<1>3. /\ tokens'[bd] = tokens[bd]
      /\ elapsed'[bd] = Lesser(Saturation, elapsed[bd] + 1)
      /\ remaining'[d] = IF remaining[d] = 0 THEN 0 ELSE remaining[d] - 1
  BY <1>1 DEF Tick
<1> HIDE DEF bd
<1>4. /\ tokens[bd] \in Nat /\ elapsed[bd] \in 0..Saturation
      /\ remaining[d] \in Nat /\ Rate[bd] \in Nat
      /\ Rate[bd] # 0 => Saturation * Rate[bd] >= Burst
  BY <1>1, RefilledType, TimeAssumption DEF TypeOK
<1>5. /\ Enough(tokens[bd], elapsed[bd], remaining[d], Rate[bd])
           => Enough(tokens'[bd], elapsed'[bd], remaining'[d], Rate[bd])
      /\ NotTooLong(tokens[bd], elapsed[bd], remaining[d], Rate[bd])
           => NotTooLong(tokens'[bd], elapsed'[bd], remaining'[d], Rate[bd])
  BY <1>3, <1>4, BoundsOverTick
<1> QED
  BY <1>1, <1>2, <1>5 DEF SleepsOf, bd

(* Every sleep of acquire is exact: long enough for its token, unless the   *)
(* token was taken meanwhile, and never a whole tick too long.              *)
THEOREM SleepsAreExact == Spec => []SleepIsExact
<1>1. Init => Sleeps
  BY DEF Init, Sleeps
<1>2. TypeOK /\ Sleeps /\ [Next]_vars => Sleeps'
  <2> SUFFICES ASSUME TypeOK, Sleeps, [Next]_vars PROVE Sleeps'
    OBVIOUS
  <2>1. CASE Arrival
    BY <2>1, GrantSleeps, DenySleeps DEF Arrival, Acquire
  <2>2. ASSUME NEW c \in Callers, Retry(c) PROVE Sleeps'
    <3> sleeping[c] \in Buckets
      BY <2>2 DEF Retry, TypeOK
    <3> QED
      BY <2>2, GrantSleeps, DenySleeps DEF Retry
  <2>3. CASE Tick
    BY <2>3, TickSleeps
  <2>4. CASE OpenWindow
    BY <2>4 DEF OpenWindow, bucketVars, Sleeps, SleepsOf
  <2>5. CASE UNCHANGED vars
    BY <2>5 DEF vars, bucketVars, Sleeps, SleepsOf
  <2> QED
    BY <2>1, <2>2, <2>3, <2>4, <2>5 DEF Next
<1>3. Sleeps => SleepIsExact
  BY DEF Sleeps, SleepsOf, Enough, NotTooLong, SleepIsExact, SleepIsEnough, SleepIsNotTooLong
<1> QED
  BY TypeCorrect, <1>1, <1>2, <1>3, PTL DEF Spec
=============================================================================
