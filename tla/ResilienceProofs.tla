-------------------------- MODULE ResilienceProofs --------------------------
(***************************************************************************)
(* Proofs about the circuit breaker, for any number of callers, thresholds *)
(* and cool-down and for a clock that steps back, and about the rate       *)
(* limiter below.                                                          *)
(***************************************************************************)
EXTENDS CircuitBreaker, RateLimiter, TLAPS

(***************************************************************************)
(* The inductive invariant: besides the types and the thresholds, the      *)
(* failure count of a closed breaker never exceeds the current run of      *)
(* failures, and the clock never shows more than the time since the trip.  *)
(***************************************************************************)
CountsConsecutive == state = "closed" => failures <= streak

ClockNotAhead ==
  /\ -skew <= elapsed
  /\ state = "open" => elapsed <= sinceTrip \/ sinceTrip = Cooldown
  /\ state # "open" => sinceTrip = Cooldown

IInv == TypeOK /\ ThresholdsAct /\ CountsConsecutive /\ ClockNotAhead

(* The breaker starts closed with nothing counted. *)
LEMMA InitInv == Init => IInv
BY BreakerAssumption
   DEF Init, IInv, TypeOK, ThresholdsAct, CountsConsecutive, ClockNotAhead, MaxElapsed

(* refresh leaves an open breaker only after the whole cool-down. *)
LEMMA RefreshInv ==
  ASSUME IInv, refresh
  PROVE  /\ state' \in {"closed", "open", "half-open"}
         /\ halfOpenSuccess' \in 0 .. SuccessThreshold
         /\ state' = "closed" => state = "closed"
         /\ state' = "open" => state = "open"
         /\ state' = "half-open" => halfOpenSuccess' < SuccessThreshold
         /\ state' # "open" => sinceTrip = Cooldown
BY BreakerAssumption
   DEF IInv, TypeOK, ThresholdsAct, ClockNotAhead, refresh, CooledDown, MaxElapsed

(* Every step of every caller, of the clock and of the dependency          *)
(* preserves the invariant.                                                *)
LEMMA StepInv == IInv /\ [Next]_vars => IInv'
<1> SUFFICES ASSUME IInv, [Next]_vars PROVE IInv'
  OBVIOUS
<1> USE BreakerAssumption
<1>1. CASE State
  BY <1>1, RefreshInv
     DEF State, IInv, TypeOK, ThresholdsAct, CountsConsecutive, ClockNotAhead, time
<1>2. CASE Tick
  BY <1>2 DEF Tick, IInv, TypeOK, ThresholdsAct, CountsConsecutive, ClockNotAhead,
              breaker, AtMost, MaxElapsed
<1>3. CASE StepBack
  BY <1>3 DEF StepBack, IInv, TypeOK, ThresholdsAct, CountsConsecutive, ClockNotAhead,
              breaker, MaxElapsed
<1>4. CASE Outage
  BY <1>4 DEF Outage, IInv, TypeOK, ThresholdsAct, CountsConsecutive, ClockNotAhead,
              breaker, time
<1>5. ASSUME NEW c \in Callers, allow(c) PROVE IInv'
  <2>1. refresh /\ UNCHANGED <<failures, elapsed, skew, sinceTrip, up, streak>>
    BY <1>5 DEF allow, time
  <2>2. calls' \in [Callers -> {"none", "closed", "half-open"}]
    BY <1>5, <2>1, RefreshInv DEF allow, IInv, TypeOK
  <2> QED BY <2>1, <2>2, RefreshInv
          DEF IInv, TypeOK, ThresholdsAct, CountsConsecutive, ClockNotAhead
<1>6. ASSUME NEW c \in Callers, recordFailure(c) PROVE IInv'
  <2>1. calls' \in [Callers -> {"none", "closed", "half-open"}]
    BY <1>6 DEF recordFailure, IInv, TypeOK
  <2>2. streak' \in 0 .. FailureThreshold /\ streak' = AtMost(streak + 1, FailureThreshold)
    BY <1>6 DEF recordFailure, IInv, TypeOK, AtMost
  <2>3. CASE Trips
    <3>1. /\ state' = "open" /\ failures' = 0 /\ elapsed' = 0 /\ sinceTrip' = 0
          /\ UNCHANGED <<halfOpenSuccess, skew, up>>
      BY <1>6, <2>3 DEF recordFailure
    <3> QED BY <2>1, <2>2, <3>1
            DEF IInv, TypeOK, ThresholdsAct, CountsConsecutive, ClockNotAhead, MaxElapsed
  <2>4. CASE ~Trips
    <3>1. /\ failures' = failures + 1
          /\ UNCHANGED <<state, elapsed, sinceTrip, halfOpenSuccess, skew, up>>
      BY <1>6, <2>4 DEF recordFailure
    <3>2. state = "closed" => failures + 1 < FailureThreshold
      BY <2>4 DEF Trips, IInv, TypeOK
    <3>3. CountsConsecutive'
      BY <2>2, <3>1, <3>2 DEF IInv, TypeOK, CountsConsecutive, AtMost
    <3> QED BY <2>1, <2>2, <3>1, <3>2, <3>3
            DEF IInv, TypeOK, ThresholdsAct, ClockNotAhead
  <2> QED BY <2>3, <2>4
<1>7. ASSUME NEW c \in Callers, recordSuccess(c) PROVE IInv'
  <2>1. calls' \in [Callers -> {"none", "closed", "half-open"}]
    BY <1>7 DEF recordSuccess, IInv, TypeOK
  <2>2. Success /\ streak' = 0 /\ UNCHANGED <<elapsed, skew, sinceTrip, up>>
    BY <1>7 DEF recordSuccess, time
  <2> QED BY <2>1, <2>2
          DEF Success, IInv, TypeOK, ThresholdsAct, CountsConsecutive, ClockNotAhead
<1>8. CASE UNCHANGED vars
  BY <1>8 DEF vars, IInv, TypeOK, ThresholdsAct, CountsConsecutive, ClockNotAhead
<1> QED BY <1>1, <1>2, <1>3, <1>4, <1>5, <1>6, <1>7, <1>8 DEF Next, record

(* The breaker's fields keep their types. *)
THEOREM TypeCorrect == Spec => []TypeOK
<1>1. IInv => TypeOK
  BY DEF IInv
<1> QED BY InitInv, StepInv, <1>1, PTL DEF Spec

(* The breaker never rests on a threshold, whatever outcomes arrive late.  *)
THEOREM ThresholdsAlwaysAct == Spec => []ThresholdsAct
<1>1. IInv => ThresholdsAct
  BY DEF IInv
<1> QED BY InitInv, StepInv, <1>1, PTL DEF Spec

(* A closed breaker opens only after FailureThreshold failures in a row.   *)
THEOREM OpensOnlyOnConsecutiveFailures == Spec => TripsOnConsecutiveFailures
<1>1. IInv /\ [Next]_vars =>
        [state = "closed" /\ state' = "open" => streak' >= FailureThreshold]_vars
  <2> SUFFICES ASSUME IInv, Next, state = "closed", state' = "open"
               PROVE  streak' >= FailureThreshold
    BY DEF vars
  <2>1. PICK c \in Callers : recordFailure(c)
    BY DEF Next, State, allow, refresh, Tick, StepBack, Outage, record, recordSuccess,
           Success, breaker
  <2>2. Trips
    BY <2>1 DEF recordFailure
  <2>3. failures + 1 >= FailureThreshold /\ failures <= streak
    BY <2>2 DEF Trips, IInv, CountsConsecutive
  <2> QED BY <2>1, <2>3, BreakerAssumption DEF recordFailure, AtMost, IInv, TypeOK
<1> QED BY InitInv, StepInv, <1>1, PTL DEF Spec, TripsOnConsecutiveFailures

(* No call is admitted before the whole cool-down has really passed, even  *)
(* when the wall clock steps back.                                         *)
THEOREM CooldownAlwaysRespected == Spec => CooldownRespected
<1>1. IInv /\ [Next]_vars =>
        [\A c \in Callers : calls[c] = "none" /\ calls'[c] # "none"
           => sinceTrip >= Cooldown]_vars
  <2> SUFFICES ASSUME IInv, Next, NEW c \in Callers,
                      calls[c] = "none", calls'[c] # "none"
               PROVE  sinceTrip >= Cooldown
    BY DEF vars
  <2>1. PICK d \in Callers : allow(d)
    BY DEF Next, State, Tick, StepBack, Outage, record, recordFailure, recordSuccess,
           IInv, TypeOK
  <2>2. refresh /\ state' # "open"
    BY <2>1 DEF allow
  <2> QED BY <2>2, RefreshInv, BreakerAssumption
<1> QED BY InitInv, StepInv, <1>1, PTL DEF Spec, CooldownRespected

(***************************************************************************)
(* The rate limiter, for every rate, burst and unit.  The inductive        *)
(* invariant ties the bucket to the history: what has been admitted beyond *)
(* the rate is exactly what is missing in the bucket once the time since   *)
(* the last call is credited.                                              *)
(***************************************************************************)
Credited == Capped(tokens + accrued)

BucketInv == BucketTypeOK /\ excess + Credited = Capacity

(* newRateLimiterWithClock leaves a capacity of at least one token and a   *)
(* positive rate, whatever its arguments.                                  *)
LEMMA Parameters ==
  Capacity \in Nat /\ Capacity >= Unit /\ Unit > 0 /\ Unit \in Nat /\ Rate \in Nat \ {0}
<1> DEFINE B == IF Burst < 1 THEN 1 ELSE Burst
<1>1. B \in Nat /\ B >= 1
  BY LimiterAssumption
<1>2. Unit \in Nat /\ Unit > 0
  BY LimiterAssumption
<1>3. \A u, b \in Nat : b >= 1 => u * b \in Nat /\ u * b >= u
  <2> SUFFICES ASSUME NEW u \in Nat, NEW b \in Nat, b >= 1
               PROVE  u * b \in Nat /\ u * b >= u
    OBVIOUS
  <2>1. PICK d \in Nat : b = d + 1
    <3>1. b - 1 \in Nat /\ b = (b - 1) + 1
      OBVIOUS
    <3> QED BY <3>1
  <2>2. u * b = u * d + u /\ u * d \in Nat
    BY <2>1
  <2> QED BY <2>2
<1>4. Capacity \in Nat /\ Capacity >= Unit
  BY <1>1, <1>2, <1>3 DEF Capacity
<1>5. Rate \in Nat \ {0}
  BY LimiterAssumption DEF Rate
<1> QED BY <1>2, <1>4, <1>5

(* refill credits the time since the last call, and nothing else. *)
LEMMA RefillCredits ==
  ASSUME BucketTypeOK
  PROVE  refill = Credited /\ refill \in 0 .. Capacity
BY Parameters DEF BucketTypeOK, refill, Credited, Capped

(* The bucket a call leaves behind. *)
LEMMA AllowKeepsInv ==
  ASSUME BucketInv, Allow
  PROVE  BucketInv'
<1>1. refill = Credited /\ refill \in 0 .. Capacity
  BY RefillCredits DEF BucketInv
<1>2. excess \in Nat /\ excess + refill = Capacity
  BY <1>1 DEF BucketInv, BucketTypeOK
<1>3. accrued' = 0
  BY DEF Allow, AccruedAfter
<1>4. CASE HasToken
  <2>1. tokens' = refill - Unit /\ excess' = excess + Unit /\ verdict' = "admitted"
    BY <1>4 DEF Allow
  <2>2. refill >= Unit
    BY <1>4 DEF HasToken
  <2>3. tokens' \in 0 .. Capacity /\ excess' \in Nat /\ excess' + tokens' = Capacity
    BY <1>1, <1>2, <2>1, <2>2, Parameters
  <2>4. Credited' = tokens'
    BY <1>1, <1>3, <2>1, <2>2, Parameters DEF Credited, Capped
  <2> QED BY <1>3, <2>1, <2>3, <2>4 DEF BucketInv, BucketTypeOK
<1>5. CASE ~HasToken
  <2>1. tokens' = refill /\ excess' = excess /\ verdict' = "limited"
    BY <1>5 DEF Allow
  <2>2. Credited' = tokens'
    BY <1>1, <1>3, <2>1, Parameters DEF Credited, Capped
  <2> QED BY <1>1, <1>2, <1>3, <2>1, <2>2 DEF BucketInv, BucketTypeOK
<1> QED BY <1>4, <1>5

(* Time earns what it takes off the excess. *)
LEMMA ElapseKeepsInv ==
  ASSUME BucketInv, Elapse
  PROVE  BucketInv'
BY Parameters DEF BucketInv, BucketTypeOK, Elapse, Credited, Capped

LEMMA BucketInvHolds == LimiterSpec => []BucketInv
<1>1. LimiterInit => BucketInv
  BY Parameters DEF LimiterInit, BucketInv, BucketTypeOK, Credited, Capped
<1>2. BucketInv /\ [LimiterNext]_bucket => BucketInv'
  <2>1. CASE UNCHANGED bucket
    BY <2>1 DEF bucket, BucketInv, BucketTypeOK, Credited, Capped
  <2> QED BY <2>1, AllowKeepsInv, ElapseKeepsInv DEF LimiterNext
<1> QED BY <1>1, <1>2, PTL DEF LimiterSpec

(* The bucket never overflows its capacity and never goes below zero, for  *)
(* every configuration of NewRateLimiter.                                  *)
THEOREM BucketTypeCorrect == LimiterSpec => []BucketTypeOK
<1>1. BucketInv => BucketTypeOK
  BY DEF BucketInv
<1> QED BY <1>1, BucketInvHolds, PTL

(* In every window of time no more calls are admitted than the burst and   *)
(* what the rate allows in it.                                             *)
THEOREM BurstIsBounded == LimiterSpec => []BurstBound
<1>1. BucketInv => BurstBound
  BY Parameters DEF BucketInv, BucketTypeOK, BurstBound, Credited, Capped
<1> QED BY <1>1, BucketInvHolds, PTL

(* Allow refuses only a call that would exceed that bound: the lazy refill *)
(* loses no fraction of a token.                                           *)
THEOREM RefusalsAreDue == LimiterSpec => NeverRefusedEarly
<1>1. BucketInv /\ [LimiterNext]_bucket => [Allow /\ verdict' = "limited" => excess + Unit > Capacity]_bucket
  <2> SUFFICES ASSUME BucketInv, Allow, verdict' = "limited"
               PROVE  excess + Unit > Capacity
    OBVIOUS
  <2>1. refill = Credited /\ refill \in 0 .. Capacity
    BY RefillCredits DEF BucketInv
  <2>2. ~HasToken
    BY DEF Allow
  <2> QED BY <2>1, <2>2, Parameters DEF BucketInv, BucketTypeOK, HasToken
<1> QED BY <1>1, BucketInvHolds, PTL DEF LimiterSpec, NeverRefusedEarly
=============================================================================
