---------------------------- MODULE RateLimiter ----------------------------
(***************************************************************************)
(* The token bucket of internal/resilience/limiter.go that PlaceOrder asks *)
(* first.  The bucket is refilled lazily, by the calls themselves.         *)
(*                                                                         *)
(* Tokens are counted in units, Unit of them to a token, and a tick of the *)
(* clock is 1/Unit seconds, so that a rate of r tokens per second is r     *)
(* units per tick.  The code's float64 rounding is left out.  time.Now     *)
(* carries a monotonic reading, so the clock never steps back.             *)
(***************************************************************************)
EXTENDS Integers

CONSTANTS RefillPerSec, Burst,   \* arguments of NewRateLimiter
          Unit,
          MaxAccrued             \* bound: the clock waits for a call there

ASSUME LimiterAssumption ==
  /\ RefillPerSec \in Int
  /\ Burst \in Int
  /\ Unit \in Nat \ {0}
  /\ MaxAccrued \in Nat

(* Arguments that make no sense are replaced. *)
Capacity == Unit * (IF Burst < 1 THEN 1 ELSE Burst)

Rate == IF RefillPerSec <= 0 THEN 1 ELSE RefillPerSec

VARIABLES
  tokens,     \* r.tokens
  accrued,    \* what the time since r.last is worth: elapsed * refillRate
  verdict,    \* what the last call was told
  excess      \* history: units admitted beyond what the rate has paid for

bucket == <<tokens, accrued, verdict, excess>>

LimiterInit ==
  /\ tokens = Capacity
  /\ accrued = 0
  /\ verdict = "none"
  /\ excess = 0

Capped(x) == IF x > Capacity THEN Capacity ELSE x

(* Bugs to catch: no cap; only whole tokens are credited. *)
refillUncapped == tokens + accrued

refillWhole == Capped(tokens + Unit * (accrued \div Unit))

refill == IF accrued = 0 THEN tokens ELSE Capped(tokens + accrued)

HasToken == refill >= Unit

(* A bug to catch: r.last is not moved, and the same time is paid for twice. *)
AccruedAgain == accrued

AccruedAfter == 0

(* Under the mutex: refill, then take a token if there is one. *)
Allow ==
  /\ accrued' = AccruedAfter
  /\ IF HasToken
     THEN /\ tokens' = refill - Unit
          /\ verdict' = "admitted"
          /\ excess' = excess + Unit
     ELSE /\ tokens' = refill
          /\ verdict' = "limited"
          /\ UNCHANGED excess

Elapse ==
  /\ accrued + Rate <= MaxAccrued
  /\ accrued' = accrued + Rate
  /\ excess' = IF excess > Rate THEN excess - Rate ELSE 0
  /\ UNCHANGED <<tokens, verdict>>

LimiterNext == Allow \/ Elapse

LimiterSpec == LimiterInit /\ [][LimiterNext]_bucket

(* The bucket never holds more than its capacity nor less than nothing. *)
BucketTypeOK ==
  /\ tokens \in 0 .. Capacity
  /\ accrued \in Nat
  /\ verdict \in {"none", "admitted", "limited"}
  /\ excess \in Nat

(* limiter.go:21, "refillPerSec sustained calls with a burst up to         *)
(* capacity", for every window of time: excess grows by a token with each  *)
(* admitted call and shrinks with the rate but not below 0, so it is the   *)
(* largest number of calls admitted in some window that ends now, less     *)
(* what the rate allows in it.                                             *)
BurstBound == excess <= Capacity

(* A call is refused only when admitting it would break that bound: the    *)
(* lazy refill loses nothing of what has accrued, however often it runs.   *)
NeverRefusedEarly ==
  [][Allow /\ verdict' = "limited" => excess + Unit > Capacity]_bucket
=============================================================================
