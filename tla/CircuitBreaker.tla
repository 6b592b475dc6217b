--------------------------- MODULE CircuitBreaker ---------------------------
(***************************************************************************)
(* internal/resilience/circuitbreaker.go under concurrent callers.  Each   *)
(* method body runs under the breaker's mutex and is one step; between     *)
(* allow and record the protected call runs unlocked, so its outcome may   *)
(* arrive in another state than the one it was admitted in.                *)
(*                                                                         *)
(* Time is the clock's reading since openedAt.  The service hands in       *)
(* time.Now().UTC(), a wall clock without monotonic reading, so it may     *)
(* also step back; MaxSkew bounds how far in all.                          *)
(***************************************************************************)
EXTENDS Integers, FiniteSets

CONSTANTS Callers,           \* goroutines that call Execute
          FailureThreshold,
          SuccessThreshold,
          Cooldown,          \* in ticks
          MaxSkew            \* bound: ticks the clock may step back in all

(* NewCircuitBreaker replaces thresholds below 1 and cool-downs below 1. *)
ASSUME BreakerAssumption ==
  /\ FailureThreshold \in Nat \ {0}
  /\ SuccessThreshold \in Nat \ {0}
  /\ Cooldown \in Nat \ {0}
  /\ MaxSkew \in Nat

VARIABLES
  state, failures, halfOpenSuccess,   \* the fields of CircuitBreaker
  elapsed,      \* now() - openedAt
  skew,         \* ticks the clock has stepped back so far
  calls,        \* caller -> "none" or the state its running call was admitted in
  up,           \* the dependency answers every call in time
  streak,       \* history: failures recorded since the last success
  sinceTrip     \* history: ticks that really passed since the last trip

breaker == <<state, failures, halfOpenSuccess>>
time    == <<elapsed, skew, sinceTrip>>
vars == <<state, failures, halfOpenSuccess, elapsed, skew, calls, up, streak, sinceTrip>>

(* Later than this, no step back can bring the cool-down back. *)
MaxElapsed == Cooldown + MaxSkew

AtMost(n, bound) == IF n > bound THEN bound ELSE n

Init ==
  /\ state = "closed" /\ failures = 0 /\ halfOpenSuccess = 0
  /\ elapsed = MaxElapsed /\ skew = 0
  /\ calls = [c \in Callers |-> "none"]
  /\ up = TRUE
  /\ streak = 0
  /\ sinceTrip = Cooldown

CooledDown == elapsed >= Cooldown

(* A bug to catch: successes of an earlier half-open period still count. *)
refreshKeepsCount ==
  IF state = "open" /\ CooledDown
  THEN state' = "half-open" /\ UNCHANGED halfOpenSuccess
  ELSE UNCHANGED <<state, halfOpenSuccess>>

(* refresh: an open breaker becomes half-open once the cool-down passed. *)
refresh ==
  IF state = "open" /\ CooledDown
  THEN state' = "half-open" /\ halfOpenSuccess' = 0
  ELSE UNCHANGED <<state, halfOpenSuccess>>

(* State(), called by the health query. *)
State ==
  /\ refresh
  /\ UNCHANGED <<failures, time, calls, up, streak>>

(* Execute up to the call: admitted unless the breaker is open.  Nothing   *)
(* is reserved.                                                            *)
allow(c) ==
  /\ calls[c] = "none"
  /\ refresh
  /\ calls' = IF state' # "open" THEN [calls EXCEPT ![c] = state'] ELSE calls
  /\ UNCHANGED <<failures, time, up, streak>>

(* A bug to catch: one failure too many is tolerated. *)
TripsLate ==
  \/ state = "half-open"
  \/ state = "closed" /\ failures + 1 > FailureThreshold

Trips ==
  \/ state = "half-open"
  \/ state = "closed" /\ failures + 1 >= FailureThreshold

(* record(err): a failure also counts while the breaker is open. *)
recordFailure(c) ==
  /\ calls[c] # "none"
  /\ ~up
  /\ calls' = [calls EXCEPT ![c] = "none"]
  /\ IF Trips
     THEN state' = "open" /\ failures' = 0 /\ elapsed' = 0 /\ sinceTrip' = 0
     ELSE failures' = failures + 1 /\ UNCHANGED <<state, elapsed, sinceTrip>>
  /\ streak' = AtMost(streak + 1, FailureThreshold)
  /\ UNCHANGED <<halfOpenSuccess, skew, up>>

(* A bug to catch: a success does not interrupt a run of failures. *)
SuccessKeepsFailures ==
  LET closes == state = "half-open" /\ halfOpenSuccess + 1 >= SuccessThreshold
  IN  /\ state' = IF closes THEN "closed" ELSE state
      /\ failures' = IF closes THEN 0 ELSE failures
      /\ halfOpenSuccess' = halfOpenSuccess + (IF state = "half-open" THEN 1 ELSE 0)

(* A bug to catch: a late success closes a breaker that has just opened. *)
SuccessCloses ==
  LET closes == \/ state = "half-open" /\ halfOpenSuccess + 1 >= SuccessThreshold
                \/ state = "open"
  IN  /\ state' = IF closes THEN "closed" ELSE state
      /\ failures' = IF closes \/ state = "closed" THEN 0 ELSE failures
      /\ halfOpenSuccess' = halfOpenSuccess + (IF state = "half-open" THEN 1 ELSE 0)

(* A bug to catch: successful probes are not counted. *)
SuccessUncounted ==
  /\ failures' = IF state = "closed" THEN 0 ELSE failures
  /\ UNCHANGED <<state, halfOpenSuccess>>

(* record(nil): closes a half-open breaker after enough successes, clears  *)
(* the count of a closed one, is ignored by an open one.                   *)
Success ==
  LET closes == state = "half-open" /\ halfOpenSuccess + 1 >= SuccessThreshold
  IN  /\ state' = IF closes THEN "closed" ELSE state
      /\ failures' = IF closes \/ state = "closed" THEN 0 ELSE failures
      /\ halfOpenSuccess' = halfOpenSuccess + (IF state = "half-open" THEN 1 ELSE 0)

recordSuccess(c) ==
  /\ calls[c] # "none"
  /\ calls' = [calls EXCEPT ![c] = "none"]
  /\ Success
  /\ streak' = 0
  /\ UNCHANGED <<time, up>>

(***************************************************************************)
(* The environment.                                                        *)
(***************************************************************************)
Tick ==
  /\ elapsed' = AtMost(elapsed + 1, MaxElapsed)
  /\ sinceTrip' = AtMost(sinceTrip + 1, Cooldown)
  /\ UNCHANGED <<breaker, skew, calls, up, streak>>

StepBack ==
  /\ skew < MaxSkew
  /\ skew' = skew + 1
  /\ elapsed' = elapsed - 1
  /\ UNCHANGED <<breaker, calls, up, streak, sinceTrip>>

(* The dependency breaks down or recovers. *)
Outage ==
  /\ up' = ~up
  /\ UNCHANGED <<breaker, time, calls, streak>>

record(c) == recordFailure(c) \/ recordSuccess(c)

Next == State \/ Tick \/ StepBack \/ Outage \/ \E c \in Callers : allow(c) \/ record(c)

Spec == Init /\ [][Next]_vars

(* Time passes, an admitted call ends (it runs under WithTimeout), and     *)
(* there is traffic: recovery is driven by calls.                          *)
Fairness ==
  /\ WF_vars(Tick)
  /\ \A c \in Callers : WF_vars(allow(c)) /\ WF_vars(record(c))

FairSpec == Spec /\ Fairness

(***************************************************************************)
(* Safety.                                                                 *)
(***************************************************************************)
(* The fields keep their types.  failures has no bound of its own: an      *)
(* outcome that arrives while the breaker is open still increments it.     *)
TypeOK ==
  /\ state \in {"closed", "open", "half-open"}
  /\ failures \in Nat
  /\ halfOpenSuccess \in 0 .. SuccessThreshold
  /\ elapsed \in -MaxSkew .. MaxElapsed
  /\ skew \in 0 .. MaxSkew
  /\ calls \in [Callers -> {"none", "closed", "half-open"}]
  /\ up \in BOOLEAN
  /\ streak \in 0 .. FailureThreshold
  /\ sinceTrip \in 0 .. Cooldown

(* The breaker never rests on a threshold: whatever outcomes arrive late,  *)
(* a closed breaker has room for a failure and a half-open one still needs *)
(* a success.                                                              *)
ThresholdsAct ==
  /\ state = "closed" => failures < FailureThreshold
  /\ state = "half-open" => halfOpenSuccess < SuccessThreshold

(* circuitbreaker.go:33: the breaker "trips open after consecutive         *)
(* failures": when a closed breaker opens, at least FailureThreshold       *)
(* outcomes in a row were failures, over all callers.                      *)
TripsOnConsecutiveFailures ==
  [][state = "closed" /\ state' = "open" => streak' >= FailureThreshold]_vars

(* While the cool-down runs, no call is let through, whatever outcomes of  *)
(* calls from before the trip arrive and even if the clock steps back.     *)
CooldownRespected ==
  [][\A c \in Callers : calls[c] = "none" /\ calls'[c] # "none"
       => sinceTrip >= Cooldown]_vars

(***************************************************************************)
(* Liveness, under FairSpec.                                               *)
(***************************************************************************)
(* Once the dependency stays up, the breaker closes and stays closed.      *)
Recovers == <>[]up => <>[](state = "closed")
=============================================================================
