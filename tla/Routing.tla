------------------------------ MODULE Routing ------------------------------
(***************************************************************************)
(* Routing one accepted order to the venue:                                *)
(*                                                                         *)
(*   internal/app/service.go              route                            *)
(*   internal/resilience/retry.go         Retry, backoff                   *)
(*   internal/resilience/limiter.go       WithTimeout                      *)
(*   internal/adapters/memory/venue.go    Route, SetAutofill, FailNext     *)
(*                                                                         *)
(* WithTimeout runs each attempt in a goroutine of its own and abandons it *)
(* when the deadline passes: the attempt goes on and may still reach the   *)
(* venue, next to later attempts, also after route has returned.  The      *)
(* venue may report the execution back while it has the order, and other   *)
(* clients fill and cancel the stored order meanwhile.  Commands act on    *)
(* the stored order atomically, as OrderService is proved to do.           *)
(***************************************************************************)
EXTENDS Order, FiniteSetsExt

CONSTANTS RetryAttempts,        \* Config.RetryAttempts
          RouteTimeout,         \* timers, in ticks of the clock
          BaseDelay, MaxDelay,
          Terms,                \* of the order, valid ones
          MarketPrice,          \* SetAutofill's price for market orders
          FillQtys,             \* fills by other clients
          MaxFailures           \* bound: the argument of FailNext

ASSUME RoutingAssumption ==
  /\ RetryAttempts \in Int
  /\ RouteTimeout \in Nat /\ BaseDelay \in Nat /\ MaxDelay \in Nat
  /\ Terms \subseteq {t \in TermRecords : ValidTerms(t)}
  /\ MarketPrice \in Int64
  /\ FillQtys \subseteq Int64
  /\ MaxFailures \in Nat

(* NewRetryPolicy: at least one attempt. *)
MaxAttempts == IF RetryAttempts < 1 THEN 1 ELSE RetryAttempts

Attempts == 1 .. MaxAttempts

(* A bug to catch: the delay has no upper limit. *)
backoffUncapped(n) == BaseDelay * 2 ^ (n - 1)

(* The longest delay after the n-th attempt; jitter makes it any shorter one. *)
backoff(n) == LET exp == BaseDelay * 2 ^ (n - 1)
              IN  IF exp > MaxDelay THEN MaxDelay ELSE exp

VARIABLES
  local,       \* the service's *Order, as PlaceOrder left it
  stored,      \* the repository's snapshot of it
  caller,      \* where Retry is
  attempt,     \* its loop variable, from 1
  due,         \* when the caller's timer fires
  now,         \* time since route was called
  canceled,    \* the request's context
  result,      \* what route returned
  op,          \* attempt -> where its goroutine is
  abandoned,   \* attempts whose outcome nobody waited for
  failCount,   \* venue: Route calls still to fail
  routed,      \* venue: len(v.routed)
  autofill,    \* venue: v.autofill
  executions   \* history: automatic fills that were booked

callerVars == <<caller, attempt, due, now, result, abandoned>>
venueVars  == <<failCount, routed, autofill>>
vars == <<local, stored, callerVars, canceled, op, venueVars, executions>>

Init ==
  /\ \E t \in Terms : local = ClearEvents(Accept(NewOrder("id", t)))
  /\ stored = Snapshot(local)
  /\ caller = "loop" /\ attempt = 1 /\ result = "none"
  /\ due = 0 /\ now = 0
  /\ canceled = FALSE
  /\ op = [n \in Attempts |-> "none"] /\ abandoned = {}
  /\ failCount = 0 /\ routed = 0 /\ autofill = FALSE
  /\ executions = 0

(***************************************************************************)
(* Retry around WithTimeout.                                               *)
(***************************************************************************)
Return(res) ==
  /\ caller' = "returned"
  /\ result' = res
  /\ UNCHANGED <<attempt, due, now>>

(* The head of the loop: the context is looked at, then the attempt starts. *)
StartAttempt ==
  /\ caller = "loop"
  /\ IF canceled
     THEN Return("canceled") /\ UNCHANGED op
     ELSE /\ op' = [op EXCEPT ![attempt] = "started"]
          /\ caller' = "select"
          /\ due' = now + RouteTimeout
          /\ UNCHANGED <<attempt, now, result>>
  /\ UNCHANGED <<local, stored, canceled, abandoned, venueVars, executions>>

(* A bug to catch: one attempt too many. *)
PastLastAttempt == attempt > MaxAttempts

LastAttempt == attempt = MaxAttempts

(* The attempt has failed with err: every error is retried (Retryable is   *)
(* nil), without a delay after the last attempt.                           *)
RetryAfter(err) ==
  IF LastAttempt
  THEN Return(err)
  ELSE /\ caller' = "backoff"
       /\ \E d \in 0 .. backoff(attempt) : due' = now + d
       /\ UNCHANGED <<attempt, now, result>>

(* A bug to catch: a success is not told from a failure. *)
NeverSucceeds == FALSE

Succeeds == op[attempt] = "ok"

(* The outcome is in the channel and select takes it. *)
Outcome ==
  /\ caller = "select"
  /\ op[attempt] \in {"ok", "failed"}
  /\ IF Succeeds THEN Return("ok") ELSE RetryAfter("error")
  /\ UNCHANGED <<local, stored, canceled, op, abandoned, venueVars, executions>>

(* A bug to catch: WithTimeout waits for the attempt whatever the time. *)
NeverDone == FALSE

(* The attempt's context is done, by its deadline or with the request's. *)
ContextDone == now >= due \/ canceled

(* select may take this even if the outcome has just arrived. *)
Deadline ==
  /\ caller = "select"
  /\ ContextDone
  /\ abandoned' = abandoned \union {attempt}
  /\ RetryAfter("deadline")
  /\ UNCHANGED <<local, stored, canceled, op, venueVars, executions>>

BackoffEnds ==
  /\ caller = "backoff"
  /\ now >= due
  /\ attempt' = attempt + 1
  /\ caller' = "loop"
  /\ UNCHANGED <<local, stored, due, now, canceled, result, op, abandoned, venueVars,
                 executions>>

BackoffCanceled ==
  /\ caller = "backoff"
  /\ canceled
  /\ Return("canceled")
  /\ UNCHANGED <<local, stored, canceled, op, abandoned, venueVars, executions>>

Caller == StartAttempt \/ Outcome \/ Deadline \/ BackoffEnds \/ BackoffCanceled

(* Time passes while the caller waits, and no further than its timer. *)
Tick ==
  /\ caller \in {"select", "backoff"}
  /\ now < due
  /\ now' = now + 1
  /\ UNCHANGED <<local, stored, caller, attempt, due, canceled, result, op, abandoned,
                 venueVars, executions>>

(* The client goes away: the request's context is canceled. *)
Disconnect ==
  /\ ~canceled
  /\ canceled' = TRUE
  /\ UNCHANGED <<local, stored, callerVars, op, venueVars, executions>>

(***************************************************************************)
(* The venue, in the goroutine of attempt n.  It never looks at the        *)
(* context.                                                                *)
(***************************************************************************)
Route(n) ==
  /\ op[n] = "started"
  /\ IF failCount > 0
     THEN /\ failCount' = failCount - 1
          /\ op' = [op EXCEPT ![n] = "failed"]
          /\ UNCHANGED routed
     ELSE /\ routed' = routed + 1
          /\ op' = [op EXCEPT ![n] = IF autofill THEN "filling" ELSE "ok"]
          /\ UNCHANGED failCount
  /\ UNCHANGED <<local, stored, callerVars, canceled, autofill, executions>>

RemainingQuantity(o) == Wrap(o.terms.quantity - o.filledQty)

FillPrice == IF local.terms.orderType = "MARKET" THEN MarketPrice
                                                 ELSE local.terms.limitPrice

(* The filler reports what the service's copy leaves open: the whole       *)
(* order.  ApplyFill books it or refuses it; nobody is told.               *)
AutoFill(n) ==
  LET o == RehydrateOrder(stored)
      q == RemainingQuantity(local)
  IN  /\ op[n] = "filling"
      /\ IF CanFill(o, q, FillPrice)
         THEN /\ stored' = Snapshot(Fill(o, q, FillPrice))
              /\ executions' = executions + 1
         ELSE UNCHANGED <<stored, executions>>
      /\ op' = [op EXCEPT ![n] = "ok"]
      /\ UNCHANGED <<local, callerVars, canceled, venueVars>>

(* ApplyFill lost the version race against another client's command. *)
AutoFillConflict(n) ==
  /\ op[n] = "filling"
  /\ stored.version > local.version
  /\ op' = [op EXCEPT ![n] = "ok"]
  /\ UNCHANGED <<local, stored, callerVars, canceled, venueVars, executions>>

FailNext ==
  /\ failCount' \in 0 .. MaxFailures
  /\ UNCHANGED <<local, stored, callerVars, canceled, op, routed, autofill, executions>>

SetAutofill ==
  /\ autofill' \in BOOLEAN
  /\ UNCHANGED <<local, stored, callerVars, canceled, op, failCount, routed, executions>>

(***************************************************************************)
(* Other clients' commands on the stored order.                            *)
(***************************************************************************)
OtherFill ==
  LET o == RehydrateOrder(stored)
  IN  /\ \E q \in FillQtys : /\ CanFill(o, q, FillPrice)
                             /\ stored' = Snapshot(Fill(o, q, FillPrice))
      /\ UNCHANGED <<local, callerVars, canceled, op, venueVars, executions>>

OtherCancel ==
  /\ CanCancel(RehydrateOrder(stored))
  /\ stored' = Snapshot(Cancel(RehydrateOrder(stored)))
  /\ UNCHANGED <<local, callerVars, canceled, op, venueVars, executions>>

Next ==
  \/ Caller
  \/ Tick
  \/ Disconnect
  \/ \E n \in Attempts : Route(n) \/ AutoFill(n) \/ AutoFillConflict(n)
  \/ FailNext
  \/ SetAutofill
  \/ OtherFill
  \/ OtherCancel

Spec == Init /\ [][Next]_vars

(* The caller's goroutine runs and its timers fire.  The venue owes        *)
(* nothing: it may never answer.                                           *)
Fairness == WF_vars(Caller) /\ WF_vars(Tick)

FairSpec == Spec /\ Fairness

(***************************************************************************)
(* Properties.                                                             *)
(***************************************************************************)
(* Every variable keeps its type. *)
TypeOK ==
  /\ local \in OrderRecords({"id"}, Terms)
  /\ stored \in OrderSnapshots({"id"}, Terms)
  /\ caller \in {"loop", "select", "backoff", "returned"}
  /\ attempt \in Attempts
  /\ due \in Nat /\ now \in Nat
  /\ canceled \in BOOLEAN
  /\ result \in {"none", "ok", "error", "deadline", "canceled"}
  /\ op \in [Attempts -> {"none", "started", "filling", "ok", "failed"}]
  /\ abandoned \subseteq Attempts
  /\ failCount \in 0 .. MaxFailures
  /\ routed \in Nat
  /\ autofill \in BOOLEAN
  /\ executions \in Nat

(* What route tells its caller about the venue (service.go:113 only logs   *)
(* an error and the order stays ACCEPTED): after a success the venue has   *)
(* the order; every further copy, and every copy after an error, was put   *)
(* there by an attempt that WithTimeout had abandoned (limiter.go:119).    *)
CopiesAccountedFor ==
  /\ routed <= Cardinality(abandoned) + 1
  /\ result = "ok" => routed >= 1
  /\ caller = "returned" /\ result # "ok" => routed <= Cardinality(abandoned)

(* However many copies the venue gets and fills, each for the whole        *)
(* quantity of a stale copy (venue.go:63), the stored order is executed at *)
(* most once, and status and fills agree, whatever other clients do.       *)
ExecutedOnce ==
  /\ executions <= 1
  /\ FillsMatchStatus(stored)
  /\ executions = 1 => stored.status = "FILLED"

(* Delays[n]: the longest delays after the first n attempts, together. *)
Delays ==
  LET sum[n \in 0 .. MaxAttempts - 1] ==
        IF n = 0 THEN 0 ELSE sum[n - 1] + Min({BaseDelay * 2 ^ (n - 1), MaxDelay})
  IN  sum

(* A request is never held longer than its timeouts and delays add up to,  *)
(* whether or not the venue answers.                                       *)
WithinBudget == now <= MaxAttempts * RouteTimeout + Delays[MaxAttempts - 1]

(* route returns even if the venue never does. *)
RouteReturns == <>(caller = "returned")
=============================================================================
