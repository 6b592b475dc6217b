# TradeDesk: TLA+ models, checks and proofs

TradeDesk is an order-management service in Go: clients place, fill and cancel
orders over GraphQL; orders live in an in-memory store with optimistic
concurrency; domain events feed a position read model. This directory holds
TLA+ models of its core, TLC configurations that check them on small instances,
and TLAPS proofs for every value of the constants. Paths below are relative to
the repository root; `PROJECT.json` lists the runs, the source lines of every
definition, the hazards and the findings.

## The system

| Component | State | Operations | Correct when |
|---|---|---|---|
| Fixed-point money (`internal/domain/money.go`) | none | checked `addI64`, `mulI64`, `mulDivRound`, `MulQuantity`, `DivByQuantity`; `parseFixed`, `formatFixed` | every result is exact up to the stated rounding or reported as overflow; an amount is shown as it was written |
| Order aggregate (`internal/domain/order.go`, `types.go`, `events.go`) | quantities, average price, status, version, buffered events | `NewOrder`, `Accept`, `Reject`, `Cancel`, `Expire`, `Fill`, `PullEvents`, `Snapshot`, `RehydrateOrder` | status and fills agree; finished orders are final; events replay to the state; every change bumps the version |
| Service (`internal/app`) | per request: a local order and the version it read | `PlaceOrder`, `CancelOrder`, `ApplyFill`, queries | commands on one order act atomically; a key names one order; commands return |
| Repository (`internal/adapters/memory/repository.go`) | shards of snapshots, key table | `Save`, `Update`, `Get`, `FindByIdempotencyKey`, `List` | no lost update; a key never names a missing order; a list misses no order and shows none stale |
| Event bus (`eventbus.go`) | one bounded channel per subscriber, closed flag, in-flight count | `Subscribe`, `Publish`, worker, `Wait`, `Close` | each subscriber gets each event once and in order; publishers never blocked for ever; `Close` drains and does not deadlock |
| Read model (`readmodel.go`) | order metadata, positions | `Project`, `Positions` | positions reconcile with the stored fills |
| Venue (`venue.go`) | routed ids, failure counter, automatic fill | `Route`, `SetAutofill`, `FailNext` | duplicates come from abandoned attempts only; an order is executed once |
| Circuit breaker (`internal/resilience/circuitbreaker.go`) | state, counters, time of the trip | `Execute` (`allow`, `record`), `State` | trips on consecutive failures only; respects the cool-down; recovers |
| Retry and timeout (`retry.go`, `limiter.go`) | attempt, timers | `Retry`, `backoff`, `WithTimeout` | returns within its budget; an abandoned attempt does no harm |
| Rate limiter, bulkhead (`limiter.go`) | tokens; slots | `Allow`, `Guard`; `RunBulkhead` | admits exactly what burst and rate allow |
| Risk analysers (`internal/adapters/ai`) | thresholds | `Check` | hard limits hold; a model only raises the score |
| Process (`cmd/tradedesk/main.go`, `graphqlapi/server.go`) | active requests, shutdown phase | wiring, `ListenAndServe`, `Shutdown`, `bus.Close` | a signal ends the process; a clean stop has projected everything |
| API, configuration, observability (`graphqlapi/schema.go`, `config`, `observability`) | none of their own | | |

How they interact. A request goroutine runs `PlaceOrder`: rate limit, key lookup,
`NewOrder`, risk check (under breaker and timeout), `Save` (the shard, then the
key table), `Publish`, `Route` (retries, each under a timeout). `ApplyFill` and
`CancelOrder` load a copy, change it, store it if the version is still the one
read, and publish. `Publish` sends each event to the read model's channel and
blocks while it is full; one worker goroutine projects the events. Locks are
held only inside the store, the bus, the read model and the breaker: everything
between two such calls interleaves with other requests. On a signal `run` stops
the HTTP server, which waits for the handlers, and then closes the bus.

What is hard: the check-then-act on the idempotency key, the two critical
sections of `Save`, the gap between `Save` and `Publish`, updates computed from
stale copies, a bounded channel with blocking senders, a `Close` that waits
before it locks, routing attempts that go on after their timeout, a list that
reads one shard after the other, breaker outcomes that arrive in another state
than they were admitted in, a wall clock that steps back, and an average price
rounded three times per fill.

## Modules

| Module | Models |
|---|---|
| `Money` | `money.go`; the integer width `MaxInt` and `quantityScale` are parameters, so that overflow happens in small instances |
| `Order` | `order.go`, `types.go`, `events.go` as operators: for each method a predicate (returns no error) and the order after it |
| `OrderLifecycle` | one order under every sequence of method calls |
| `OrderLedger` | abstract: orders are created once and changed by atomic operations on what is stored |
| `OrderService` | service, repository, key table, bus and read model under concurrent requests; composes `Order` and instantiates `OrderLedger` |
| `CircuitBreaker` | the breaker under concurrent callers |
| `RiskGate` | the heuristic and the LLM risk analyser on one order |
| `EventBus` | `eventbus.go` lock by lock: subscriptions, publishers, workers, `Wait` and `Close` |
| `Shutdown` | `run` of `main.go` and the life of requests, on top of `EventBus` |
| `Routing` | `route` of the service with `Retry`, `WithTimeout` and the venue, on one `Order` |
| `RateLimiter` | the token bucket |
| `FixedText` | parse and format of `money.go`, on literals made of signs and digits |
| `Queries` | `ListOrders` against concurrent writers, from submitted texts to displayed texts; composes `Order` and `FixedText` |
| `MC*` | constants and symmetry for TLC |
| `OrderProofs` | lemmas on arithmetic, induction, recursion and the order's methods |
| `OrderLifecycleProofs`, `OrderServiceProofs`, `RiskGateProofs`, `RoutingProofs`, `ShutdownProofs`, `QueriesProofs` | the theorems of the module they are named after |
| `ResilienceProofs` | the theorems of `CircuitBreaker` and `RateLimiter`, which it both extends |

Correspondence with the code:

* **Order.** `order.events` is the buffer of `raise` and `PullEvents`. The fields
  fixed by `NewOrder` are one record `terms`. Timestamps and reject reasons are
  left out because nothing branches on them. `Fill` follows the order of
  operations of the code: both notionals are rounded, added, divided and rounded
  again; any overflow refuses the fill; the result of `transition` is ignored.
* **OrderService.** A request has a program counter `pc`, its command `cmd`, its
  local `*Order` and the version it read. Steps end where the code leaves a lock
  or calls out: `lookup` (key table), `risk`, `save` (shard lock), `register`
  (key table lock), `publish` (one step per send), `route`, `get`, `update`
  (shard lock). `BuildFails`, `LoadFails` and `UpdateFails` are the error returns.
  The duplicate-id return of `Save` is the ELSE branch of `SaveShard`. A command
  refused by the rate limiter or the parsers changes nothing, so it is a
  stuttering step. The risk verdict is arbitrary; error, timeout and open breaker
  all reject, as the code does. `Route` puts the order into `routed` or not; an
  attempt that completes after its timeout is covered because `routed` may be set
  whatever the caller was told; `Routing` has the attempts. The venue's automatic fill is a `BeginFill` of
  another request. `Project` takes an event and handles it in one step; since only
  the worker touches the read model this hides no interleaving, but the channel
  is effectively one event shorter than in the code.
* **FillsFollowRouting.** TRUE: fills come from the venue, for orders it was
  given. FALSE: the `applyFill` mutation is called with any id. An id is visible
  to other clients from `Save` on, through the order list or an idempotent replay.
* **RiskGate.** Both analysers look at the same order; a check only produces a
  decision. The model's answer is any integer of `Answers` or none (error, text
  that is no integer), and may differ from call to call. Thresholds above 100 are
  excluded (`RiskAssumption`): with them nothing could be rejected by score.
* **CircuitBreaker.** `allow` and `record` are atomic under the mutex; the call
  between them is not. `elapsed` is `now() - openedAt`, capped at the value from
  which no step back can matter. `streak` and `sinceTrip` are history variables.
  A clock that jumps forward is not modelled: it ends the cool-down early by
  design of a wall clock.
* **EventBus and Shutdown.** A publisher calls `Publish` once, with the events of
  its command. `at[p]` holds the variables of its two nested loops, the event and
  the subscriber. Its steps are the acquisition of the read lock with the test of
  `closed`, each subscriber that a filter skips (`PublishSkip`), each
  `inflight.Add`, each send, and the release. The RWMutex lets no
  new reader in while `Close` waits for the write lock. `Wait` returns at once on
  a count of 0; otherwise the `Done` that reaches 0 wakes it, and it panics if the
  count has left 0 before it runs, as `sync.WaitGroup` does; the other misuse
  panics of the WaitGroup need the same race and are not told apart. `crash`
  records a panic: nothing moves after it. `http.Server.Shutdown` waits until
  no handler is active, or gives up at its deadline. Code that is not in the
  repository is modelled from its use: the GraphQL library executes a
  request in a goroutine of its own and its handler returns when the client goes
  away, so a command may outlive its handler (`ClientGone`, `gone`). A connection
  accepted in time may still send its request during the shutdown (`Serve`).
* **Routing.** Begins where `PlaceOrder` calls `route`. `op[n]` is the goroutine
  of attempt `n`, which nobody stops: it may reach the venue at any later time, or
  never. `select` may take the deadline although the outcome is there. Delays are
  any number up to `backoff`, because of the jitter. Time counts in ticks and
  passes only while the caller waits. The venue's lock makes the first half of
  `Route` one step; the automatic fill is a second one, on the stored order,
  for the remaining quantity of the copy the service holds. `ApplyFill` is
  atomic here, which is what `OrderServiceProofs!Refinement` shows of it; its
  version conflict is `AutoFillConflict`.
* **RateLimiter.** Tokens are integers in units of `1/Unit` token, and a tick is
  `1/Unit` second, so that rate times elapsed time is exact; float64 rounding is
  left out. `accrued` stands for the time since `r.last`. The limiter reads
  `time.Now`, whose monotonic clock does not step back. `excess` is history: it
  grows by a token with each admitted call and shrinks with the rate, but not
  below 0. Its state formulas have names of their own (`LimiterSpec`, `bucket`,
  `BucketTypeOK`) so that one module can extend it together with `CircuitBreaker`.
* **FixedText and Queries.** A literal is a sign and two digit sequences that may
  carry a sign of their own, since `strconv.ParseInt` takes one. Other characters
  make `ParseInt` fail and are left out, as is `TrimSpace`. What a client submits
  besides price and quantity is one record `Request`, the same for all orders. `List` takes one step
  per shard; sorting is any order that the comparison admits, since `sort.Slice` is
  not stable. A writer reads the clock in `build` and stores later, so creation
  times and the order of storing may differ. Stored orders are accepted ones and
  their fills; `List` treats rejected and cancelled orders alike.

## Runs

| Run | Shows | States |
|---|---|---|
| `order_lifecycle` | `TypeOK`, `StatusMatchesFills`, `EventsReplayToState`, `AvgDriftBounded`, `AvgWithinFillPrices`, `TerminalIsFinal`, `VersionGuardsContent` | 109,525 |
| `order_service` | `TypeOK`, `IdemPointsToStored`, `StoredOrdersConsistent`, `PositionsReconcile`, `PlacedProjectedBeforeFills`, `ImplementsLedger` | 434,810 up to symmetry |
| `service_liveness` | `RequestsReturn`, `StoredOrdersReachReadModel` | 13 thousand |
| `breaker` | `TypeOK`, `ThresholdsAct`, `TripsOnConsecutiveFailures`, `CooldownRespected`, `Recovers` | 14,544 |
| `risk_gate` | `TypeOK`, `ModelOnlyStricter`, `OversizedNeverApproved` | 1,028 |
| `shutdown` | `TypeOK`, `PanicNeedsOutlivingCommand`, `OnceAndInOrder`, `CleanStopProjectsAll`, `SignalEndsProcess` | 143,909 |
| `routing` | `TypeOK`, `CopiesAccountedFor`, `ExecutedOnce`, `WithinBudget`, `RouteReturns` | 532,152 |
| `limiter` | `BucketTypeOK`, `BurstBound`, `NeverRefusedEarly` | 242 |
| `queries` | `ListMissesNothing`, `ListNotStale`, `ShownAsWritten`, `RefusedOnlyIfUnrepresentable` | 196,110 |
| `risk_overflow`, `service_key_race`, `service_early_fill` | violations: see Findings | |

Bounds and why they are enough.

* `order_lifecycle`: orders of 4 to 6 units at 2 units per share, so up to six
  fills with fractional shares; `MaxInt = 31` makes notionals and averages
  overflow; refused quantities and prices are among the inputs; up to
  three of the fills can be whole shares at different prices. The lifecycle
  ends in a terminal order, so deadlock is not an error.
* `order_service`: two requests cover every pair of commands racing on one or
  two orders, with one shared key, both sides, an invalid order and a channel
  that fills up; `MaxInt = 3` makes the read model's sums wrap. Two ids bound the number of placements (`IdLeft`); the
  hazards need two orders at most. Requests and ids are symmetric.
* `service_liveness`: a channel of one, so that every publisher blocks.
* `risk_gate`: quantities and prices on both sides of each limit, market and limit
  orders, all times in force, answers in and out of range around the thresholds, the
  heuristic's by default and the LLM analyser's below it;
  only orders whose notional fits int64 (`risk_overflow` has the others).
* `breaker`: three callers are enough for outcomes of two old calls to meet a
  new state; thresholds 3 and 2 are the smallest that distinguish counts kept
  from counts reset. The breaker's own bound is `MaxSkew`, the total distance
  the clock steps back.
* `shutdown`: channels of one and a batch of two events, so that a publisher
  blocks half-way; two subscribers, one with a filter; three requests, so that
  one may hold the read lock, one wait for it, and one outlive its handler. The
  process ends, so deadlock is not an error; `SignalEndsProcess` is the property
  that excludes it.
* `routing`: three attempts as in the default configuration, a delay that is capped
  after the first attempt, a timeout of two ticks so that an outcome may come
  before, with and after it; a market and a limit order of two units that other
  clients fill by one.
* `limiter`: a rate that is no divisor of a token, so that fractions matter, and a
  clock that may run up to half again the bucket's capacity between two calls.
* `queries`: four shards and three orders, two of them in one shard; two times,
  so that some are equal; scales of 100 and 10 and `MaxInt = 1023`, with literals
  at zero, at the largest amount, one beyond, and with a product that wraps to a
  small number.

Fairness. `OrderService!Fairness` is weak fairness of the worker and of each
request that has begun: the Go runtime runs every goroutine that can run, and
the risk check and the routing end by timeout. No client is obliged to send
anything. `CircuitBreaker!Fairness` adds that time passes, that an admitted call
ends (it runs under `WithTimeout`) and that there is traffic: without calls a
half-open breaker stays half-open. `Shutdown!Fairness` covers the workers, the
requests that were accepted and the steps of `run` after the signal, its deadline
included; no signal has to come and no client has to leave. `Routing!Fairness` is
the caller's goroutine and its timers; the venue may never answer. Weak fairness
does not by itself keep a blocked sender from being overtaken again and again; Go
serves blocked senders first come, first served, and in the run a request cannot
be overtaken for ever because every order publishes finitely many events.

## Findings

* `service_key_race`: two placements with one key both pass the lookup
  (`service.go:77`) and both are stored; the venue is given the first, the second
  takes the key over (`repository.go:68`) and the venue is given it too. `ports.go:34`
  promises that a retried create is not double-applied. `KeyRoutesOneOrder` relates
  two states of a behaviour, so the run is under `FairSpec`; it has no fills, which
  the question does not need.
* `service_early_fill`: a fill applied between `Save` and `Publish` of the
  placement is projected before `OrderPlaced` and dropped (`readmodel.go:59`);
  `eventbus.go:23` says it cannot be. With fills that follow the routing the same
  property holds (`order_service`).
* `risk_overflow`: the notional limit is skipped when the notional overflows int64
  (`analyzer.go:64`); with the default limits that takes a limit price of some
  billions of dollars, which the parser accepts.

Differences between words and code that are plain in the source and need no run:

* A partially filled order can expire (`types.go:111`); the diagram in
  `README.md:131` has no such edge.
* The average is not the formula of `README.md:157` for fractional shares
  (`order.go:167` rounds both notionals first). `AvgDriftBounded` says how far off
  it can be, `AvgWithinFillPrices` that whole shares are safe.
* Half-open admits any number of callers (`circuitbreaker.go:132`); the comments
  at lines 16 and 127 speak of a reserved probe.
* `README.md:155` says that all arithmetic is overflow-checked; the read model
  adds with plain `+=` (`readmodel.go:77`). `PositionsReconcile` holds modulo 2^w.
* `eventbus.go:25` speaks of isolating a slow consumer from the write path;
  `Publish` blocks its caller once the consumer is 4096 events behind.
* `parseFixed` accepts a sign inside a literal: `--5` is 5 and `1.-5` is less than
  1 (`money.go:158`, `:166`).

What the shutdown model shows beyond its properties: if a client leaves during the
shutdown, its command may still publish while `Close` waits. Then the WaitGroup
may be reused under `Wait`, which panics (`eventbus.go:82`), or the order is
stored and its events are dropped (`eventbus.go:63`) although the process reports
a clean stop. `PanicNeedsOutlivingCommand` and `CleanStopProjectsAll` say that this
is the only way. A shutdown that reaches its deadline skips `Close`
(`main.go:102`); by `WithinBudget` a placement may take three route timeouts of 3 s
with the delays between them, after a risk check of up to 2 s, which is more than
the default deadline of 10 s.

## Proofs

`OrderProofs` holds lemmas about the arithmetic and the order's methods:
wrap-around is the identity inside int64 and commutes with addition, checked sums
and rounded quotients of amounts are amounts, a rounded quotient is within half a
unit of the exact one and exact where it divides, what each method does to status,
fills, version and events. It also has the induction the other modules need: the
library's induction theorems take a predicate as a parameter, which the provers
cannot instantiate, so `SetInduction` states induction for a subset of the natural
numbers (a set is an ordinary variable) and derives it from `FS_Injection`;
`Recursion` and `RecursionUnique` derive from it that a function defined by
recursion on `0 .. N` exists and is unique. All sums, replays and tallies below are
such functions. `StrongInduction` and `Descent` do the same for a recursion that may
go to any smaller number, as the digits of a number and the divisions of a scale by
ten do.

* **OrderLifecycle.** `TypeCorrect`, `StatusCorrect`, `TerminalOrdersAreFinal`,
  `VersionsGuardContent`. The inductive invariant joins the type, the agreement of
  status and fills, and that the ordered quantity is positive; without the
  last an order could be created filled. `EventsAreTheTruth`: every method appends
  one event, or pulls what is buffered, and applying that event to the snapshot
  before gives the snapshot after it. `DriftBounded`: `DriftInv` adds that the fills
  of the history sum up to the filled quantity; one fill adds at most the three
  roundings it does. `AvgBetweenPrices`: `PriceInv` adds that whole fills sum up to
  whole shares, so both notionals are exact and the new average lies between the old
  one and the price.
* **OrderService.** `TypeCorrect`, `KeysPointToStored`, `NeverOverfilled` and
  `Refinement` (`Spec => Ledger!Spec`), for any number of requests, ids and keys.
  The inductive invariant `IInv` has a part for the shared state (`StoreOK`) and
  one for each request at each label (`RequestOK`). Its core: a request at
  `update` holds the result of its command on some snapshot of the order with
  version `expected`, and if the stored version is still `expected` that snapshot
  is the stored one. A store with a matching version is then exactly the
  operation applied to what is stored. A placement that meets
  its id already stored returns without a write, so nothing about fresh ids is needed.

  Two more theorems have the hypothesis `FillsFollowRouting`, which cannot be
  dropped (`service_early_fill`). `PlacedFirst`: `AInv` says that an order is
  announced (its `OrderPlaced` is in the channel or projected) before it is routed,
  that only announced orders are filled, and that the channel is first in, first
  out. `PositionsAddUp`: what the read model serves, what is in the channel and what
  requests have still to publish add up to what is stored. `TInv` says that events
  tell the truth about the store: an `OrderPlaced`, waiting or projected, carries
  the stored terms, a fill is of a stored order and its notional fits int64, and an
  order that is not published yet has no fills. Then every step moves a quantity
  from one summand to another: `Update` from nowhere into the store and the outbox
  at once, `Enqueue` from the outbox into the channel, `Project` from the channel
  into the position, where the sum may wrap; the equation is one modulo the width,
  which addition respects.
* **RiskGate.** `TypeCorrect`, and under the stated hypotheses `StricterModel`
  (the LLM analyser's threshold is not the higher one) and `HardLimitsHold` (the
  notionals fit int64). Neither hypothesis can be dropped: `risk_overflow` shows the
  second, and `NewLLMAnalyzer` accepts a threshold of its own without comparing it
  with the heuristic's, against `analyzer.go:98` (the program wires in the heuristic
  only).
* **CircuitBreaker.** `TypeCorrect`, `ThresholdsAlwaysAct`,
  `OpensOnlyOnConsecutiveFailures`, `CooldownAlwaysRespected`. The invariant adds
  that in a closed breaker `failures` counts a suffix of the `streak`, and that the
  clock never shows more than the time that really passed since the trip.
* **Routing.** `OrderExecutedOnce` and `EveryCopyAccountedFor`, for any number of
  attempts, any timers and terms. For the first, `OrderInv` keeps that the
  service's copy has no fill: a copy that the venue fills is then filled whole,
  so it can be booked only on an order without fills, and finishes it. For the
  second, `RouteInv` keeps that an attempt which runs or has succeeded is awaited
  or was abandoned; the copies on the venue are counted by the attempts that put
  them there.
  `BudgetKept`: `TimeInv` bounds the time at each place of the loop by the timeouts
  and delays before it, where the delays are a recursive sum of capped doublings.
  `TypeCorrect` follows with `OrderInv`, since the venue's fills are `Fill`s.
* **Shutdown.** `TypeCorrect`, `NoPanicOfItsOwn`, `InSubmissionOrder`, `CleanStop`,
  for any number of requests, subscribers and events and any capacity. The parts of
  the invariant: `LockOK` (whoever is in the loops of `Publish` holds the read lock,
  and the channels are closed only while nobody does, so no send meets a closed
  channel); `CountOK` (the WaitGroup's count is the number of tokens: events in
  channels or in a worker's hands, and publishers between `Add` and send);
  `CursorOK` and `SentOK` (what a subscriber was sent by a publisher is what the
  loops have passed, in their order); `LifeOK` and `CloseOK` (without a
  command that outlived its handler nobody publishes once `Close` waits, and what
  it waits for is handled when it returns).
* **RateLimiter.** `BucketTypeCorrect`, `BurstIsBounded`, `RefusalsAreDue`, for every rate,
  burst and unit. The invariant is an equation: what has been admitted beyond the
  rate is what is missing in the bucket once the time since the last call is
  credited.
* **Queries, the list.** `ListIsComplete` and `ListIsCurrent`, for any number of orders
  and shards, any hash and any limit. `IInv` has three parts. `StoreInv`: what is built
  or stored is an order with the terms parsed from what was written. `ScanInv`: the
  versions collected lie between the one at the start and the one stored now, nothing
  is collected twice, and an order stored at the start is collected or lies in a
  shard still to be scanned; it needs that shards partition the ids and that `Update`
  only raises versions. `PageInv`: the page is a sorted permutation of what was
  collected, cut at the limit. A permutation of a finite set is a surjection
  (`FS_Injection`), so what is not on the page is one of the rows cut off, and sorted
  neighbours make all earlier rows at least as new.
* **Queries, the texts.** `AmountsRoundTrip` and `ParseIsExact`, for every `MaxInt` and
  all scales that are powers of ten. The lemmas about `FixedText`: the number of a
  concatenation is that of its parts shifted by a power of ten; `Digits` of a number
  are digits of that number (`Descent`); a fraction of at most `n` digits is below
  `Pow10[n]`; on amounts that are not negative `mulI64` reports an overflow exactly when
  the product is beyond int64 (`MulExact`, by the distance between the product and its wrapped value), and so does
  `addI64` on the operands that `parseFixed` gives it (`AddExact`). Hence
  `ParseExact`, what `parseFixed` returns for a well-formed literal, `FormatExact`,
  what the text of an amount means, and `RoundTrip`.

Assumptions are the ones of the modules (`MoneyAssumption`, `ScaleAssumption`,
`LifecycleAssumption`, `ServiceAssumption`, `RiskAssumption`, `BreakerAssumption`,
`RoutingAssumption`, `LimiterAssumption`, `BusAssumption`, `ShutdownAssumption`,
`QueriesAssumption`): constants have their types, bounds are positive, `Nil` is none
of the values it stands apart from, the requests and the ids issued are finitely
many, and `main.go` subscribes each subscriber once and at least one. The scales are
powers of ten (10000 and 1000 in `money.go`); `scaleDigits` is meaningless for
others. The `Request` of `Queries` is a valid limit order, so that a placement is
refused for its two amounts only, which is what `RefusedOnlyIfUnrepresentable` is
about; `NewOrderRepository` is asked for at most 2^16 shards.

Every invariant and every action property of the passing runs is a theorem.
Model-checked only is liveness (`RequestsReturn`, `StoredOrdersReachReadModel`,
`Recovers`, `SignalEndsProcess`, `RouteReturns`): the prover does not handle
fairness.

## Not modelled

* The bulkhead and `Guard` (`limiter.go`), `Sub` and `subI64` (`money.go`): only
  the tests call them.
* `Positions` and `GetOrder`: each returns a copy made under one lock.
* The parsers of symbol, side, type and time in force (`types.go`): text in, one of
  a few constants out; an unparsable command changes nothing.
* Schema, argument mapping and JSON of the GraphQL layer, which hands each mutation
  to one command; `recoverMiddleware`, which turns a panic of a handler into an
  error answer.
* Configuration parsing and the health probe: no state that anything else reads.
* Float64 rounding in the limiter and in the jitter: TLA+ as used here has no
  floating point; the limiter is modelled on exact numbers.
* Metrics and logs: written, never read by the program.
* The FNV hash itself: `Hash` is any function.

## Plan

Done: all modules above, their runs, and the proofs of every safety property the runs
check. What could follow, in the order of what it would show:

1. The service on top of `EventBus` in place of its one channel, so that
   the theorems of `OrderServiceProofs` and `ShutdownProofs` are about one system.
2. The bulkhead, once something in the program uses it.
