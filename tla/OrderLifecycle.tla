--------------------------- MODULE OrderLifecycle ---------------------------
(***************************************************************************)
(* One order aggregate under every sequence of method calls, the ones the  *)
(* service makes and the ones it could make (Expire has no caller yet).    *)
(* "order" is the *Order value, "log" the events its owner has pulled.     *)
(***************************************************************************)
EXTENDS Order

CONSTANTS OrderID,       \* the id the order is created with
          Terms,         \* NewOrder's arguments, valid and invalid
          FillQtys,      \* Fill's quantities
          FillPrices     \* Fill's prices

ASSUME LifecycleAssumption ==
  /\ Terms \subseteq TermRecords
  /\ FillQtys \subseteq Int64
  /\ FillPrices \subseteq Int64

VARIABLES order, log

vars == <<order, log>>

History == log \o order.events

(***************************************************************************)
(* The state machine.                                                      *)
(***************************************************************************)
Init ==
  /\ \E t \in Terms : ValidTerms(t) /\ order = NewOrder(OrderID, t)
  /\ log = <<>>

DoAccept == CanAccept(order) /\ order' = Accept(order) /\ UNCHANGED log

DoReject == CanReject(order) /\ order' = Reject(order) /\ UNCHANGED log

DoCancel == CanCancel(order) /\ order' = Cancel(order) /\ UNCHANGED log

DoExpire == CanExpire(order) /\ order' = Expire(order) /\ UNCHANGED log

DoFill(qty, px) ==
  /\ CanFill(order, qty, px)
  /\ order' = Fill(order, qty, px)
  /\ UNCHANGED log

PullEvents ==
  /\ order.events # <<>>
  /\ log' = log \o order.events
  /\ order' = ClearEvents(order)

Next ==
  \/ DoAccept
  \/ DoReject
  \/ DoCancel
  \/ DoExpire
  \/ \E qty \in FillQtys, px \in FillPrices : DoFill(qty, px)
  \/ PullEvents

Spec == Init /\ [][Next]_vars

(***************************************************************************)
(* Safety.                                                                 *)
(***************************************************************************)
(* Every field of the order keeps its type: the quantities that Fill       *)
(* computes never leave int64, the average never overflows or turns        *)
(* negative, every status is one of types.go.                              *)
TypeOK ==
  /\ order \in OrderRecords({OrderID}, Terms)
  /\ log \in Seq(Events({OrderID}, Terms))

(* The status tells how much is filled.  Fill (order.go:150) sets the      *)
(* quantities first and ignores the error of transition, so this holds     *)
(* only if the status guard and legalTransitions agree.                    *)
StatusMatchesFills == FillsMatchStatus(order)

(* No method changes anything of a finished order, whatever order the      *)
(* calls come in (late fills after a cancel, cancel after the last fill).  *)
TerminalIsFinal ==
  [][order.status \in {"FILLED", "CANCELED", "REJECTED", "EXPIRED"}
       => Snapshot(order') = Snapshot(order)]_vars

(* Every change of what the repository persists bumps the version by       *)
(* exactly one: OrderRepository.Update detects a concurrent change by the  *)
(* version alone.                                                          *)
VersionGuardsContent ==
  [][Snapshot(order') # Snapshot(order)
       => order'.version = order.version + 1]_vars

(* What one event says about the order it was raised by.                   *)
ReplayEvent(s, e) ==
  CASE e.name = "OrderPlaced" ->
         [id |-> e.orderID, terms |-> e.terms, filledQty |-> 0,
          avgFillPx |-> 0, status |-> "NEW", version |-> 0]
    [] e.name = "OrderPartiallyFilled" ->
         [s EXCEPT !.status = "PARTIALLY_FILLED", !.version = @ + 1,
                   !.filledQty = e.cumulativeQty, !.avgFillPx = e.avgFillPrice]
    [] e.name = "OrderFilled" ->
         [s EXCEPT !.status = "FILLED", !.version = @ + 1,
                   !.filledQty = @ + e.fillQty, !.avgFillPx = e.avgFillPrice]
    [] e.name = "OrderAccepted" -> [s EXCEPT !.status = "ACCEPTED", !.version = @ + 1]
    [] e.name = "OrderRejected" -> [s EXCEPT !.status = "REJECTED", !.version = @ + 1]
    [] e.name = "OrderCanceled" -> [s EXCEPT !.status = "CANCELED", !.version = @ + 1]
    [] e.name = "OrderExpired"  -> [s EXCEPT !.status = "EXPIRED", !.version = @ + 1]

(* Before OrderPlaced nothing is known of the order. *)
Blank == [id |-> "none", terms |-> "none", filledQty |-> 0, avgFillPx |-> 0,
          status |-> "none", version |-> 0]

(* What the events s say, read one after the other. *)
Replay(s) ==
  LET known[i \in 0 .. Len(s)] ==
        IF i = 0 THEN Blank ELSE ReplayEvent(known[i - 1], s[i])
  IN  known[Len(s)]

(* "Events are the source of truth on the write side" (events.go:5): the   *)
(* events handed out and the ones still buffered, replayed in order, give  *)
(* exactly the order's persistent state.                                   *)
EventsReplayToState == Replay(History) = Snapshot(order)

Fills == {History[i] : i \in {j \in DOMAIN History : IsFillEvent(History[j])}}

(* With whole-share fills no notional is rounded, so however many fills an *)
(* order takes, its average stays between the lowest and the highest price *)
(* it was filled at.                                                       *)
AvgWithinFillPrices ==
  (\A e \in Fills : e.fillQty % quantityScale = 0) /\ Fills # {} =>
     /\ \E e \in Fills : e.fillPrice <= order.avgFillPx
     /\ \E e \in Fills : order.avgFillPx <= e.fillPrice

(* The quantity and the exact cost of the fills (in 1/quantityScale minor  *)
(* units), and twice the rounding error they may cause: each fill rounds   *)
(* two notionals and the quotient, the latter on all shares filled so far. *)
Count(t, e) ==
  IF IsFillEvent(e)
  THEN [qty   |-> t.qty + e.fillQty,
        cost  |-> t.cost + e.fillQty * e.fillPrice,
        drift |-> t.drift + 2 * quantityScale + t.qty + e.fillQty]
  ELSE t

Tally(s) ==
  LET tally[i \in 0 .. Len(s)] ==
        IF i = 0 THEN [qty |-> 0, cost |-> 0, drift |-> 0] ELSE Count(tally[i - 1], s[i])
  IN  tally[Len(s)]

(* Fill rounds three times: both notionals and the quotient.  Each fill    *)
(* may move avg * filled away from the exact cost by at most half a minor  *)
(* unit per notional and half a minor unit of price on the shares filled   *)
(* so far; the errors add up over the fills and never exceed the sum.      *)
AvgDriftBounded ==
  LET t == Tally(History)
  IN  2 * Abs(order.avgFillPx * order.filledQty - t.cost) <= t.drift
=============================================================================
