------------------------------- MODULE Order -------------------------------
(***************************************************************************)
(* The Order aggregate of internal/domain: the state machine of types.go,  *)
(* the methods of order.go and the events of events.go.  A method is a     *)
(* pair: a predicate that says when it returns no error and an operator    *)
(* that gives the order after it.  A method that returns an error changes  *)
(* nothing.  Timestamps and reject reasons are left out: nothing branches  *)
(* on them.  The fields fixed at creation are grouped in the record        *)
(* "terms".                                                                *)
(***************************************************************************)
EXTENDS Money, Sequences

(***************************************************************************)
(* types.go: the order state machine.                                      *)
(***************************************************************************)
Statuses == {"NEW", "ACCEPTED", "PARTIALLY_FILLED", "FILLED", "CANCELED",
             "REJECTED", "EXPIRED"}

(* A bug to catch: a partially filled order can no longer be filled up. *)
legalTransitionsNoCompletion ==
  [s \in Statuses |->
     CASE s = "NEW"              -> {"ACCEPTED", "REJECTED"}
       [] s = "ACCEPTED"         -> {"PARTIALLY_FILLED", "FILLED", "CANCELED", "EXPIRED"}
       [] s = "PARTIALLY_FILLED" -> {"PARTIALLY_FILLED", "CANCELED", "EXPIRED"}
       [] OTHER                  -> {}]

legalTransitions ==
  [s \in Statuses |->
     CASE s = "NEW" -> {"ACCEPTED", "REJECTED"}
       [] s \in {"ACCEPTED", "PARTIALLY_FILLED"} ->
            {"PARTIALLY_FILLED", "FILLED", "CANCELED", "EXPIRED"}
       [] OTHER -> {}]

canTransitionTo(from, to) == to \in legalTransitions[from]

(***************************************************************************)
(* events.go.  One record per event type, with the payload that order.go   *)
(* puts in it.                                                             *)
(***************************************************************************)
OrderPlaced(id, t) == [name |-> "OrderPlaced", orderID |-> id, terms |-> t]

StatusEvent(name, id) == [name |-> name, orderID |-> id]

OrderFilled(id, q, px, avg) ==
  [name |-> "OrderFilled", orderID |-> id, fillQty |-> q, fillPrice |-> px,
   avgFillPrice |-> avg]

OrderPartiallyFilled(id, q, px, cum, avg) ==
  [name |-> "OrderPartiallyFilled", orderID |-> id, fillQty |-> q,
   fillPrice |-> px, cumulativeQty |-> cum, avgFillPrice |-> avg]

(* The wire names of the events that carry no payload the model keeps. *)
PlainEventNames == {"OrderAccepted", "OrderRejected", "OrderCanceled", "OrderExpired"}

Events(ids, terms) ==
  [name : {"OrderPlaced"}, orderID : ids, terms : terms]
    \union [name : PlainEventNames, orderID : ids]
    \union [name : {"OrderFilled"}, orderID : ids, fillQty : Int64,
            fillPrice : Int64, avgFillPrice : Int64]
    \union [name : {"OrderPartiallyFilled"}, orderID : ids, fillQty : Int64,
            fillPrice : Int64, cumulativeQty : Int64, avgFillPrice : Int64]

IsFillEvent(e) == e.name \in {"OrderFilled", "OrderPartiallyFilled"}

(***************************************************************************)
(* order.go: construction.                                                 *)
(***************************************************************************)
ValidTerms(t) ==
  /\ t.account # ""
  /\ t.symbol # ""
  /\ t.side \in {"BUY", "SELL"}
  /\ t.orderType \in {"MARKET", "LIMIT"}
  /\ t.tif \in {"DAY", "GTC", "IOC", "FOK"}
  /\ t.quantity > 0
  /\ t.orderType = "LIMIT" => t.limitPrice > 0
  /\ t.orderType = "MARKET" => t.limitPrice = 0

raise(o, e) == [o EXCEPT !.events = Append(@, e)]

(* NewOrder leaves filledQty, avgFillPx and version at Go's zero value. *)
NewOrder(id, t) ==
  raise([id |-> id, terms |-> t, filledQty |-> 0, avgFillPx |-> 0,
         status |-> "NEW", version |-> 0, events |-> <<>>],
        OrderPlaced(id, t))

(***************************************************************************)
(* order.go: transition and the methods that only change the status.  An   *)
(* illegal transition returns an error and leaves the order as it was.     *)
(***************************************************************************)
(* A bug to catch: a transition that does not bump the version. *)
TransitionNoBump(o, to) ==
  IF canTransitionTo(o.status, to) THEN [o EXCEPT !.status = to] ELSE o

Transition(o, to) ==
  IF canTransitionTo(o.status, to)
  THEN [o EXCEPT !.status = to, !.version = @ + 1]
  ELSE o

CanAccept(o) == canTransitionTo(o.status, "ACCEPTED")
Accept(o) == raise(Transition(o, "ACCEPTED"), StatusEvent("OrderAccepted", o.id))

CanReject(o) == canTransitionTo(o.status, "REJECTED")
Reject(o) == raise(Transition(o, "REJECTED"), StatusEvent("OrderRejected", o.id))

CanCancel(o) == canTransitionTo(o.status, "CANCELED")

(* A bug to catch: the cancel is not announced. *)
CancelSilent(o) == Transition(o, "CANCELED")

Cancel(o) == raise(Transition(o, "CANCELED"), StatusEvent("OrderCanceled", o.id))

CanExpire(o) == canTransitionTo(o.status, "EXPIRED")
Expire(o) == raise(Transition(o, "EXPIRED"), StatusEvent("OrderExpired", o.id))

(***************************************************************************)
(* order.go: Fill.  FillNotional and FillAvg follow the code's order of    *)
(* operations: both notionals are rounded to minor units before they are   *)
(* added, the sum is divided by the new quantity and rounded again, and    *)
(* any overflow abandons the fill.                                         *)
(***************************************************************************)
(* A bug to catch: the old average is weighted with the new quantity. *)
FillNotionalNewQty(o, qty, px) ==
  LET old == MulQuantity(o.avgFillPx, o.filledQty + qty)
      add == MulQuantity(px, qty)
  IN  IF old.ok /\ add.ok THEN addI64(old.val, add.val) ELSE Overflow

FillNotional(o, qty, px) ==
  LET old == MulQuantity(o.avgFillPx, o.filledQty)
      add == MulQuantity(px, qty)
  IN  IF old.ok /\ add.ok THEN addI64(old.val, add.val) ELSE Overflow

FillAvg(o, qty, px) ==
  LET total == FillNotional(o, qty, px)
  IN  IF total.ok
      THEN DivByQuantity(total.val, addI64(o.filledQty, qty).val)
      ELSE Overflow

(* A bug to catch: Fill without its test of the status. *)
CanFillAnyStatus(o, qty, px) ==
  LET newFilled == addI64(o.filledQty, qty)
  IN  /\ qty > 0
      /\ px > 0
      /\ newFilled.ok
      /\ newFilled.val <= o.terms.quantity
      /\ FillAvg(o, qty, px).ok

(* A bug to catch: Fill without its test for an over-fill. *)
CanFillOver(o, qty, px) ==
  /\ o.status \in {"ACCEPTED", "PARTIALLY_FILLED"}
  /\ qty > 0
  /\ px > 0
  /\ addI64(o.filledQty, qty).ok
  /\ FillAvg(o, qty, px).ok

CanFill(o, qty, px) ==
  LET newFilled == addI64(o.filledQty, qty)
  IN  /\ o.status \in {"ACCEPTED", "PARTIALLY_FILLED"}
      /\ qty > 0
      /\ px > 0
      /\ newFilled.ok
      /\ newFilled.val <= o.terms.quantity
      /\ FillAvg(o, qty, px).ok

(* The error that transition returns is ignored, the event is raised anyway. *)
Fill(o, qty, px) ==
  LET newFilled == addI64(o.filledQty, qty).val
      newAvg    == FillAvg(o, qty, px).val
      filled    == [o EXCEPT !.filledQty = newFilled, !.avgFillPx = newAvg]
  IN  IF newFilled = o.terms.quantity
      THEN raise(Transition(filled, "FILLED"),
                 OrderFilled(o.id, qty, px, newAvg))
      ELSE raise(Transition(filled, "PARTIALLY_FILLED"),
                 OrderPartiallyFilled(o.id, qty, px, newFilled, newAvg))

(***************************************************************************)
(* order.go: handing over the buffered events, persistence.                *)
(***************************************************************************)
ClearEvents(o) == [o EXCEPT !.events = <<>>]

Snapshot(o) ==
  [id |-> o.id, terms |-> o.terms, filledQty |-> o.filledQty,
   avgFillPx |-> o.avgFillPx, status |-> o.status, version |-> o.version]

RehydrateOrder(s) ==
  [id |-> s.id, terms |-> s.terms, filledQty |-> s.filledQty,
   avgFillPx |-> s.avgFillPx, status |-> s.status, version |-> s.version,
   events |-> <<>>]

(***************************************************************************)
(* The types of the structs Order and OrderSnapshot.                       *)
(***************************************************************************)
TermRecords == [account : STRING, symbol : STRING, side : STRING,
                orderType : STRING, tif : STRING, limitPrice : Int64,
                quantity : Int64]

OrderRecords(ids, terms) ==
  [id : ids, terms : terms, filledQty : Int64, avgFillPx : 0 .. MaxInt,
   status : Statuses, version : Nat, events : Seq(Events(ids, terms))]

OrderSnapshots(ids, terms) ==
  [id : ids, terms : terms, filledQty : Int64, avgFillPx : 0 .. MaxInt,
   status : Statuses, version : Nat]

(* The status of an order or of a snapshot tells how much is filled. *)
FillsMatchStatus(o) ==
  /\ o.status \in {"NEW", "ACCEPTED", "REJECTED"} => o.filledQty = 0
  /\ o.status = "PARTIALLY_FILLED" => o.filledQty \in 1 .. o.terms.quantity - 1
  /\ o.status = "FILLED" <=> o.filledQty = o.terms.quantity
  /\ o.filledQty \in 0 .. o.terms.quantity
=============================================================================
