------------------------ MODULE OrderLifecycleProofs ------------------------
(***************************************************************************)
(* Proofs about one order aggregate, for every width of the integers,      *)
(* every scale, and every set of order terms, fill quantities and prices.  *)
(***************************************************************************)
EXTENDS OrderLifecycle, OrderProofs

(***************************************************************************)
(* The inductive invariant.  StatusMatchesFills alone is not inductive: a  *)
(* fill of an order with quantity 0 would be complete before it starts.    *)
(***************************************************************************)
PositiveQuantity == order.terms.quantity > 0

IInv == TypeOK /\ StatusMatchesFills /\ PositiveQuantity

(* A step that calls a status-only method. *)
LEMMA StatusStep ==
  ASSUME TypeOK,
         NEW to \in Statuses, NEW n \in PlainEventNames,
         canTransitionTo(order.status, to),
         order' = raise(Transition(order, to), StatusEvent(n, order.id))
  PROVE  /\ order' \in OrderRecords({OrderID}, Terms)
         /\ order'.terms = order.terms
         /\ order'.filledQty = order.filledQty
         /\ order'.status = to
         /\ order'.version = order.version + 1
BY StatusMethod, LifecycleAssumption DEF TypeOK

(* A step that calls Fill. *)
LEMMA FillStep ==
  ASSUME IInv, NEW qty \in FillQtys, NEW px \in FillPrices, DoFill(qty, px)
  PROVE  /\ order' \in OrderRecords({OrderID}, Terms)
         /\ order'.terms = order.terms
         /\ order'.filledQty \in 1 .. order.terms.quantity
         /\ order'.status = IF order'.filledQty = order.terms.quantity
                            THEN "FILLED" ELSE "PARTIALLY_FILLED"
         /\ order'.version = order.version + 1
         /\ order.status \in {"ACCEPTED", "PARTIALLY_FILLED"}
<1>1. qty \in Int64 /\ px \in Int64 /\ CanFill(order, qty, px)
      /\ order' = Fill(order, qty, px)
  BY LifecycleAssumption DEF DoFill
<1>2. order.status \in {"ACCEPTED", "PARTIALLY_FILLED"}
  BY <1>1 DEF CanFill
<1> QED BY <1>1, <1>2, FillMethod, LifecycleAssumption
        DEF IInv, TypeOK, StatusMatchesFills

(* PullEvents only moves events: nothing the repository persists changes. *)
LEMMA PullStep ==
  ASSUME TypeOK, PullEvents
  PROVE  /\ order' \in OrderRecords({OrderID}, Terms)
         /\ log' \in Seq(Events({OrderID}, Terms))
         /\ Snapshot(order') = Snapshot(order)
<1>1. order' = [order EXCEPT !.events = <<>>]
  BY DEF PullEvents, ClearEvents
<1>2. /\ order' \in OrderRecords({OrderID}, Terms)
      /\ order'.id = order.id /\ order'.terms = order.terms
      /\ order'.filledQty = order.filledQty /\ order'.avgFillPx = order.avgFillPx
      /\ order'.status = order.status /\ order'.version = order.version
  <2>1. <<>> \in Seq(Events({OrderID}, Terms))
    OBVIOUS
  <2> QED BY <1>1, <2>1 DEF TypeOK, OrderRecords
<1>3. log' \in Seq(Events({OrderID}, Terms))
  BY OrderFields, LifecycleAssumption DEF PullEvents, TypeOK
<1> QED BY <1>2, <1>3 DEF Snapshot

(***************************************************************************)
(* The theorems.                                                           *)
(***************************************************************************)
(* A fresh order satisfies the invariant: nothing filled, status NEW.      *)
LEMMA InitInv == Init => IInv
<1> SUFFICES ASSUME Init PROVE IInv
  OBVIOUS
<1>1. PICK t \in Terms : ValidTerms(t) /\ order = NewOrder(OrderID, t)
  BY DEF Init
<1>2. /\ order \in OrderRecords({OrderID}, Terms) /\ order.terms = t
      /\ FillsMatchStatus(order)
  <2>1. Terms \subseteq TermRecords /\ OrderID \in {OrderID}
    BY LifecycleAssumption
  <2>2. /\ NewOrder(OrderID, t) \in OrderRecords({OrderID}, Terms)
        /\ NewOrder(OrderID, t).terms = t
        /\ FillsMatchStatus(NewOrder(OrderID, t))
    BY <1>1, <2>1, NewOrderFacts
  <2> QED BY <1>1, <2>2
<1>3. log \in Seq(Events({OrderID}, Terms))
  BY DEF Init
<1> QED BY <1>1, <1>2, <1>3 DEF IInv, TypeOK, StatusMatchesFills, PositiveQuantity, ValidTerms

(* Every method call preserves the invariant. *)
LEMMA StepInv == IInv /\ [Next]_vars => IInv'
<1> SUFFICES ASSUME IInv, [Next]_vars PROVE IInv'
  OBVIOUS
<1>0. /\ order.terms.quantity \in Int /\ order.terms.quantity > 0
      /\ order.filledQty \in Int /\ order.status \in Statuses
  BY OrderFields, LifecycleAssumption, Int64Facts DEF IInv, TypeOK, PositiveQuantity
<1> DEFINE Quiet(to) == /\ order' \in OrderRecords({OrderID}, Terms)
                        /\ order'.terms = order.terms
                        /\ order'.filledQty = order.filledQty
                        /\ order'.status = to
                        /\ UNCHANGED log
<1>1. CASE DoAccept
  <2>1. canTransitionTo(order.status, "ACCEPTED") /\ Quiet("ACCEPTED")
    BY <1>1, StatusStep DEF DoAccept, CanAccept, Accept, IInv, Statuses, PlainEventNames
  <2>2. order.status = "NEW"
    BY <2>1, <1>0, WorkingStatus DEF Statuses
  <2> QED BY <1>0, <2>1, <2>2 DEF IInv, TypeOK, StatusMatchesFills, FillsMatchStatus, PositiveQuantity
<1>2. CASE DoReject
  <2>1. canTransitionTo(order.status, "REJECTED") /\ Quiet("REJECTED")
    BY <1>2, StatusStep DEF DoReject, CanReject, Reject, IInv, Statuses, PlainEventNames
  <2>2. order.status = "NEW"
    BY <2>1, <1>0, WorkingStatus DEF Statuses
  <2> QED BY <1>0, <2>1, <2>2 DEF IInv, TypeOK, StatusMatchesFills, FillsMatchStatus, PositiveQuantity
<1>3. CASE DoCancel
  <2>1. canTransitionTo(order.status, "CANCELED") /\ Quiet("CANCELED")
    BY <1>3, StatusStep DEF DoCancel, CanCancel, Cancel, IInv, Statuses, PlainEventNames
  <2>2. order.status \in {"ACCEPTED", "PARTIALLY_FILLED"}
    BY <2>1, <1>0, WorkingStatus DEF Statuses
  <2> QED BY <1>0, <2>1, <2>2 DEF IInv, TypeOK, StatusMatchesFills, FillsMatchStatus, PositiveQuantity
<1>4. CASE DoExpire
  <2>1. canTransitionTo(order.status, "EXPIRED") /\ Quiet("EXPIRED")
    BY <1>4, StatusStep DEF DoExpire, CanExpire, Expire, IInv, Statuses, PlainEventNames
  <2>2. order.status \in {"ACCEPTED", "PARTIALLY_FILLED"}
    BY <2>1, <1>0, WorkingStatus DEF Statuses
  <2> QED BY <1>0, <2>1, <2>2 DEF IInv, TypeOK, StatusMatchesFills, FillsMatchStatus, PositiveQuantity
<1>5. ASSUME NEW qty \in FillQtys, NEW px \in FillPrices, DoFill(qty, px)
      PROVE  IInv'
  <2>1. /\ order' \in OrderRecords({OrderID}, Terms)
        /\ order'.terms = order.terms
        /\ order'.filledQty \in 1 .. order.terms.quantity
        /\ order'.status = IF order'.filledQty = order.terms.quantity
                           THEN "FILLED" ELSE "PARTIALLY_FILLED"
    BY <1>5, FillStep
  <2> QED BY <1>0, <1>5, <2>1 DEF DoFill, IInv, TypeOK, StatusMatchesFills, FillsMatchStatus, PositiveQuantity
<1>6. CASE PullEvents
  <2>1. /\ order' \in OrderRecords({OrderID}, Terms) /\ log' \in Seq(Events({OrderID}, Terms))
        /\ order'.terms = order.terms /\ order'.filledQty = order.filledQty
        /\ order'.status = order.status
    BY <1>6, PullStep DEF Snapshot, IInv
  <2> QED BY <2>1 DEF IInv, TypeOK, StatusMatchesFills, FillsMatchStatus, PositiveQuantity
<1>7. CASE UNCHANGED vars
  BY <1>7 DEF vars, IInv, TypeOK, StatusMatchesFills, FillsMatchStatus, PositiveQuantity
<1> QED BY <1>1, <1>2, <1>3, <1>4, <1>5, <1>6, <1>7 DEF Next

(* Fill, Cancel and the rest keep every field of the order in its type: no *)
(* quantity leaves int64 and no average price overflows or turns negative. *)
THEOREM TypeCorrect == Spec => []TypeOK
<1>1. IInv => TypeOK
  BY DEF IInv
<1> QED BY InitInv, StepInv, <1>1, PTL DEF Spec

(* The status always tells how much is filled, although Fill ignores the   *)
(* error of transition: FILLED exactly when nothing remains, never an      *)
(* over-fill, nothing filled before acceptance.                            *)
THEOREM StatusCorrect == Spec => []StatusMatchesFills
<1>1. IInv => StatusMatchesFills
  BY DEF IInv
<1> QED BY InitInv, StepInv, <1>1, PTL DEF Spec

(* A step leaves the persistent state alone, or bumps the version of an    *)
(* order that is not finished.                                             *)
LEMMA StepVersion ==
  ASSUME IInv, [Next]_vars
  PROVE  \/ Snapshot(order') = Snapshot(order)
         \/ /\ order'.version = order.version + 1
            /\ order.status \in {"NEW", "ACCEPTED", "PARTIALLY_FILLED"}
<1>1. ASSUME NEW to \in Statuses, canTransitionTo(order.status, to)
      PROVE  order.status \in {"NEW", "ACCEPTED", "PARTIALLY_FILLED"}
  BY <1>1, WorkingStatus DEF IInv, TypeOK, OrderRecords
<1>2. CASE DoAccept
  BY <1>1, <1>2, StatusStep
     DEF DoAccept, CanAccept, Accept, IInv, Statuses, PlainEventNames
<1>3. CASE DoReject
  BY <1>1, <1>3, StatusStep
     DEF DoReject, CanReject, Reject, IInv, Statuses, PlainEventNames
<1>4. CASE DoCancel
  BY <1>1, <1>4, StatusStep
     DEF DoCancel, CanCancel, Cancel, IInv, Statuses, PlainEventNames
<1>5. CASE DoExpire
  BY <1>1, <1>5, StatusStep
     DEF DoExpire, CanExpire, Expire, IInv, Statuses, PlainEventNames
<1>6. ASSUME NEW qty \in FillQtys, NEW px \in FillPrices, DoFill(qty, px)
      PROVE  /\ order'.version = order.version + 1
             /\ order.status \in {"NEW", "ACCEPTED", "PARTIALLY_FILLED"}
  BY <1>6, FillStep
<1>7. CASE PullEvents
  BY <1>7, PullStep DEF IInv
<1>8. CASE UNCHANGED vars
  BY <1>8 DEF vars
<1> QED BY <1>2, <1>3, <1>4, <1>5, <1>6, <1>7, <1>8 DEF Next

(* No sequence of calls changes a finished order: a late fill, a second    *)
(* cancel or an expiry after the last fill leave no trace.                 *)
THEOREM TerminalOrdersAreFinal == Spec => TerminalIsFinal
<1>1. IInv /\ [Next]_vars =>
        [order.status \in {"FILLED", "CANCELED", "REJECTED", "EXPIRED"}
           => Snapshot(order') = Snapshot(order)]_vars
  BY StepVersion
<1> QED BY InitInv, StepInv, <1>1, PTL DEF Spec, TerminalIsFinal

(* What OrderRepository.Update relies on: two different persistent states  *)
(* of an order never carry the same version.                               *)
THEOREM VersionsGuardContent == Spec => VersionGuardsContent
<1>1. IInv /\ [Next]_vars =>
        [Snapshot(order') # Snapshot(order)
           => order'.version = order.version + 1]_vars
  BY StepVersion
<1> QED BY InitInv, StepInv, <1>1, PTL DEF Spec, VersionGuardsContent

(***************************************************************************)
(* The history of events.                                                  *)
(***************************************************************************)
Evs == Events({OrderID}, Terms)

(* The status that an event without payload announces. *)
Announces(e, to) ==
  \/ e.name = "OrderAccepted" /\ to = "ACCEPTED"
  \/ e.name = "OrderRejected" /\ to = "REJECTED"
  \/ e.name = "OrderCanceled" /\ to = "CANCELED"
  \/ e.name = "OrderExpired" /\ to = "EXPIRED"

(* The step raises e: it changes the status, or it fills. *)
RaisedByStatus(e) ==
  \E to \in Statuses :
    /\ Announces(e, to)
    /\ order'.id = order.id /\ order'.terms = order.terms
    /\ order'.filledQty = order.filledQty /\ order'.avgFillPx = order.avgFillPx
    /\ order'.status = to /\ order'.version = order.version + 1

RaisedByFill(e) ==
  \E qty \in FillQtys, px \in FillPrices : DoFill(qty, px) /\ Tells(e, order', qty, px)

LEMMA HistoryType == TypeOK => History \in Seq(Evs)
BY OrderFields, LifecycleAssumption DEF TypeOK, Evs, History

(* Appending to the buffer appends to the history. *)
LEMMA HistoryAppend ==
  ASSUME TypeOK, NEW e \in Evs, order'.events = Append(order.events, e), log' = log
  PROVE  History' = Append(History, e)
<1>1. log \in Seq(Evs) /\ order.events \in Seq(Evs)
  BY OrderFields, LifecycleAssumption DEF TypeOK, Evs
<1>2. \A a, b \in Seq(Evs) : a \o Append(b, e) = Append(a \o b, e)
  OBVIOUS
<1> QED BY <1>1, <1>2 DEF History

(* A step raises no event and changes nothing that is persisted, or raises *)
(* one event that says what it did.                                        *)
LEMMA HistoryStep ==
  ASSUME IInv, [Next]_vars
  PROVE  \/ History' = History /\ Snapshot(order') = Snapshot(order)
         \/ \E e \in Evs : /\ History' = Append(History, e)
                           /\ RaisedByStatus(e) \/ RaisedByFill(e)
<1> DEFINE Raised == \E e \in Evs : /\ History' = Append(History, e)
                                    /\ RaisedByStatus(e) \/ RaisedByFill(e)
<1>1. TypeOK /\ order \in OrderRecords({OrderID}, Terms) /\ Terms \subseteq TermRecords
      /\ order.id \in {OrderID}
  BY LifecycleAssumption, OrderFields DEF IInv, TypeOK
<1>2. ASSUME NEW to \in Statuses, NEW n \in PlainEventNames,
             canTransitionTo(order.status, to),
             order' = raise(Transition(order, to), StatusEvent(n, order.id)),
             log' = log, Announces(StatusEvent(n, order.id), to)
      PROVE  Raised
  <2> DEFINE e == StatusEvent(n, order.id)
  <2>1. e \in Evs
    BY <1>1 DEF StatusEvent, Evs, Events
  <2>2. /\ order'.id = order.id /\ order'.terms = order.terms
        /\ order'.filledQty = order.filledQty /\ order'.avgFillPx = order.avgFillPx
        /\ order'.status = to /\ order'.version = order.version + 1
        /\ order'.events = Append(order.events, e)
    BY <1>1, <1>2, StatusMethod
  <2> HIDE DEF e
  <2>3. History' = Append(History, e)
    BY <1>1, <1>2, <2>1, <2>2, HistoryAppend
  <2>4. RaisedByStatus(e)
    BY <1>2, <2>2 DEF RaisedByStatus, e
  <2> QED BY <2>1, <2>3, <2>4
<1> USE DEF Statuses, PlainEventNames, Announces, StatusEvent
<1>3. CASE DoAccept
  BY <1>2, <1>3 DEF DoAccept, CanAccept, Accept
<1>4. CASE DoReject
  BY <1>2, <1>4 DEF DoReject, CanReject, Reject
<1>5. CASE DoCancel
  BY <1>2, <1>5 DEF DoCancel, CanCancel, Cancel
<1>6. CASE DoExpire
  BY <1>2, <1>6 DEF DoExpire, CanExpire, Expire
<1>7. ASSUME NEW qty \in FillQtys, NEW px \in FillPrices, DoFill(qty, px) PROVE Raised
  <2>1. qty \in Int64 /\ px \in Int64 /\ CanFill(order, qty, px)
        /\ order' = Fill(order, qty, px) /\ log' = log /\ FillsMatchStatus(order)
    BY <1>7, LifecycleAssumption DEF DoFill, IInv, StatusMatchesFills
  <2>2. PICK e \in Evs : order'.events = Append(order.events, e) /\ Tells(e, order', qty, px)
    BY <1>1, <2>1, FillMethod DEF Evs
  <2>3. History' = Append(History, e)
    BY <1>1, <2>1, <2>2, HistoryAppend
  <2>4. RaisedByFill(e)
    BY <1>7, <2>2 DEF RaisedByFill
  <2> QED BY <2>3, <2>4
<1>8. CASE PullEvents
  <2>1. log' = log \o order.events /\ order'.events = <<>>
    BY <1>1, <1>8 DEF PullEvents, ClearEvents, OrderRecords
  <2>2. log \o order.events \in Seq(Evs)
    BY <1>1, HistoryType DEF History
  <2>3. History' = History
    BY <2>1, <2>2 DEF History
  <2> QED BY <1>1, <1>8, <2>3, PullStep
<1>9. CASE UNCHANGED vars
  BY <1>9 DEF vars, History
<1> QED BY <1>3, <1>4, <1>5, <1>6, <1>7, <1>8, <1>9 DEF Next

(***************************************************************************)
(* Replaying the events.                                                   *)
(***************************************************************************)
Known == [id : {OrderID, "none"}, terms : Terms \union {"none"}, filledQty : Int,
          avgFillPx : Int, status : Statuses \union {"none"}, version : Nat]

(* The cases of ReplayEvent, one by one. *)
LEMMA ReplayEventCases ==
  ASSUME NEW x, NEW e
  PROVE  /\ e.name = "OrderPartiallyFilled" =>
              ReplayEvent(x, e) = [x EXCEPT !.status = "PARTIALLY_FILLED",
                                            !.version = x.version + 1,
                                            !.filledQty = e.cumulativeQty,
                                            !.avgFillPx = e.avgFillPrice]
         /\ e.name = "OrderFilled" =>
              ReplayEvent(x, e) = [x EXCEPT !.status = "FILLED",
                                            !.version = x.version + 1,
                                            !.filledQty = x.filledQty + e.fillQty,
                                            !.avgFillPx = e.avgFillPrice]
BY DEF ReplayEvent

LEMMA ReplayStatusEvent ==
  ASSUME NEW x, NEW e, NEW to, Announces(e, to)
  PROVE  ReplayEvent(x, e) = [x EXCEPT !.status = to, !.version = x.version + 1]
BY DEF ReplayEvent, Announces

LEMMA ReplayEventType ==
  ASSUME NEW x \in Known, NEW e \in Evs
  PROVE  ReplayEvent(x, e) \in Known
<1> USE DEF Statuses, PlainEventNames
<1>1. Int64 \subseteq Int
  BY Int64Facts
<1>2. CASE e.name = "OrderPlaced"
  <2>1. e.orderID = OrderID /\ e.terms \in Terms
    BY <1>2 DEF Evs, Events
  <2> QED BY <1>2, <2>1 DEF ReplayEvent, Known
<1>3. CASE e.name = "OrderPartiallyFilled"
  <2>1. e.cumulativeQty \in Int /\ e.avgFillPrice \in Int
    BY <1>1, <1>3 DEF Evs, Events
  <2>2. ReplayEvent(x, e) = [x EXCEPT !.status = "PARTIALLY_FILLED",
                                      !.version = x.version + 1,
                                      !.filledQty = e.cumulativeQty,
                                      !.avgFillPx = e.avgFillPrice]
    BY <1>3, ReplayEventCases
  <2>3. x.version + 1 \in Nat
    BY DEF Known
  <2> QED BY <2>1, <2>2, <2>3 DEF Known
<1>4. CASE e.name = "OrderFilled"
  <2>1. e.fillQty \in Int /\ e.avgFillPrice \in Int
    BY <1>1, <1>4 DEF Evs, Events
  <2>2. x.filledQty + e.fillQty \in Int /\ x.version + 1 \in Nat
    BY <2>1 DEF Known
  <2>3. ReplayEvent(x, e) = [x EXCEPT !.status = "FILLED",
                                      !.version = x.version + 1,
                                      !.filledQty = x.filledQty + e.fillQty,
                                      !.avgFillPx = e.avgFillPrice]
    BY <1>4, ReplayEventCases
  <2> QED BY <2>1, <2>2, <2>3 DEF Known
<1>5. CASE e.name \in PlainEventNames
  <2>1. PICK to \in Statuses : Announces(e, to)
    BY <1>5 DEF Announces
  <2>2. ReplayEvent(x, e) = [x EXCEPT !.status = to, !.version = x.version + 1]
    BY <2>1, ReplayStatusEvent
  <2>3. x.version + 1 \in Nat
    BY DEF Known
  <2> QED BY <2>2, <2>3 DEF Known
<1> QED BY <1>2, <1>3, <1>4, <1>5 DEF Evs, Events

(* f is what is known after each event of s. *)
Replays(f, s) ==
  /\ f \in [0 .. Len(s) -> Known]
  /\ f[0] = Blank
  /\ \A n \in 1 .. Len(s) : f[n] = ReplayEvent(f[n - 1], s[n])

LEMMA ReplayDefined ==
  ASSUME NEW s \in Seq(Evs)
  PROVE  \E f : Replays(f, s) /\ Replay(s) = f[Len(s)]
<1> DEFINE N == Len(s)
           g == [n \in 1 .. N |-> [x \in Known |-> ReplayEvent(x, s[n])]]
           Equation(f) == f = [n \in 0 .. N |->
                                 IF n = 0 THEN Blank ELSE ReplayEvent(f[n - 1], s[n])]
<1>1. N \in Nat /\ Blank \in Known
  BY DEF Blank, Known
<1>2. ASSUME NEW n \in 1 .. N PROVE [x \in Known |-> ReplayEvent(x, s[n])] \in [Known -> Known]
  <2>1. s[n] \in Evs
    OBVIOUS
  <2> QED BY <2>1, ReplayEventType
<1>3. g \in [1 .. N -> [Known -> Known]]
  BY <1>2
<1> HIDE DEF N, g
<1>4. PICK f : Follows(f, Known, Blank, g, N)
  BY <1>1, <1>3, Recursion
<1>5. ASSUME NEW n \in 1 .. N PROVE f[n] = ReplayEvent(f[n - 1], s[n])
  <2>1. f[n - 1] \in Known /\ f[n] = g[n][f[n - 1]]
    BY <1>1, <1>4 DEF Follows
  <2>2. g[n] = [x \in Known |-> ReplayEvent(x, s[n])]
    BY DEF g
  <2> QED BY <2>1, <2>2
<1>6. f \in [0 .. N -> Known] /\ f[0] = Blank
  BY <1>4 DEF Follows
<1>7. Equation(f)
  <2> DEFINE h == [n \in 0 .. N |-> IF n = 0 THEN Blank ELSE ReplayEvent(f[n - 1], s[n])]
  <2>1. ASSUME NEW n \in 0 .. N PROVE f[n] = h[n]
    <3>1. CASE n = 0
      BY <1>6, <3>1
    <3>2. CASE n # 0
      <4>1. n \in 1 .. N
        BY <1>1, <3>2
      <4> QED BY <1>5, <3>2, <4>1
    <3> QED BY <3>1, <3>2
  <2> QED BY <1>6, <2>1
<1> DEFINE k == CHOOSE h : Equation(h)
<1>8. Replay(s) = k[N]
  BY Zenon DEF Replay, N
<1>9. Equation(k)
  BY <1>7, Zenon
<1> HIDE DEF k
<1>10. k[0] = Blank /\ \A n \in 1 .. N : k[n] = ReplayEvent(k[n - 1], s[n])
  <2>1. 0 \in 0 .. N /\ \A n \in 1 .. N : n \in 0 .. N /\ n # 0
    BY <1>1
  <2> QED BY <1>9, <2>1, Zenon
<1>11. \A n \in 0 .. N : f[n] = k[n]
  <2>1. f[0] = k[0] /\ \A n \in 1 .. N : f[n - 1] = k[n - 1] => f[n] = k[n]
    BY <1>5, <1>6, <1>10
  <2>2. StepAlike(f, k, N)
    BY <2>1 DEF StepAlike
  <2> QED BY <1>1, <2>2, RecursionUnique
<1>12. Replay(s) = f[N]
  BY <1>1, <1>8, <1>11
<1> QED BY <1>5, <1>6, <1>12 DEF Replays, N

(* One more event is read on top of the others. *)
LEMMA ReplayAppend ==
  ASSUME NEW s \in Seq(Evs), NEW e \in Evs
  PROVE  /\ Replay(s) \in Known
         /\ Replay(Append(s, e)) = ReplayEvent(Replay(s), e)
         /\ s = <<>> => Replay(s) = Blank
<1> DEFINE N == Len(s)
           t == Append(s, e)
<1>1. t \in Seq(Evs) /\ N \in Nat /\ Len(t) = N + 1 /\ t[N + 1] = e
      /\ \A n \in 1 .. N : t[n] = s[n]
  OBVIOUS
<1>2. s = <<>> => N = 0
  OBVIOUS
<1> HIDE DEF N, t
<1>3. PICK f : Replays(f, s) /\ Replay(s) = f[N]
  BY ReplayDefined DEF N
<1>4. PICK h : Replays(h, t) /\ Replay(t) = h[N + 1]
  BY <1>1, ReplayDefined
<1>5. /\ f \in [0 .. N -> Known] /\ f[0] = Blank
      /\ \A n \in 1 .. N : f[n] = ReplayEvent(f[n - 1], s[n])
  BY <1>3 DEF Replays, N
<1>6. /\ h[0] = Blank
      /\ \A n \in 1 .. N + 1 : h[n] = ReplayEvent(h[n - 1], t[n])
  BY <1>1, <1>4 DEF Replays
<1>7. \A n \in 0 .. N : f[n] = h[n]
  <2>1. f[0] = h[0] /\ \A n \in 1 .. N : f[n - 1] = h[n - 1] => f[n] = h[n]
    <3>1. \A n \in 1 .. N : n \in 1 .. N + 1
      BY <1>1
    <3> QED BY <1>1, <1>5, <1>6, <3>1
  <2>2. StepAlike(f, h, N)
    BY <2>1 DEF StepAlike
  <2> QED BY <1>1, <2>2, RecursionUnique
<1>8. h[N + 1] = ReplayEvent(h[N], e)
  <2>1. N + 1 \in 1 .. N + 1 /\ (N + 1) - 1 = N
    BY <1>1
  <2> QED BY <1>1, <1>6, <2>1
<1>9. N \in 0 .. N
  BY <1>1
<1> QED BY <1>2, <1>3, <1>4, <1>5, <1>7, <1>8, <1>9 DEF t

(* Two descriptions of the order are equal if their fields are. *)
LEMMA KnownEqual ==
  ASSUME NEW x \in Known, NEW y \in Known,
         x.id = y.id, x.terms = y.terms, x.filledQty = y.filledQty,
         x.avgFillPx = y.avgFillPx, x.status = y.status, x.version = y.version
  PROVE  x = y
<1>1. \A z \in Known : z = [id |-> z.id, terms |-> z.terms, filledQty |-> z.filledQty,
                            avgFillPx |-> z.avgFillPx, status |-> z.status,
                            version |-> z.version]
  BY DEF Known
<1> QED BY <1>1, Zenon

LEMMA SnapshotKnown ==
  ASSUME NEW o \in OrderRecords({OrderID}, Terms)
  PROVE  Snapshot(o) \in Known
<1>1. Int64 \subseteq Int /\ 0 .. MaxInt \subseteq Int
  BY Int64Facts
<1> QED BY <1>1 DEF OrderRecords, Snapshot, Known

LEMMA InitReplay == Init => EventsReplayToState
<1> SUFFICES ASSUME Init PROVE EventsReplayToState
  OBVIOUS
<1>1. PICK t \in Terms : order = NewOrder(OrderID, t)
  BY DEF Init
<1> DEFINE e == OrderPlaced(OrderID, t)
<1>2. e \in Evs
  BY DEF OrderPlaced, Evs, Events
<1>3. order.events = <<e>> /\ log = <<>>
  BY <1>1 DEF NewOrder, raise, Init
<1>4. ReplayEvent(Blank, e) = Snapshot(order)
  BY <1>1 DEF ReplayEvent, OrderPlaced, Snapshot, NewOrder, raise
<1> HIDE DEF e
<1>5. History = Append(<<>>, e) /\ <<>> \in Seq(Evs)
  BY <1>2, <1>3 DEF History
<1>6. Replay(History) = ReplayEvent(Blank, e)
  BY <1>2, <1>5, ReplayAppend
<1> QED BY <1>4, <1>6 DEF EventsReplayToState

LEMMA StepReplay == IInv /\ EventsReplayToState /\ [Next]_vars => EventsReplayToState'
<1> SUFFICES ASSUME IInv, EventsReplayToState, [Next]_vars PROVE EventsReplayToState'
  OBVIOUS
<1> DEFINE x == Snapshot(order)
           y == Snapshot(order')
<1>1. CASE History' = History /\ y = x
  BY <1>1 DEF EventsReplayToState
<1>2. ASSUME NEW e \in Evs, History' = Append(History, e),
             RaisedByStatus(e) \/ RaisedByFill(e)
      PROVE  EventsReplayToState'
  <2> DEFINE r == ReplayEvent(x, e)
  <2>1. Replay(History') = r
    BY <1>2, HistoryType, ReplayAppend DEF IInv, EventsReplayToState
  <2>2. x \in Known /\ y \in Known
    BY SnapshotKnown, StepInv DEF IInv, TypeOK
  <2>3. r \in Known
    BY <2>2, ReplayEventType
  <2>4. /\ x.id = order.id /\ x.terms = order.terms /\ x.filledQty = order.filledQty
        /\ x.avgFillPx = order.avgFillPx /\ x.status = order.status
        /\ x.version = order.version
        /\ y.id = order'.id /\ y.terms = order'.terms /\ y.filledQty = order'.filledQty
        /\ y.avgFillPx = order'.avgFillPx /\ y.status = order'.status
        /\ y.version = order'.version
    BY DEF Snapshot
  <2>5. y = Snapshot(order)'
    OBVIOUS
  <2> HIDE DEF x, y
  <2>6. CASE RaisedByStatus(e)
    <3>1. PICK to \in Statuses :
            /\ Announces(e, to)
            /\ order'.id = order.id /\ order'.terms = order.terms
            /\ order'.filledQty = order.filledQty /\ order'.avgFillPx = order.avgFillPx
            /\ order'.status = to /\ order'.version = order.version + 1
      BY <2>6 DEF RaisedByStatus
    <3>2. r = [x EXCEPT !.status = to, !.version = x.version + 1]
      BY <3>1, ReplayStatusEvent
    <3>3. /\ r.id = x.id /\ r.terms = x.terms /\ r.filledQty = x.filledQty
          /\ r.avgFillPx = x.avgFillPx /\ r.status = to /\ r.version = x.version + 1
      BY <2>2, <3>2 DEF Known
    <3> HIDE DEF r
    <3>4. r = y
      BY <2>2, <2>3, <2>4, <3>1, <3>3, KnownEqual
    <3> QED BY <2>1, <2>5, <3>4 DEF EventsReplayToState
  <2>7. CASE RaisedByFill(e)
    <3>1. PICK qty \in FillQtys, px \in FillPrices :
            DoFill(qty, px) /\ Tells(e, order', qty, px)
      BY <2>7 DEF RaisedByFill
    <3>2. /\ order'.id = order.id /\ order'.terms = order.terms
          /\ order'.filledQty = order.filledQty + qty
          /\ order'.status \in {"FILLED", "PARTIALLY_FILLED"}
          /\ order'.version = order.version + 1
      <4>1. /\ qty \in Int64 /\ px \in Int64 /\ CanFill(order, qty, px)
            /\ order' = Fill(order, qty, px) /\ FillsMatchStatus(order)
            /\ order \in OrderRecords({OrderID}, Terms) /\ Terms \subseteq TermRecords
        BY <3>1, LifecycleAssumption DEF DoFill, IInv, TypeOK, StatusMatchesFills
      <4> QED BY <4>1, FillMethod
    <3>3. CASE order'.status = "FILLED"
      <4>1. /\ e.name = "OrderFilled" /\ e.fillQty = qty
            /\ e.avgFillPrice = order'.avgFillPx
        BY <3>1, <3>3 DEF Tells
      <4>2. r = [x EXCEPT !.status = "FILLED", !.version = x.version + 1,
                          !.filledQty = x.filledQty + e.fillQty,
                          !.avgFillPx = e.avgFillPrice]
        BY <4>1, ReplayEventCases
      <4>3. /\ r.id = x.id /\ r.terms = x.terms /\ r.filledQty = x.filledQty + e.fillQty
            /\ r.avgFillPx = e.avgFillPrice /\ r.status = "FILLED"
            /\ r.version = x.version + 1
        BY <2>2, <4>2 DEF Known
      <4> HIDE DEF r
      <4>4. r = y
        BY <2>2, <2>3, <2>4, <3>2, <3>3, <4>1, <4>3, KnownEqual
      <4> QED BY <2>1, <2>5, <4>4 DEF EventsReplayToState
    <3>4. CASE order'.status = "PARTIALLY_FILLED"
      <4>1. /\ e.name = "OrderPartiallyFilled" /\ e.cumulativeQty = order'.filledQty
            /\ e.avgFillPrice = order'.avgFillPx
        BY <3>1, <3>4 DEF Tells
      <4>2. r = [x EXCEPT !.status = "PARTIALLY_FILLED", !.version = x.version + 1,
                          !.filledQty = e.cumulativeQty, !.avgFillPx = e.avgFillPrice]
        BY <4>1, ReplayEventCases
      <4>3. /\ r.id = x.id /\ r.terms = x.terms /\ r.filledQty = e.cumulativeQty
            /\ r.avgFillPx = e.avgFillPrice /\ r.status = "PARTIALLY_FILLED"
            /\ r.version = x.version + 1
        BY <2>2, <4>2 DEF Known
      <4> HIDE DEF r
      <4>4. r = y
        BY <2>2, <2>3, <2>4, <3>2, <3>4, <4>1, <4>3, KnownEqual
      <4> QED BY <2>1, <2>5, <4>4 DEF EventsReplayToState
    <3> QED BY <3>2, <3>3, <3>4
  <2> QED BY <1>2, <2>6, <2>7
<1> QED BY <1>1, <1>2, HistoryStep

(* events.go:5: the events are the source of truth.  The ones handed out   *)
(* and the ones still buffered, replayed in order, give the persistent     *)
(* state, after any number of calls.                                       *)
THEOREM EventsAreTheTruth == Spec => []EventsReplayToState
<1>1. (IInv /\ EventsReplayToState) /\ [Next]_vars => (IInv /\ EventsReplayToState)'
  BY StepInv, StepReplay
<1>2. Init => IInv /\ EventsReplayToState
  BY InitInv, InitReplay
<1> QED BY <1>1, <1>2, PTL DEF Spec

(***************************************************************************)
(* The average price.                                                      *)
(***************************************************************************)
(* A fill: the arithmetic of Fill is that of the lemmas on FillAvg. *)
LEMMA FillNumbers ==
  ASSUME IInv, NEW qty \in FillQtys, NEW px \in FillPrices, DoFill(qty, px)
  PROVE  /\ qty \in 1 .. MaxInt /\ px \in 1 .. MaxInt
         /\ order.avgFillPx \in 0 .. MaxInt /\ order.filledQty \in 0 .. MaxInt
         /\ addI64(order.filledQty, qty).ok /\ FillAvg(order, qty, px).ok
         /\ order'.filledQty = order.filledQty + qty
         /\ order'.avgFillPx = FillAvg(order, qty, px).val
         /\ order'.avgFillPx \in 0 .. MaxInt
         /\ order'.status \in {"FILLED", "PARTIALLY_FILLED"}
<1>1. /\ qty \in Int64 /\ px \in Int64 /\ CanFill(order, qty, px)
      /\ order' = Fill(order, qty, px) /\ FillsMatchStatus(order)
      /\ order \in OrderRecords({OrderID}, Terms) /\ Terms \subseteq TermRecords
  BY LifecycleAssumption DEF DoFill, IInv, TypeOK, StatusMatchesFills
<1>2. /\ qty > 0 /\ px > 0
      /\ addI64(order.filledQty, qty).ok /\ FillAvg(order, qty, px).ok
  BY <1>1 DEF CanFill
<1>3. /\ order.avgFillPx \in 0 .. MaxInt /\ order.filledQty \in Int64
      /\ order.filledQty >= 0
  BY <1>1, OrderFields, Int64Facts DEF FillsMatchStatus
<1>4. qty \in 1 .. MaxInt /\ px \in 1 .. MaxInt /\ order.filledQty \in 0 .. MaxInt
  BY <1>1, <1>2, <1>3, Int64Facts
<1>5. /\ order' \in OrderRecords({OrderID}, Terms)
      /\ order'.filledQty = order.filledQty + qty
      /\ order'.avgFillPx = FillAvg(order, qty, px).val
      /\ order'.status \in {"FILLED", "PARTIALLY_FILLED"}
  BY <1>1, FillMethod
<1> QED BY <1>1, <1>2, <1>3, <1>4, <1>5, OrderFields

(* The events that a status-only method raises are not fills, those that   *)
(* Fill raises are.                                                        *)
LEMMA RaisedKind ==
  ASSUME IInv, NEW e
  PROVE  /\ RaisedByStatus(e) => ~IsFillEvent(e)
         /\ RaisedByFill(e) => IsFillEvent(e)
<1>1. RaisedByStatus(e) => ~IsFillEvent(e)
  BY DEF RaisedByStatus, Announces, IsFillEvent
<1>2. RaisedByFill(e) => IsFillEvent(e)
  BY FillNumbers DEF RaisedByFill, Tells, IsFillEvent
<1> QED BY <1>1, <1>2

Tallies == [qty : Int, cost : Int, drift : Int]

LEMMA CountType ==
  ASSUME NEW t \in Tallies, NEW e \in Evs
  PROVE  /\ Count(t, e) \in Tallies
         /\ IsFillEvent(e) => e.fillQty \in Int /\ e.fillPrice \in Int
<1>1. Int64 \subseteq Int
  BY Int64Facts
<1>2. IsFillEvent(e) => e.fillQty \in Int64 /\ e.fillPrice \in Int64
  BY DEF Evs, Events, IsFillEvent, PlainEventNames
<1>3. quantityScale \in Int /\ t.qty \in Int /\ t.cost \in Int /\ t.drift \in Int
  BY MoneyAssumption DEF Tallies
<1>4. CASE IsFillEvent(e)
  <2>1. e.fillQty \in Int /\ e.fillPrice \in Int
    BY <1>1, <1>2, <1>4
  <2>2. e.fillQty * e.fillPrice \in Int
    BY <2>1
  <2> QED BY <1>3, <1>4, <2>1, <2>2 DEF Count, Tallies
<1>5. CASE ~IsFillEvent(e)
  BY <1>5 DEF Count
<1> QED BY <1>4, <1>5

NoFills == [qty |-> 0, cost |-> 0, drift |-> 0]

(* f is the tally after each event of s. *)
Counts(f, s) ==
  /\ f \in [0 .. Len(s) -> Tallies]
  /\ f[0] = NoFills
  /\ \A n \in 1 .. Len(s) : f[n] = Count(f[n - 1], s[n])

LEMMA TallyDefined ==
  ASSUME NEW s \in Seq(Evs)
  PROVE  \E f : Counts(f, s) /\ Tally(s) = f[Len(s)]
<1> DEFINE N == Len(s)
           g == [n \in 1 .. N |-> [t \in Tallies |-> Count(t, s[n])]]
           Equation(f) == f = [n \in 0 .. N |->
                                 IF n = 0 THEN NoFills ELSE Count(f[n - 1], s[n])]
<1>1. N \in Nat /\ NoFills \in Tallies
  BY DEF NoFills, Tallies
<1>2. ASSUME NEW n \in 1 .. N PROVE [t \in Tallies |-> Count(t, s[n])] \in [Tallies -> Tallies]
  <2>1. s[n] \in Evs
    OBVIOUS
  <2> QED BY <2>1, CountType
<1>3. g \in [1 .. N -> [Tallies -> Tallies]]
  BY <1>2
<1> HIDE DEF N, g
<1>4. PICK f : Follows(f, Tallies, NoFills, g, N)
  BY <1>1, <1>3, Recursion
<1>5. ASSUME NEW n \in 1 .. N PROVE f[n] = Count(f[n - 1], s[n])
  <2>1. f[n - 1] \in Tallies /\ f[n] = g[n][f[n - 1]]
    BY <1>1, <1>4 DEF Follows
  <2>2. g[n] = [t \in Tallies |-> Count(t, s[n])]
    BY DEF g
  <2> QED BY <2>1, <2>2
<1>6. f \in [0 .. N -> Tallies] /\ f[0] = NoFills
  BY <1>4 DEF Follows
<1>7. Equation(f)
  <2> DEFINE h == [n \in 0 .. N |-> IF n = 0 THEN NoFills ELSE Count(f[n - 1], s[n])]
  <2>1. ASSUME NEW n \in 0 .. N PROVE f[n] = h[n]
    <3>1. CASE n = 0
      BY <1>6, <3>1
    <3>2. CASE n # 0
      <4>1. n \in 1 .. N
        BY <1>1, <3>2
      <4> QED BY <1>5, <3>2, <4>1
    <3> QED BY <3>1, <3>2
  <2> QED BY <1>6, <2>1
<1> DEFINE k == CHOOSE h : Equation(h)
<1>8. Tally(s) = k[N]
  BY Zenon DEF Tally, N, NoFills
<1>9. Equation(k)
  BY <1>7, Zenon
<1> HIDE DEF k
<1>10. k[0] = NoFills /\ \A n \in 1 .. N : k[n] = Count(k[n - 1], s[n])
  <2>1. 0 \in 0 .. N /\ \A n \in 1 .. N : n \in 0 .. N /\ n # 0
    BY <1>1
  <2> QED BY <1>9, <2>1, Zenon
<1>11. \A n \in 0 .. N : f[n] = k[n]
  <2>1. f[0] = k[0] /\ \A n \in 1 .. N : f[n - 1] = k[n - 1] => f[n] = k[n]
    BY <1>5, <1>6, <1>10
  <2>2. StepAlike(f, k, N)
    BY <2>1 DEF StepAlike
  <2> QED BY <1>1, <2>2, RecursionUnique
<1>12. Tally(s) = f[N]
  BY <1>1, <1>8, <1>11
<1> QED BY <1>5, <1>6, <1>12 DEF Counts, N

(* One more event is counted on top of the others. *)
LEMMA TallyAppend ==
  ASSUME NEW s \in Seq(Evs), NEW e \in Evs
  PROVE  /\ Tally(s) \in Tallies
         /\ Tally(Append(s, e)) = Count(Tally(s), e)
         /\ s = <<>> => Tally(s) = NoFills
<1> DEFINE N == Len(s)
           t == Append(s, e)
<1>1. t \in Seq(Evs) /\ N \in Nat /\ Len(t) = N + 1 /\ t[N + 1] = e
      /\ \A n \in 1 .. N : t[n] = s[n]
  OBVIOUS
<1>2. s = <<>> => N = 0
  OBVIOUS
<1> HIDE DEF N, t
<1>3. PICK f : Counts(f, s) /\ Tally(s) = f[N]
  BY TallyDefined DEF N
<1>4. PICK h : Counts(h, t) /\ Tally(t) = h[N + 1]
  BY <1>1, TallyDefined
<1>5. /\ f \in [0 .. N -> Tallies] /\ f[0] = NoFills
      /\ \A n \in 1 .. N : f[n] = Count(f[n - 1], s[n])
  BY <1>3 DEF Counts, N
<1>6. /\ h[0] = NoFills
      /\ \A n \in 1 .. N + 1 : h[n] = Count(h[n - 1], t[n])
  BY <1>1, <1>4 DEF Counts
<1>7. \A n \in 0 .. N : f[n] = h[n]
  <2>1. f[0] = h[0] /\ \A n \in 1 .. N : f[n - 1] = h[n - 1] => f[n] = h[n]
    <3>1. \A n \in 1 .. N : n \in 1 .. N + 1
      BY <1>1
    <3> QED BY <1>1, <1>5, <1>6, <3>1
  <2>2. StepAlike(f, h, N)
    BY <2>1 DEF StepAlike
  <2> QED BY <1>1, <2>2, RecursionUnique
<1>8. h[N + 1] = Count(h[N], e)
  <2>1. N + 1 \in 1 .. N + 1 /\ (N + 1) - 1 = N
    BY <1>1
  <2> QED BY <1>1, <1>6, <2>1
<1>9. N \in 0 .. N
  BY <1>1
<1> QED BY <1>2, <1>3, <1>4, <1>5, <1>7, <1>8, <1>9 DEF t

(* AvgDriftBounded is inductive with the quantity of the tally. *)
DriftInv == Tally(History).qty = order.filledQty /\ AvgDriftBounded

LEMMA InitDrift == Init => DriftInv
<1> SUFFICES ASSUME Init PROVE DriftInv
  OBVIOUS
<1>1. PICK t \in Terms : order = NewOrder(OrderID, t)
  BY DEF Init
<1> DEFINE e == OrderPlaced(OrderID, t)
<1>2. e \in Evs /\ ~IsFillEvent(e)
  BY DEF OrderPlaced, Evs, Events, IsFillEvent
<1>3. /\ order.events = <<e>> /\ log = <<>>
      /\ order.filledQty = 0 /\ order.avgFillPx = 0
  BY <1>1 DEF NewOrder, raise, Init
<1> HIDE DEF e
<1>4. History = Append(<<>>, e) /\ <<>> \in Seq(Evs)
  BY <1>2, <1>3 DEF History
<1>5. Tally(History) = Count(NoFills, e)
  BY <1>2, <1>4, TallyAppend
<1>6. Tally(History) = NoFills
  BY <1>2, <1>5 DEF Count
<1> QED BY <1>3, <1>6 DEF DriftInv, AvgDriftBounded, NoFills, Abs

LEMMA StepDrift == IInv /\ DriftInv /\ [Next]_vars => DriftInv'
<1> SUFFICES ASSUME IInv, DriftInv, [Next]_vars PROVE DriftInv'
  OBVIOUS
<1> DEFINE t == Tally(History)
           a == order.avgFillPx * order.filledQty
<1>1. ASSUME Tally(History') = t, order'.filledQty = order.filledQty,
             order'.avgFillPx = order.avgFillPx
      PROVE  DriftInv'
  BY <1>1 DEF DriftInv, AvgDriftBounded
<1>2. CASE History' = History /\ Snapshot(order') = Snapshot(order)
  <2>1. order'.filledQty = order.filledQty /\ order'.avgFillPx = order.avgFillPx
    BY <1>2 DEF Snapshot
  <2> QED BY <1>1, <1>2, <2>1
<1>3. ASSUME NEW e \in Evs, History' = Append(History, e), RaisedByStatus(e)
      PROVE  DriftInv'
  <2>1. Tally(History') = Count(t, e)
    BY <1>3, HistoryType, TallyAppend DEF IInv
  <2>2. Count(t, e) = t
    BY <1>3, RaisedKind DEF Count
  <2>3. order'.filledQty = order.filledQty /\ order'.avgFillPx = order.avgFillPx
    BY <1>3 DEF RaisedByStatus
  <2> QED BY <1>1, <2>1, <2>2, <2>3
<1>4. ASSUME NEW e \in Evs, History' = Append(History, e), RaisedByFill(e)
      PROVE  DriftInv'
  <2>1. PICK qty \in FillQtys, px \in FillPrices :
          DoFill(qty, px) /\ Tells(e, order', qty, px)
    BY <1>4 DEF RaisedByFill
  <2>2. e.fillQty = qty /\ e.fillPrice = px
    BY <2>1 DEF Tells
  <2> DEFINE b == order'.avgFillPx * (order.filledQty + qty)
             c == px * qty
             u == Tally(History')
  <2>3. u = Count(t, e) /\ t \in Tallies
    BY <1>4, HistoryType, TallyAppend DEF IInv
  <2>4. /\ u.qty = t.qty + qty /\ u.cost = t.cost + qty * px
        /\ u.drift = t.drift + 2 * quantityScale + t.qty + qty
    BY <1>4, <2>2, <2>3, RaisedKind DEF Count
  <2>5. /\ qty \in 1 .. MaxInt /\ px \in 1 .. MaxInt
        /\ order.avgFillPx \in 0 .. MaxInt /\ order.filledQty \in 0 .. MaxInt
        /\ order'.filledQty = order.filledQty + qty
        /\ order'.avgFillPx = FillAvg(order, qty, px).val
        /\ order'.avgFillPx \in 0 .. MaxInt
        /\ addI64(order.filledQty, qty).ok /\ FillAvg(order, qty, px).ok
    BY <2>1, FillNumbers
  <2>6. /\ 2 * b <= 2 * (a + c) + (2 * quantityScale + order.filledQty + qty)
        /\ 2 * (a + c) <= 2 * b + (2 * quantityScale + order.filledQty + qty)
    BY <2>5, FillDrift
  <2>7. a \in Int /\ b \in Int /\ c \in Int /\ c = qty * px
        /\ qty \in Int /\ order.filledQty \in Int /\ quantityScale \in Int
    BY <2>5, Int64Facts, MoneyAssumption
  <2>8. t.qty = order.filledQty /\ 2 * Abs(a - t.cost) <= t.drift
        /\ t.cost \in Int /\ t.drift \in Int
    BY <2>3 DEF DriftInv, AvgDriftBounded, Tallies
  <2>9. order'.avgFillPx * order'.filledQty = b
    BY <2>5
  <2> HIDE DEF a, b, c, t, u
  <2>10. u.qty = order'.filledQty
    BY <2>4, <2>5, <2>8
  <2>11. 2 * (a - t.cost) <= t.drift /\ 2 * (t.cost - a) <= t.drift
    BY <2>7, <2>8 DEF Abs
  <2> DEFINE v == u.cost
             w == u.drift
  <2>12. v = t.cost + c /\ w = t.drift + (2 * quantityScale + order.filledQty + qty)
    BY <2>4, <2>7, <2>8
  <2> HIDE DEF v, w
  <2>13. 2 * Abs(b - v) <= w
    BY <2>6, <2>7, <2>8, <2>11, <2>12 DEF Abs
  <2> QED BY <2>9, <2>10, <2>13 DEF DriftInv, AvgDriftBounded, u, v, w
<1> QED BY <1>2, <1>3, <1>4, HistoryStep

(* Rounding error: after any number of fills the average times the filled  *)
(* quantity is off the exact cost by no more than the rounding of every    *)
(* notional and every quotient added up, whatever the width and the scale. *)
THEOREM DriftBounded == Spec => []AvgDriftBounded
<1>1. (IInv /\ DriftInv) /\ [Next]_vars => (IInv /\ DriftInv)'
  BY StepInv, StepDrift
<1>2. Init => IInv /\ DriftInv
  BY InitInv, InitDrift
<1>3. IInv /\ DriftInv => AvgDriftBounded
  BY DEF DriftInv
<1> QED BY <1>1, <1>2, <1>3, PTL DEF Spec

(* AvgWithinFillPrices is inductive with what the fills say of the filled  *)
(* quantity: nothing is filled without them, and whole ones add up to a    *)
(* whole number of shares.                                                 *)
WholeFills == \A e \in Fills : e.fillQty % quantityScale = 0

PriceInv ==
  /\ Fills = {} => order.filledQty = 0
  /\ WholeFills => order.filledQty % quantityScale = 0
  /\ AvgWithinFillPrices

(* One more event in the history. *)
LEMMA FillsAppend ==
  ASSUME TypeOK, NEW e \in Evs, History' = Append(History, e)
  PROVE  Fills' = IF IsFillEvent(e) THEN Fills \union {e} ELSE Fills
<1> DEFINE s == History
           t == Append(s, e)
           N == Len(s)
<1>1. s \in Seq(Evs)
  BY HistoryType
<1>2. /\ N \in Nat /\ DOMAIN s = 1 .. N /\ DOMAIN t = 1 .. N + 1
      /\ t[N + 1] = e /\ \A n \in 1 .. N : t[n] = s[n]
  BY <1>1
<1>3. Fills' = {t[n] : n \in {m \in DOMAIN t : IsFillEvent(t[m])}}
  BY DEF Fills
<1>4. Fills = {s[n] : n \in {m \in DOMAIN s : IsFillEvent(s[m])}}
  BY DEF Fills
<1> HIDE DEF s, t, N
<1>5. ASSUME NEW x PROVE x \in Fills' <=> \E n \in 1 .. N + 1 : x = t[n] /\ IsFillEvent(t[n])
  BY <1>2, <1>3
<1>6. ASSUME NEW x PROVE x \in Fills <=> \E n \in 1 .. N : x = s[n] /\ IsFillEvent(s[n])
  BY <1>2, <1>4
<1>7. ASSUME NEW x PROVE x \in Fills' <=> x \in Fills \/ (x = e /\ IsFillEvent(e))
  <2>1. \A n \in 1 .. N + 1 : n \in 1 .. N \/ n = N + 1
    BY <1>2
  <2>2. \A n \in 1 .. N : n \in 1 .. N + 1
    BY <1>2
  <2>3. N + 1 \in 1 .. N + 1
    BY <1>2
  <2>4. ASSUME x \in Fills' PROVE x \in Fills \/ (x = e /\ IsFillEvent(e))
    <3>1. PICK n \in 1 .. N + 1 : x = t[n] /\ IsFillEvent(t[n])
      BY <1>5, <2>4
    <3>2. CASE n \in 1 .. N
      BY <1>2, <1>6, <3>1, <3>2
    <3>3. CASE n = N + 1
      BY <1>2, <3>1, <3>3
    <3> QED BY <2>1, <3>2, <3>3
  <2>5. ASSUME x \in Fills PROVE x \in Fills'
    <3>1. PICK n \in 1 .. N : x = s[n] /\ IsFillEvent(s[n])
      BY <1>6, <2>5
    <3> QED BY <1>2, <1>5, <2>2, <3>1
  <2>6. ASSUME x = e, IsFillEvent(e) PROVE x \in Fills'
    BY <1>2, <1>5, <2>3, <2>6
  <2> QED BY <2>4, <2>5, <2>6
<1> QED BY <1>7, Zenon

LEMMA FillPricesTyped == TypeOK => \A e \in Fills : e.fillPrice \in Int
<1> SUFFICES ASSUME TypeOK, NEW e \in Fills PROVE e.fillPrice \in Int
  OBVIOUS
<1>1. History \in Seq(Evs)
  BY HistoryType
<1>2. PICK n \in DOMAIN History : e = History[n] /\ IsFillEvent(History[n])
  BY DEF Fills
<1>3. History[n] \in Evs
  BY <1>1, <1>2
<1> HIDE DEF Evs
<1>4. NoFills \in Tallies
  BY DEF NoFills, Tallies
<1> QED BY <1>2, <1>3, <1>4, CountType

LEMMA InitPrice == Init => PriceInv
<1> SUFFICES ASSUME Init PROVE PriceInv
  OBVIOUS
<1>1. PICK t \in Terms : order = NewOrder(OrderID, t)
  BY DEF Init
<1> DEFINE e == OrderPlaced(OrderID, t)
<1>2. e \in Evs /\ ~IsFillEvent(e)
  BY DEF OrderPlaced, Evs, Events, IsFillEvent
<1>3. order.events = <<e>> /\ log = <<>> /\ order.filledQty = 0
  BY <1>1 DEF NewOrder, raise, Init
<1> HIDE DEF e
<1>4. History = <<e>>
  BY <1>2, <1>3 DEF History
<1>5. Fills = {}
  BY <1>2, <1>4 DEF Fills
<1>6. 0 % quantityScale = 0
  BY MoneyAssumption
<1> QED BY <1>3, <1>5, <1>6 DEF PriceInv, AvgWithinFillPrices

LEMMA StepPrice == IInv /\ PriceInv /\ [Next]_vars => PriceInv'
<1> SUFFICES ASSUME IInv, PriceInv, [Next]_vars PROVE PriceInv'
  OBVIOUS
<1>1. ASSUME Fills' = Fills, order'.filledQty = order.filledQty,
             order'.avgFillPx = order.avgFillPx
      PROVE  PriceInv'
  BY <1>1 DEF PriceInv, WholeFills, AvgWithinFillPrices
<1>2. CASE History' = History /\ Snapshot(order') = Snapshot(order)
  <2>1. order'.filledQty = order.filledQty /\ order'.avgFillPx = order.avgFillPx
    BY <1>2 DEF Snapshot
  <2>2. Fills' = Fills
    BY <1>2 DEF Fills
  <2> QED BY <1>1, <2>1, <2>2
<1>3. ASSUME NEW e \in Evs, History' = Append(History, e), RaisedByStatus(e)
      PROVE  PriceInv'
  <2>1. Fills' = Fills
    BY <1>3, FillsAppend, RaisedKind DEF IInv
  <2>2. order'.filledQty = order.filledQty /\ order'.avgFillPx = order.avgFillPx
    BY <1>3 DEF RaisedByStatus
  <2> QED BY <1>1, <2>1, <2>2
<1>4. ASSUME NEW e \in Evs, History' = Append(History, e), RaisedByFill(e)
      PROVE  PriceInv'
  <2>1. PICK qty \in FillQtys, px \in FillPrices :
          DoFill(qty, px) /\ Tells(e, order', qty, px)
    BY <1>4 DEF RaisedByFill
  <2>2. e.fillQty = qty /\ e.fillPrice = px
    BY <2>1 DEF Tells
  <2>3. Fills' = Fills \union {e}
    BY <1>4, FillsAppend, RaisedKind DEF IInv
  <2> DEFINE S == quantityScale
             F == order.filledQty
             A == order.avgFillPx
             n == order'.avgFillPx
  <2>4. /\ qty \in 1 .. MaxInt /\ px \in 1 .. MaxInt
        /\ A \in 0 .. MaxInt /\ F \in 0 .. MaxInt
        /\ order'.filledQty = F + qty
        /\ n = FillAvg(order, qty, px).val /\ n \in 0 .. MaxInt
        /\ addI64(F, qty).ok /\ FillAvg(order, qty, px).ok
    BY <2>1, FillNumbers
  <2>5. S \in Nat /\ S > 0 /\ A \in Nat /\ F \in Nat /\ qty \in Nat /\ px \in Nat
        /\ n \in Nat
    BY <2>4, MoneyAssumption, Int64Facts
  <2>6. SUFFICES ASSUME WholeFills'
                 PROVE  /\ (F + qty) % S = 0
                        /\ \E x \in Fills' : x.fillPrice <= n
                        /\ \E x \in Fills' : n <= x.fillPrice
    BY <2>3, <2>4, <2>6 DEF PriceInv, WholeFills, AvgWithinFillPrices
  <2>7. WholeFills /\ qty % S = 0
    BY <2>2, <2>3, <2>6 DEF WholeFills
  <2>8. F % S = 0
    BY <2>7 DEF PriceInv
  <2>9. \A k \in Nat : /\ k <= px /\ (F > 0 => k <= A) => k <= n
                       /\ px <= k /\ (F > 0 => A <= k) => n <= k
    BY <2>4, <2>7, <2>8, FillBetween
  <2>10. F > 0 => /\ \E x \in Fills : x.fillPrice <= A
                  /\ \E x \in Fills : A <= x.fillPrice
    BY <2>7 DEF PriceInv, WholeFills, AvgWithinFillPrices
  <2>11. \A x \in Fills : x.fillPrice \in Int
    BY FillPricesTyped DEF IInv
  <2> HIDE DEF S, F, A, n
  <2>12. (F + qty) % S = 0
    BY <2>5, <2>7, <2>8, WholeSum
  <2>13. \E x \in Fills' : x.fillPrice <= n
    <3>1. CASE F > 0 /\ A <= px
      <4>1. A <= n
        BY <2>5, <2>9, <3>1
      <4>2. PICK x \in Fills : x.fillPrice <= A
        BY <2>10, <3>1
      <4>3. x \in Fills' /\ x.fillPrice <= n
        BY <2>3, <2>5, <2>11, <4>1, <4>2
      <4> QED BY <4>3
    <3>2. CASE ~(F > 0 /\ A <= px)
      <4>1. px <= n
        BY <2>5, <2>9, <3>2
      <4> QED BY <2>2, <2>3, <4>1
    <3> QED BY <3>1, <3>2
  <2>14. \E x \in Fills' : n <= x.fillPrice
    <3>1. CASE F > 0 /\ px <= A
      <4>1. n <= A
        BY <2>5, <2>9, <3>1
      <4>2. PICK x \in Fills : A <= x.fillPrice
        BY <2>10, <3>1
      <4>3. x \in Fills' /\ n <= x.fillPrice
        BY <2>3, <2>5, <2>11, <4>1, <4>2
      <4> QED BY <4>3
    <3>2. CASE ~(F > 0 /\ px <= A)
      <4>1. n <= px
        BY <2>5, <2>9, <3>2
      <4> QED BY <2>2, <2>3, <4>1
    <3> QED BY <3>1, <3>2
  <2> QED BY <2>12, <2>13, <2>14
<1> QED BY <1>2, <1>3, <1>4, HistoryStep

(* Fill, with whole shares: however many fills there are, the average      *)
(* stays between the lowest and the highest price.                         *)
THEOREM AvgBetweenPrices == Spec => []AvgWithinFillPrices
<1>1. (IInv /\ PriceInv) /\ [Next]_vars => (IInv /\ PriceInv)'
  BY StepInv, StepPrice
<1>2. Init => IInv /\ PriceInv
  BY InitInv, InitPrice
<1>3. IInv /\ PriceInv => AvgWithinFillPrices
  BY DEF PriceInv
<1> QED BY <1>1, <1>2, <1>3, PTL DEF Spec
=============================================================================
