---------------------------- MODULE RoutingProofs ----------------------------
(***************************************************************************)
(* Proofs about Routing, for any number of attempts, any timers, any terms *)
(* and any venue: what the stored order goes through (OrderInv), which     *)
(* attempts can have put a copy of it on the venue (RouteInv), and how far *)
(* time can be (TimeInv).                                                  *)
(***************************************************************************)
EXTENDS Routing, OrderProofs

(***************************************************************************)
(* The stored order.                                                       *)
(***************************************************************************)
(* The service's copy has no fill, so a copy that the venue fills is       *)
(* filled whole: the order it is booked on had no fill before.             *)
OrderInv ==
  /\ local \in OrderRecords({"id"}, Terms)
  /\ local.filledQty = 0
  /\ stored \in OrderSnapshots({"id"}, Terms)
  /\ stored.terms = local.terms
  /\ FillsMatchStatus(stored)
  /\ executions = 0 \/ (executions = 1 /\ stored.status = "FILLED")

LEMMA TermsTyped == Terms \subseteq TermRecords
BY RoutingAssumption

(* A fill that the stored order admits: it was working, and it is filled   *)
(* by exactly that quantity.                                               *)
LEMMA StoredFill ==
  ASSUME OrderInv, NEW q \in Int64, NEW px \in Int64,
         CanFill(RehydrateOrder(stored), q, px)
  PROVE  LET s == Snapshot(Fill(RehydrateOrder(stored), q, px))
         IN  /\ s \in OrderSnapshots({"id"}, Terms)
             /\ s.terms = stored.terms
             /\ FillsMatchStatus(s)
             /\ stored.status # "FILLED"
             /\ q = stored.terms.quantity => s.status = "FILLED"
<1> DEFINE o == RehydrateOrder(stored)
           p == Fill(o, q, px)
           s == Snapshot(p)
<1>1. /\ o \in OrderRecords({"id"}, Terms) /\ FillsMatchStatus(o)
      /\ o.terms = stored.terms /\ o.status = stored.status
      /\ o.filledQty = stored.filledQty
  BY RehydrateFacts DEF OrderInv, RehydrateOrder
<1>2. /\ p \in OrderRecords({"id"}, Terms)
      /\ p.terms = o.terms
      /\ p.filledQty = o.filledQty + q
      /\ p.filledQty \in 1 .. o.terms.quantity
      /\ p.status = IF p.filledQty = o.terms.quantity
                    THEN "FILLED" ELSE "PARTIALLY_FILLED"
  BY <1>1, TermsTyped, FillMethod
<1>3. o.status \in {"ACCEPTED", "PARTIALLY_FILLED"}
  BY DEF CanFill
<1>4. o.terms.quantity \in Int /\ o.filledQty \in Int /\ o.filledQty >= 0 /\ q \in Int
  BY <1>1, TermsTyped, OrderFields, Int64Facts DEF FillsMatchStatus
<1> HIDE DEF o, p
<1>5. FillsMatchStatus(p)
  BY <1>2, <1>4 DEF FillsMatchStatus
<1>6. s \in OrderSnapshots({"id"}, Terms) /\ FillsMatchStatus(s)
  BY <1>2, <1>5, SnapshotFacts
<1>7. s.terms = p.terms /\ s.status = p.status
  BY DEF Snapshot
<1>8. q = o.terms.quantity => p.status = "FILLED"
  BY <1>2, <1>4
<1> QED BY <1>1, <1>2, <1>3, <1>6, <1>7, <1>8 DEF o, p

(* The price the venue reports is an int64. *)
LEMMA FillPriceTyped ==
  ASSUME OrderInv PROVE FillPrice \in Int64
<1>1. local.terms \in TermRecords
  BY TermsTyped DEF OrderInv, OrderRecords
<1> QED BY <1>1, RoutingAssumption DEF FillPrice, TermRecords

(* The filler reports the whole quantity of the order. *)
LEMMA WholeQuantity ==
  ASSUME OrderInv
  PROVE  RemainingQuantity(local) \in Int64
         /\ RemainingQuantity(local) = stored.terms.quantity
<1>1. local.terms.quantity \in Int64 /\ local.filledQty = 0
  BY TermsTyped DEF OrderInv, OrderRecords, TermRecords
<1>2. local.terms.quantity \in Int /\ local.terms.quantity - local.filledQty = local.terms.quantity
  BY <1>1, Int64Facts
<1>3. Wrap(local.terms.quantity) = local.terms.quantity
  BY <1>1, <1>2, WrapValue
<1> QED BY <1>1, <1>2, <1>3 DEF RemainingQuantity, OrderInv

(* What NewOrder makes of the order's terms. *)
LEMMA PlacedOrder ==
  ASSUME NEW t \in Terms
  PROVE  /\ NewOrder("id", t) \in OrderRecords({"id"}, Terms)
         /\ NewOrder("id", t).terms = t
         /\ NewOrder("id", t).status = "NEW"
         /\ FillsMatchStatus(NewOrder("id", t))
<1>1. Terms \subseteq TermRecords /\ ValidTerms(t)
  BY RoutingAssumption
<1>2. ASSUME NEW id, NEW ids, id \in ids
      PROVE  /\ NewOrder(id, t) \in OrderRecords(ids, Terms)
             /\ NewOrder(id, t).terms = t
             /\ NewOrder(id, t).status = "NEW"
             /\ FillsMatchStatus(NewOrder(id, t))
  BY <1>1, <1>2, NewOrderFacts
<1> QED BY <1>2

LEMMA InitOrder == Init => OrderInv
<1> SUFFICES ASSUME Init PROVE OrderInv
  OBVIOUS
<1>1. PICK t \in Terms : local = ClearEvents(Accept(NewOrder("id", t)))
  BY DEF Init
<1> DEFINE n == NewOrder("id", t)
           a == Accept(n)
<1>2. /\ n \in OrderRecords({"id"}, Terms) /\ n.terms = t /\ n.status = "NEW"
      /\ FillsMatchStatus(n)
  BY PlacedOrder
<1>3. canTransitionTo("NEW", "ACCEPTED") /\ "ACCEPTED" \in Statuses
      /\ "OrderAccepted" \in PlainEventNames
  BY DEF canTransitionTo, legalTransitions, Statuses, PlainEventNames
<1> HIDE DEF n
<1>4. /\ a \in OrderRecords({"id"}, Terms) /\ a.terms = n.terms
      /\ a.filledQty = n.filledQty /\ a.status = "ACCEPTED"
  BY <1>2, <1>3, TermsTyped, StatusMethod DEF Accept
<1>5. n.filledQty = 0 /\ FillsMatchStatus(a)
  BY <1>2, <1>4 DEF FillsMatchStatus
<1> HIDE DEF a
<1>6. <<>> \in Seq(Events({"id"}, Terms))
  OBVIOUS
<1>7. local = [a EXCEPT !.events = <<>>]
  BY <1>1 DEF ClearEvents, a, n
<1>8. /\ local \in OrderRecords({"id"}, Terms) /\ local.filledQty = 0
      /\ FillsMatchStatus(local)
  BY <1>4, <1>5, <1>6, <1>7 DEF OrderRecords, FillsMatchStatus
<1>9. /\ stored \in OrderSnapshots({"id"}, Terms) /\ FillsMatchStatus(stored)
      /\ stored.terms = local.terms
  BY <1>8, SnapshotFacts DEF Init, Snapshot
<1>10. executions = 0
  BY DEF Init
<1> QED BY <1>8, <1>9, <1>10 DEF OrderInv

LEMMA NextOrder == OrderInv /\ [Next]_vars => OrderInv'
<1> SUFFICES ASSUME OrderInv, [Next]_vars PROVE OrderInv'
  OBVIOUS
<1>1. CASE UNCHANGED <<local, stored, executions>>
  BY <1>1 DEF OrderInv
<1>2. ASSUME NEW n \in Attempts, AutoFill(n) PROVE OrderInv'
  <2> DEFINE q == RemainingQuantity(local)
  <2>1. CASE CanFill(RehydrateOrder(stored), q, FillPrice)
    <3>1. /\ stored' = Snapshot(Fill(RehydrateOrder(stored), q, FillPrice))
          /\ executions' = executions + 1 /\ local' = local
      BY <1>2, <2>1 DEF AutoFill
    <3>2. /\ stored' \in OrderSnapshots({"id"}, Terms) /\ stored'.terms = stored.terms
          /\ FillsMatchStatus(stored') /\ stored.status # "FILLED"
          /\ stored'.status = "FILLED"
      BY <2>1, <3>1, StoredFill, FillPriceTyped, WholeQuantity
    <3>3. executions' = 1
      BY <3>1, <3>2 DEF OrderInv
    <3> QED BY <3>1, <3>2, <3>3 DEF OrderInv, FillsMatchStatus
  <2>2. CASE ~CanFill(RehydrateOrder(stored), q, FillPrice)
    BY <1>1, <1>2, <2>2 DEF AutoFill
  <2> QED BY <2>1, <2>2
<1>3. CASE OtherFill
  <2>1. PICK q \in FillQtys : /\ CanFill(RehydrateOrder(stored), q, FillPrice)
                              /\ stored' = Snapshot(Fill(RehydrateOrder(stored), q, FillPrice))
    BY <1>3 DEF OtherFill
  <2>2. q \in Int64
    BY RoutingAssumption
  <2>3. /\ stored' \in OrderSnapshots({"id"}, Terms) /\ stored'.terms = stored.terms
        /\ FillsMatchStatus(stored') /\ stored.status # "FILLED"
    BY <2>1, <2>2, StoredFill, FillPriceTyped
  <2>4. local' = local /\ executions' = executions
    BY <1>3 DEF OtherFill
  <2> QED BY <2>3, <2>4 DEF OrderInv, FillsMatchStatus
<1>4. CASE OtherCancel
  <2> DEFINE o == RehydrateOrder(stored)
             p == Cancel(o)
  <2>1. /\ o \in OrderRecords({"id"}, Terms) /\ FillsMatchStatus(o)
        /\ o.terms = stored.terms /\ o.status = stored.status
    BY RehydrateFacts DEF OrderInv, RehydrateOrder
  <2>2. canTransitionTo(o.status, "CANCELED") /\ "CANCELED" \in Statuses
        /\ "OrderCanceled" \in PlainEventNames
    BY <1>4 DEF OtherCancel, CanCancel, Statuses, PlainEventNames
  <2>3. o.status \in {"ACCEPTED", "PARTIALLY_FILLED"}
    BY <2>1, <2>2, TermsTyped, OrderFields, WorkingStatus
  <2>4. stored' = Snapshot(p) /\ local' = local /\ executions' = executions
    BY <1>4 DEF OtherCancel
  <2> HIDE DEF o
  <2>5. /\ p \in OrderRecords({"id"}, Terms) /\ p.terms = o.terms
        /\ p.filledQty = o.filledQty /\ p.status = "CANCELED"
    BY <2>1, <2>2, TermsTyped, StatusMethod DEF Cancel
  <2> HIDE DEF p
  <2>6. FillsMatchStatus(p)
    BY <2>1, <2>3, <2>5 DEF FillsMatchStatus
  <2>7. /\ stored' \in OrderSnapshots({"id"}, Terms) /\ FillsMatchStatus(stored')
        /\ stored'.terms = stored.terms
    BY <2>1, <2>4, <2>5, <2>6, SnapshotFacts DEF Snapshot
  <2>8. stored.status # "FILLED"
    BY <2>1, <2>3
  <2> QED BY <2>4, <2>7, <2>8 DEF OrderInv, FillsMatchStatus
<1>5. ASSUME NEW n \in Attempts, Route(n) \/ AutoFillConflict(n) PROVE OrderInv'
  BY <1>1, <1>5 DEF Route, AutoFillConflict
<1>6. CASE Caller
  BY <1>1, <1>6 DEF Caller, StartAttempt, Outcome, Deadline, BackoffEnds, BackoffCanceled
<1>7. CASE Tick \/ Disconnect \/ FailNext \/ SetAutofill
  BY <1>1, <1>7 DEF Tick, Disconnect, FailNext, SetAutofill
<1>8. CASE UNCHANGED vars
  BY <1>1, <1>8 DEF vars, callerVars, venueVars
<1> QED BY <1>2, <1>3, <1>4, <1>5, <1>6, <1>7, <1>8 DEF Next

(* However many copies the venue gets and fills, and whatever other        *)
(* clients do, the stored order is executed at most once.                  *)
THEOREM OrderExecutedOnce == Spec => []ExecutedOnce
<1>1. OrderInv => ExecutedOnce
  BY DEF OrderInv, ExecutedOnce
<1> QED BY <1>1, InitOrder, NextOrder, PTL DEF Spec

(***************************************************************************)
(* The copies on the venue.                                                *)
(***************************************************************************)
OpStates == {"none", "started", "filling", "ok", "failed"}

(* Attempts that the venue has accepted. *)
Copies == {n \in Attempts : op[n] \in {"filling", "ok"}}

(* Somebody waits for attempt n, or took its success. *)
Awaited(n) == n = attempt /\ (caller = "select" \/ result = "ok")

(* An attempt that runs or has succeeded is awaited or was abandoned: a    *)
(* failed attempt never reaches the venue later, and no attempt is ahead   *)
(* of the loop.                                                            *)
RouteInv ==
  /\ caller \in {"loop", "select", "backoff", "returned"}
  /\ attempt \in Attempts
  /\ op \in [Attempts -> OpStates]
  /\ abandoned \subseteq Attempts
  /\ routed = Cardinality(Copies)
  /\ result = "ok" => caller = "returned" /\ op[attempt] = "ok"
  /\ caller = "loop" => op[attempt] = "none"
  /\ caller = "backoff" => attempt < MaxAttempts
  /\ \A n \in Attempts : n > attempt => op[n] = "none"
  /\ \A n \in Attempts :
       op[n] \in {"started", "filling", "ok"} => n \in abandoned \/ Awaited(n)

LEMMA AttemptsFacts ==
  MaxAttempts \in Nat /\ MaxAttempts >= 1 /\ IsFiniteSet(Attempts)
<1>1. MaxAttempts \in Nat /\ MaxAttempts >= 1
  BY RoutingAssumption DEF MaxAttempts
<1> QED BY <1>1, FS_Interval DEF Attempts

LEMMA InitRoute == Init => RouteInv
<1> SUFFICES ASSUME Init PROVE RouteInv
  OBVIOUS
<1>1. op = [n \in Attempts |-> "none"] /\ Copies = {}
  BY DEF Init, Copies
<1>2. routed = Cardinality(Copies)
  BY <1>1, FS_EmptySet DEF Init
<1>3. attempt = 1 /\ attempt \in Attempts
  BY AttemptsFacts DEF Init, Attempts
<1> QED BY <1>1, <1>2, <1>3 DEF Init, RouteInv, OpStates

(* A step of a goroutine that moves no attempt to the venue or from it. *)
LEMMA SameCopies ==
  ASSUME RouteInv, NEW n \in Attempts, NEW to \in OpStates,
         op' = [op EXCEPT ![n] = to],
         op[n] \in {"filling", "ok"} <=> to \in {"filling", "ok"}
  PROVE  Copies' = Copies
BY DEF Copies, RouteInv

LEMMA NextRoute == RouteInv /\ [Next]_vars => RouteInv'
<1> SUFFICES ASSUME RouteInv, [Next]_vars PROVE RouteInv'
  OBVIOUS
<1>1. CASE UNCHANGED <<caller, attempt, op, abandoned, result, routed>>
  BY <1>1 DEF RouteInv, Copies, Awaited
<1>2. CASE StartAttempt
  <2>1. CASE canceled
    BY <1>2, <2>1 DEF StartAttempt, Return, venueVars, RouteInv, Copies, Awaited
  <2>2. CASE ~canceled
    <3>1. /\ caller = "loop" /\ caller' = "select" /\ op' = [op EXCEPT ![attempt] = "started"]
          /\ UNCHANGED <<attempt, abandoned, result, routed>>
      BY <1>2, <2>2 DEF StartAttempt, venueVars
    <3>2. attempt \in Attempts /\ op[attempt] = "none"
      BY <3>1 DEF RouteInv
    <3>3. Copies' = Copies
      BY <3>1, <3>2, SameCopies DEF OpStates
    <3>4. op' \in [Attempts -> OpStates] /\ op'[attempt] = "started"
          /\ \A n \in Attempts : n # attempt => op'[n] = op[n]
      BY <3>1, <3>2 DEF RouteInv, OpStates
    <3>5. result # "ok"
      BY <3>1 DEF RouteInv
    <3>6. \A n \in Attempts : n > attempt => n # attempt
      BY <3>2, AttemptsFacts DEF Attempts
    <3> QED BY <3>1, <3>3, <3>4, <3>5, <3>6 DEF RouteInv, Awaited
  <2> QED BY <2>1, <2>2
<1>3. ASSUME NEW err, err # "ok", RetryAfter(err), caller = "select",
             UNCHANGED <<op, routed>>,
             \/ abandoned' = abandoned /\ op[attempt] = "failed"
             \/ abandoned' = abandoned \union {attempt}
      PROVE  RouteInv'
  <2>1. Copies' = Copies /\ attempt' = attempt
    BY <1>3 DEF Copies, RetryAfter, Return
  <2>2. caller' \in {"backoff", "returned"} /\ result' # "ok"
    BY <1>3 DEF RetryAfter, Return, RouteInv
  <2>3. caller' = "backoff" => attempt < MaxAttempts
    BY <1>3, AttemptsFacts DEF RetryAfter, Return, LastAttempt, RouteInv, Attempts
  <2> QED BY <1>3, <2>1, <2>2, <2>3 DEF RouteInv, Awaited
<1>4. CASE Outcome
  <2>1. CASE Succeeds
    BY <1>4, <2>1 DEF Outcome, Return, Succeeds, venueVars, RouteInv, Copies, Awaited
  <2>2. CASE ~Succeeds
    <3>1. /\ caller = "select" /\ op[attempt] = "failed" /\ RetryAfter("error")
          /\ UNCHANGED <<op, abandoned, routed>>
      BY <1>4, <2>2 DEF Outcome, Succeeds, venueVars
    <3> QED BY <1>3, <3>1
  <2> QED BY <2>1, <2>2
<1>5. CASE Deadline
  <2>1. /\ caller = "select" /\ RetryAfter("deadline") /\ UNCHANGED <<op, routed>>
        /\ abandoned' = abandoned \union {attempt}
    BY <1>5 DEF Deadline, venueVars
  <2> QED BY <1>3, <2>1
<1>6. CASE BackoffEnds
  <2>1. /\ caller = "backoff" /\ caller' = "loop" /\ attempt' = attempt + 1
        /\ UNCHANGED <<op, abandoned, result, routed>>
    BY <1>6 DEF BackoffEnds, venueVars
  <2>2. attempt' \in Attempts /\ attempt' > attempt
    BY <2>1, AttemptsFacts DEF RouteInv, Attempts
  <2>3. \A n \in Attempts : n > attempt' => n > attempt
    BY <2>1, AttemptsFacts DEF RouteInv, Attempts
  <2>4. Copies' = Copies
    BY <2>1 DEF Copies
  <2> QED BY <2>1, <2>2, <2>3, <2>4 DEF RouteInv, Awaited
<1>7. CASE BackoffCanceled
  BY <1>7 DEF BackoffCanceled, Return, venueVars, RouteInv, Copies, Awaited
<1>8. ASSUME NEW n \in Attempts, Route(n) PROVE RouteInv'
  <2>1. /\ op[n] = "started"
        /\ UNCHANGED <<caller, attempt, abandoned, result>>
    BY <1>8 DEF Route, callerVars
  <2>2. CASE failCount > 0
    <3>1. op' = [op EXCEPT ![n] = "failed"] /\ routed' = routed
      BY <1>8, <2>2 DEF Route
    <3>2. Copies' = Copies
      BY <2>1, <3>1, SameCopies DEF OpStates
    <3> QED BY <2>1, <3>1, <3>2 DEF RouteInv, OpStates, Awaited
  <2>3. CASE ~(failCount > 0)
    <3>1. PICK to \in {"filling", "ok"} : op' = [op EXCEPT ![n] = to]
      BY <1>8, <2>3 DEF Route
    <3>2. routed' = routed + 1
      BY <1>8, <2>3 DEF Route
    <3>3. Copies' = Copies \union {n} /\ n \notin Copies
      BY <2>1, <3>1 DEF Copies, RouteInv
    <3>4. IsFiniteSet(Copies)
      BY AttemptsFacts, FS_Subset DEF Copies
    <3>5. Cardinality(Copies') = Cardinality(Copies) + 1
      BY <3>3, <3>4, FS_AddElement
    <3>6. routed' = Cardinality(Copies')
      BY <3>2, <3>5 DEF RouteInv
    <3> QED BY <2>1, <3>1, <3>6 DEF RouteInv, OpStates, Awaited
  <2> QED BY <2>2, <2>3
<1>9. ASSUME NEW n \in Attempts, AutoFill(n) \/ AutoFillConflict(n) PROVE RouteInv'
  <2>1. /\ op[n] = "filling" /\ op' = [op EXCEPT ![n] = "ok"]
        /\ UNCHANGED <<caller, attempt, abandoned, result, routed>>
    BY <1>9 DEF AutoFill, AutoFillConflict, callerVars, venueVars
  <2>2. Copies' = Copies
    BY <2>1, SameCopies DEF OpStates
  <2> QED BY <2>1, <2>2 DEF RouteInv, OpStates, Awaited
<1>10. CASE Tick \/ Disconnect \/ FailNext \/ SetAutofill \/ OtherFill \/ OtherCancel
  BY <1>1, <1>10 DEF Tick, Disconnect, FailNext, SetAutofill, OtherFill, OtherCancel,
                     callerVars, venueVars
<1>11. CASE UNCHANGED vars
  BY <1>1, <1>11 DEF vars, callerVars, venueVars
<1> QED BY <1>2, <1>4, <1>5, <1>6, <1>7, <1>8, <1>9, <1>10, <1>11 DEF Next, Caller

(* After a success the venue has the order; every further copy, and every  *)
(* copy after an error, comes from an attempt that WithTimeout abandoned.  *)
THEOREM EveryCopyAccountedFor == Spec => []CopiesAccountedFor
<1>1. RouteInv => CopiesAccountedFor
  <2> SUFFICES ASSUME RouteInv PROVE CopiesAccountedFor
    OBVIOUS
  <2>1. IsFiniteSet(abandoned) /\ IsFiniteSet(Copies)
    <3>1. abandoned \in SUBSET Attempts /\ Copies \in SUBSET Attempts
      BY DEF RouteInv, Copies
    <3> QED BY <3>1, AttemptsFacts, FS_Subset
  <2>2. Cardinality(abandoned) \in Nat /\ Cardinality(Copies) \in Nat
    BY <2>1, FS_CardinalityType
  <2>3. Copies \subseteq abandoned \union {attempt}
    BY DEF RouteInv, Copies, Awaited
  <2>4. /\ IsFiniteSet(abandoned \union {attempt})
        /\ Cardinality(abandoned \union {attempt}) <= Cardinality(abandoned) + 1
    <3>1. /\ IsFiniteSet(abandoned \union {attempt})
          /\ Cardinality(abandoned \union {attempt}) =
               IF attempt \in abandoned THEN Cardinality(abandoned)
                                       ELSE Cardinality(abandoned) + 1
      BY <2>1, FS_AddElement
    <3> QED BY <2>2, <3>1
  <2>5. Cardinality(Copies) <= Cardinality(abandoned \union {attempt})
    BY <2>3, <2>4, FS_Subset
  <2>6. Cardinality(abandoned \union {attempt}) \in Nat
    BY <2>4, FS_CardinalityType
  <2>7. routed <= Cardinality(abandoned) + 1
    BY <2>2, <2>4, <2>5, <2>6 DEF RouteInv
  <2>8. result = "ok" => routed >= 1
    <3>1. result = "ok" => attempt \in Copies
      BY DEF RouteInv, Copies
    <3>2. result = "ok" => Cardinality(Copies) # 0
      BY <2>1, <3>1, FS_EmptySet
    <3> QED BY <2>2, <3>2 DEF RouteInv
  <2>9. caller = "returned" /\ result # "ok" => routed <= Cardinality(abandoned)
    <3>1. caller = "returned" /\ result # "ok" => Copies \subseteq abandoned
      BY DEF RouteInv, Copies, Awaited
    <3>2. Copies \subseteq abandoned => Cardinality(Copies) <= Cardinality(abandoned)
      BY <2>1, FS_Subset
    <3> QED BY <3>1, <3>2 DEF RouteInv
  <2> QED BY <2>7, <2>8, <2>9 DEF CopiesAccountedFor
<1> QED BY <1>1, InitRoute, NextRoute, PTL DEF Spec

(***************************************************************************)
(* Time and types.                                                         *)
(***************************************************************************)
(* What the timeouts and delays before attempt n add up to. *)
Before(n) == (n - 1) * RouteTimeout + Delays[n - 1]

(* Time stays behind the caller's timer, and the timer within the budget   *)
(* of the attempts made so far.                                            *)
TimeInv ==
  /\ due \in Nat /\ now \in Nat
  /\ caller = "loop" => now <= Before(attempt)
  /\ caller = "select" => now <= due /\ due <= Before(attempt) + RouteTimeout
  /\ caller = "backoff" => now <= due /\ due <= Before(attempt + 1)
  /\ caller = "returned" =>
       \/ now <= Before(attempt) + RouteTimeout
       \/ attempt < MaxAttempts /\ now <= Before(attempt + 1)

(* The longest delay is a number of ticks, the smaller of two. *)
LEMMA BackoffFacts ==
  ASSUME NEW n \in Attempts
  PROVE  /\ backoff(n) \in Nat
         /\ Min({BaseDelay * 2 ^ (n - 1), MaxDelay}) = backoff(n)
<1> DEFINE exp == BaseDelay * 2 ^ (n - 1)
<1>1. exp \in Nat /\ MaxDelay \in Nat
  <2>1. n - 1 \in Nat
    BY AttemptsFacts DEF Attempts
  <2>2. 2 ^ (n - 1) \in Nat /\ BaseDelay \in Nat
    BY <2>1, PowerOfTwo, RoutingAssumption
  <2> QED BY <2>2, RoutingAssumption
<1>2. backoff(n) = IF exp > MaxDelay THEN MaxDelay ELSE exp
  BY DEF backoff
<1> HIDE DEF exp
<1>3. \A x, y \in Nat : Min({x, y}) = IF x > y THEN y ELSE x
  <2> SUFFICES ASSUME NEW x \in Nat, NEW y \in Nat
               PROVE  Min({x, y}) = IF x > y THEN y ELSE x
    OBVIOUS
  <2> DEFINE m == IF x > y THEN y ELSE x
             IsMin(z) == z \in {x, y} /\ \A w \in {x, y} : z <= w
  <2>1. IsMin(m)
    OBVIOUS
  <2>2. \A z : IsMin(z) => z = m
    OBVIOUS
  <2> QED BY <2>1, <2>2 DEF Min
<1> QED BY <1>1, <1>2, <1>3 DEF exp

(* Delays is what its recursive definition says. *)
LEMMA DelaysFacts ==
  /\ Delays \in [0 .. MaxAttempts - 1 -> Nat]
  /\ Delays[0] = 0
  /\ \A n \in 1 .. MaxAttempts - 1 : Delays[n] = Delays[n - 1] + backoff(n)
<1> DEFINE N == MaxAttempts - 1
           g == [n \in 1 .. N |-> [x \in Nat |-> x + backoff(n)]]
           Equation(f) == f = [n \in 0 .. N |->
                                 IF n = 0 THEN 0
                                 ELSE f[n - 1] + Min({BaseDelay * 2 ^ (n - 1), MaxDelay})]
<1>1. N \in Nat /\ \A n \in 1 .. N : n \in Attempts
  BY AttemptsFacts DEF Attempts
<1>2. \A n \in 1 .. N : Min({BaseDelay * 2 ^ (n - 1), MaxDelay}) = backoff(n)
  BY <1>1, BackoffFacts
<1>12. \A n \in 1 .. N : backoff(n) \in Nat
  BY <1>1, BackoffFacts
<1>3. g \in [1 .. N -> [Nat -> Nat]]
  <2>1. ASSUME NEW n \in 1 .. N PROVE [x \in Nat |-> x + backoff(n)] \in [Nat -> Nat]
    BY <1>12
  <2> QED BY <2>1
<1> HIDE DEF N, g
<1>4. PICK f : Follows(f, Nat, 0, g, N)
  BY <1>1, <1>3, Recursion
<1>5. ASSUME NEW n \in 1 .. N PROVE f[n] = f[n - 1] + backoff(n)
  <2>1. f[n - 1] \in Nat /\ f[n] = g[n][f[n - 1]]
    BY <1>1, <1>4 DEF Follows
  <2>2. g[n] = [x \in Nat |-> x + backoff(n)]
    BY DEF g
  <2> QED BY <2>1, <2>2
<1>6. Equation(f)
  <2> DEFINE h == [n \in 0 .. N |->
                     IF n = 0 THEN 0
                     ELSE f[n - 1] + Min({BaseDelay * 2 ^ (n - 1), MaxDelay})]
  <2>1. f[0] = 0 /\ f = [n \in 0 .. N |-> f[n]]
    BY <1>4 DEF Follows
  <2>2. ASSUME NEW n \in 0 .. N PROVE f[n] = h[n]
    <3>1. CASE n = 0
      BY <2>1, <3>1
    <3>2. CASE n # 0
      <4>1. n \in 1 .. N
        BY <1>1, <3>2
      <4> QED BY <1>2, <1>5, <3>2, <4>1
    <3> QED BY <3>1, <3>2
  <2> QED BY <2>1, <2>2
<1>7. Delays = CHOOSE h : Equation(h)
  BY Zenon DEF Delays, N
<1>8. Equation(Delays)
  BY <1>6, <1>7, Zenon
<1>9. Delays[0] = 0 /\ \A n \in 1 .. N : Delays[n] = Delays[n - 1] + backoff(n)
  <2>1. Delays[0] = 0
    BY <1>1, <1>8
  <2>2. ASSUME NEW n \in 1 .. N
        PROVE  Delays[n] = Delays[n - 1] + Min({BaseDelay * 2 ^ (n - 1), MaxDelay})
    <3>1. n \in 0 .. N /\ n # 0
      BY <1>1
    <3> QED BY <1>8, <3>1, Zenon
  <2> QED BY <1>2, <2>1, <2>2
<1>10. \A n \in 0 .. N : Delays[n] = f[n]
  <2>1. f[0] = Delays[0] /\ \A n \in 1 .. N : f[n - 1] = Delays[n - 1] => f[n] = Delays[n]
    BY <1>4, <1>5, <1>9 DEF Follows
  <2>2. StepAlike(f, Delays, N)
    BY <2>1 DEF StepAlike
  <2> QED BY <1>1, <2>2, RecursionUnique
<1>11. Delays \in [0 .. N -> Nat]
  BY <1>4, <1>8, <1>10 DEF Follows
<1> QED BY <1>9, <1>11 DEF N

(* Delays only add up. *)
LEMMA DelaysGrow ==
  ASSUME NEW n \in 0 .. MaxAttempts - 1
  PROVE  Delays[n] <= Delays[MaxAttempts - 1]
<1> DEFINE N == MaxAttempts - 1
           S == {k \in Nat : k <= N => Delays[N - k] <= Delays[N]}
<1>1. N \in Nat /\ \A k \in 1 .. N : k \in Attempts
  BY AttemptsFacts DEF Attempts
<1>2. \A k \in 0 .. N : Delays[k] \in Nat
  BY DelaysFacts
<1> HIDE DEF N
<1>3. 0 \in S
  BY <1>1, <1>2
<1>4. ASSUME NEW k \in Nat, k \in S PROVE k + 1 \in S
  <2> SUFFICES ASSUME k + 1 <= N PROVE Delays[N - (k + 1)] <= Delays[N]
    OBVIOUS
  <2>1. N - k \in 1 .. N /\ (N - k) - 1 = N - (k + 1) /\ N - k \in 0 .. N
        /\ N - (k + 1) \in 0 .. N /\ k <= N
    BY <1>1
  <2>2. Delays[N - k] = Delays[N - (k + 1)] + backoff(N - k)
    BY <2>1, DelaysFacts DEF N
  <2>3. backoff(N - k) \in Nat
    BY <1>1, <2>1, BackoffFacts
  <2>4. Delays[N - k] <= Delays[N]
    BY <1>4, <2>1
  <2>5. Delays[N - k] \in Nat /\ Delays[N - (k + 1)] \in Nat /\ Delays[N] \in Nat
    BY <1>1, <1>2, <2>1
  <2> QED BY <2>2, <2>3, <2>4, <2>5
<1>5. \A k \in Nat : k \in S
  <2> HIDE DEF S
  <2> QED BY <1>3, <1>4, SetInduction
<1>6. N - n \in Nat /\ N - n <= N /\ N - (N - n) = n
  BY <1>1 DEF N
<1> QED BY <1>5, <1>6 DEF N

(* The budget before an attempt grows by a timeout and a delay, and stays  *)
(* within the whole budget.                                                *)
LEMMA BeforeFacts ==
  ASSUME NEW n \in Attempts
  PROVE  LET all == MaxAttempts * RouteTimeout + Delays[MaxAttempts - 1]
         IN  /\ all \in Nat
             /\ Before(n) \in Nat
             /\ Before(1) = 0
             /\ Before(n) + RouteTimeout <= all
             /\ n < MaxAttempts =>
                  /\ Before(n + 1) = Before(n) + RouteTimeout + backoff(n)
                  /\ Before(n + 1) \in Nat
                  /\ Before(n + 1) <= all
<1> DEFINE M == MaxAttempts
           T == RouteTimeout
           all == M * T + Delays[M - 1]
<1>1. M \in Nat /\ M >= 1 /\ T \in Nat /\ n \in 1 .. M
  BY AttemptsFacts, RoutingAssumption DEF Attempts
<1>2. \A k \in 0 .. M - 1 : Delays[k] \in Nat /\ Delays[k] <= Delays[M - 1]
  BY DelaysFacts, DelaysGrow
<1>3. \A k \in 1 .. M : k * T \in Nat /\ (k - 1) * T \in Nat /\ (k - 1) * T + T = k * T
  <2> HIDE DEF M, T
  <2> QED BY <1>1
<1>4. \A k \in 1 .. M : k * T <= M * T
  <2> HIDE DEF M, T
  <2> SUFFICES ASSUME NEW k \in 1 .. M PROVE k * T <= M * T
    OBVIOUS
  <2>1. (M - k) * T \in Nat /\ M * T = (M - k) * T + k * T
    BY <1>1
  <2>2. k * T \in Nat /\ M * T \in Nat
    BY <1>1, <1>3
  <2> QED BY <2>1, <2>2
<1>5. n - 1 \in 0 .. M - 1 /\ M - 1 \in 0 .. M - 1 /\ 0 \in 0 .. M - 1 /\ 1 \in 1 .. M
      /\ M \in 1 .. M
  BY <1>1
<1>6. all \in Nat /\ Before(n) \in Nat /\ Before(n) + T <= all
  <2>1. /\ Delays[n - 1] \in Nat /\ Delays[M - 1] \in Nat /\ Delays[n - 1] <= Delays[M - 1]
        /\ n * T \in Nat /\ (n - 1) * T \in Nat /\ (n - 1) * T + T = n * T
        /\ M * T \in Nat /\ n * T <= M * T
    BY <1>1, <1>2, <1>3, <1>4, <1>5
  <2>2. Before(n) = (n - 1) * T + Delays[n - 1]
    BY DEF Before
  <2> HIDE DEF M, T
  <2> QED BY <1>1, <2>1, <2>2
<1>7. Before(1) = 0
  BY <1>1, DelaysFacts DEF Before
<1>8. ASSUME n < M
      PROVE  /\ Before(n + 1) = Before(n) + T + backoff(n)
             /\ Before(n + 1) \in Nat
             /\ Before(n + 1) <= all
  <2>1. n \in 1 .. M - 1 /\ n \in 0 .. M - 1 /\ n + 1 \in 1 .. M /\ (n + 1) - 1 = n
    BY <1>1, <1>8
  <2>2. /\ Delays[n] = Delays[n - 1] + backoff(n)
        /\ backoff(n) \in Nat /\ Delays[n - 1] \in Nat
        /\ Delays[n] \in Nat /\ Delays[n] <= Delays[M - 1] /\ Delays[M - 1] \in Nat
    BY <1>2, <1>5, <2>1, DelaysFacts, BackoffFacts
  <2>3. /\ n * T \in Nat /\ (n - 1) * T \in Nat /\ (n - 1) * T + T = n * T
        /\ M * T \in Nat /\ n * T <= M * T
    BY <1>1, <1>3, <1>4, <1>5
  <2>4. Before(n + 1) = n * T + Delays[n] /\ Before(n) = (n - 1) * T + Delays[n - 1]
    BY <2>1 DEF Before
  <2> HIDE DEF M, T
  <2> QED BY <1>1, <2>2, <2>3, <2>4
<1> QED BY <1>6, <1>7, <1>8

LEMMA InitTime == Init => TimeInv
<1> SUFFICES ASSUME Init PROVE TimeInv
  OBVIOUS
<1>1. 1 \in Attempts
  BY AttemptsFacts DEF Attempts
<1>2. Before(1) = 0
  BY <1>1, BeforeFacts
<1> QED BY <1>2 DEF Init, TimeInv

LEMMA NextTime == RouteInv /\ TimeInv /\ [Next]_vars => TimeInv'
<1> SUFFICES ASSUME RouteInv, TimeInv, [Next]_vars PROVE TimeInv'
  OBVIOUS
<1> DEFINE T == RouteTimeout
           B == Before(attempt)
           C == Before(attempt + 1)
           d == backoff(attempt)
<1>1. /\ attempt \in Attempts /\ T \in Nat /\ B \in Nat /\ d \in Nat
      /\ due \in Nat /\ now \in Nat
  BY BeforeFacts, BackoffFacts, RoutingAssumption DEF RouteInv, TimeInv
<1>2. attempt < MaxAttempts => C \in Nat /\ C = B + T + d
  BY <1>1, BeforeFacts
<1>3. attempt' = attempt => Before(attempt') = B /\ Before(attempt' + 1) = C
  OBVIOUS
<1> HIDE DEF B, C, d, T
<1>4. /\ caller = "loop" => now <= B
      /\ caller = "select" => now <= due /\ due <= B + T
      /\ caller = "backoff" => now <= due /\ due <= C
  BY DEF TimeInv, B, C, T
<1>5. CASE UNCHANGED <<caller, attempt, due, now>>
  BY <1>5 DEF TimeInv
<1>6. ASSUME NEW res, Return(res), caller \in {"loop", "select"} PROVE TimeInv'
  <2>1. caller' = "returned" /\ UNCHANGED <<attempt, due, now>>
    BY <1>6 DEF Return
  <2>2. now <= B + T
    BY <1>1, <1>4, <1>6
  <2> QED BY <1>1, <1>3, <2>1, <2>2 DEF TimeInv, T
<1>7. CASE StartAttempt
  <2>1. caller = "loop"
    BY <1>7 DEF StartAttempt
  <2>2. CASE canceled
    BY <1>6, <1>7, <2>1, <2>2 DEF StartAttempt
  <2>3. CASE ~canceled
    <3>1. caller' = "select" /\ due' = now + T /\ UNCHANGED <<attempt, now>>
      BY <1>7, <2>3 DEF StartAttempt, T
    <3>2. due' \in Nat /\ now <= due' /\ due' <= B + T
      BY <1>1, <1>4, <2>1, <3>1
    <3> QED BY <1>1, <1>3, <3>1, <3>2 DEF TimeInv, T
  <2> QED BY <2>2, <2>3
<1>8. ASSUME NEW err, RetryAfter(err), caller = "select" PROVE TimeInv'
  <2>1. CASE LastAttempt
    BY <1>6, <1>8, <2>1 DEF RetryAfter
  <2>2. CASE ~LastAttempt
    <3>1. caller' = "backoff" /\ UNCHANGED <<attempt, now>>
      BY <1>8, <2>2 DEF RetryAfter
    <3>2. PICK w \in 0 .. d : due' = now + w
      BY <1>8, <2>2 DEF RetryAfter, d
    <3>3. C = B + T + d /\ C \in Nat
      BY <1>1, <1>2, <2>2, AttemptsFacts DEF LastAttempt, Attempts
    <3>4. due' \in Nat /\ now <= due' /\ due' <= C
      BY <1>1, <1>4, <1>8, <3>2, <3>3
    <3> QED BY <1>1, <1>3, <3>1, <3>4 DEF TimeInv
  <2> QED BY <2>1, <2>2
<1>9. CASE Outcome
  <2>1. caller = "select" /\ (Return("ok") \/ RetryAfter("error"))
    BY <1>9 DEF Outcome
  <2> QED BY <1>6, <1>8, <2>1
<1>10. CASE Deadline
  <2>1. caller = "select" /\ RetryAfter("deadline")
    BY <1>10 DEF Deadline
  <2> QED BY <1>8, <2>1
<1>11. CASE BackoffEnds
  <2>1. /\ caller = "backoff" /\ now >= due /\ attempt' = attempt + 1 /\ caller' = "loop"
        /\ UNCHANGED <<due, now>>
    BY <1>11 DEF BackoffEnds
  <2>2. Before(attempt') = C
    BY <2>1 DEF C
  <2>3. now <= C
    <3>1. C \in Nat
      BY <1>2, <2>1 DEF RouteInv
    <3> QED BY <1>1, <1>4, <2>1, <3>1
  <2> QED BY <1>1, <2>1, <2>2, <2>3 DEF TimeInv
<1>12. CASE BackoffCanceled
  <2>1. caller = "backoff" /\ caller' = "returned" /\ UNCHANGED <<attempt, due, now>>
    BY <1>12 DEF BackoffCanceled, Return
  <2>2. attempt < MaxAttempts /\ C \in Nat
    BY <1>2, <2>1 DEF RouteInv
  <2>3. now <= C
    BY <1>1, <1>4, <2>1, <2>2
  <2> QED BY <1>1, <1>3, <2>1, <2>2, <2>3 DEF TimeInv
<1>13. CASE Tick
  <2>1. /\ caller \in {"select", "backoff"} /\ now < due /\ now' = now + 1
        /\ UNCHANGED <<caller, attempt, due>>
    BY <1>13 DEF Tick
  <2>2. now' \in Nat /\ now' <= due
    BY <1>1, <2>1
  <2> QED BY <1>1, <1>3, <1>4, <2>1, <2>2 DEF TimeInv, B, C, T
<1>14. CASE Disconnect \/ FailNext \/ SetAutofill \/ OtherFill \/ OtherCancel
  BY <1>5, <1>14 DEF Disconnect, FailNext, SetAutofill, OtherFill, OtherCancel, callerVars
<1>15. ASSUME NEW n \in Attempts, Route(n) \/ AutoFill(n) \/ AutoFillConflict(n)
       PROVE  TimeInv'
  BY <1>5, <1>15 DEF Route, AutoFill, AutoFillConflict, callerVars
<1>16. CASE UNCHANGED vars
  BY <1>5, <1>16 DEF vars, callerVars
<1> QED BY <1>7, <1>9, <1>10, <1>11, <1>12, <1>13, <1>14, <1>15, <1>16 DEF Next, Caller

(* route holds its request no longer than MaxAttempts timeouts and the     *)
(* capped delays between them add up to, whatever the venue does, for any  *)
(* retry policy.                                                           *)
THEOREM BudgetKept == Spec => []WithinBudget
<1>1. RouteInv /\ TimeInv => WithinBudget
  <2> SUFFICES ASSUME RouteInv, TimeInv PROVE WithinBudget
    OBVIOUS
  <2> DEFINE all == MaxAttempts * RouteTimeout + Delays[MaxAttempts - 1]
             B == Before(attempt)
             C == Before(attempt + 1)
             T == RouteTimeout
  <2>1. attempt \in Attempts /\ now \in Nat /\ due \in Nat /\ T \in Nat
    BY RoutingAssumption DEF RouteInv, TimeInv
  <2>2. /\ all \in Nat /\ B \in Nat /\ B + T <= all
        /\ attempt < MaxAttempts => C \in Nat /\ C <= all
    BY <2>1, BeforeFacts
  <2>3. \/ now <= B
        \/ now <= due /\ due <= B + T
        \/ attempt < MaxAttempts /\ now <= due /\ due <= C
        \/ now <= B + T
        \/ attempt < MaxAttempts /\ now <= C
    BY DEF RouteInv, TimeInv
  <2>4. now <= all
    <3> HIDE DEF all, B, C, T
    <3> QED BY <2>1, <2>2, <2>3
  <2> QED BY <2>4 DEF WithinBudget
<1>2. Init => RouteInv /\ TimeInv
  BY InitRoute, InitTime
<1>3. (RouteInv /\ TimeInv) /\ [Next]_vars => (RouteInv /\ TimeInv)'
  BY NextRoute, NextTime
<1> QED BY <1>1, <1>2, <1>3, PTL DEF Spec

(* What is left of the type: the context, the venue and the result. *)
RestOK ==
  /\ canceled \in BOOLEAN
  /\ result \in {"none", "ok", "error", "deadline", "canceled"}
  /\ failCount \in 0 .. MaxFailures
  /\ autofill \in BOOLEAN

LEMMA NextRest == RestOK /\ [Next]_vars => RestOK'
<1> SUFFICES ASSUME RestOK, [Next]_vars PROVE RestOK'
  OBVIOUS
<1>1. CASE StartAttempt
  BY <1>1 DEF StartAttempt, Return, venueVars, RestOK
<1>2. CASE Outcome \/ Deadline
  <2>1. result' \in {result, "ok", "error", "deadline"}
    BY <1>2 DEF Outcome, Deadline, RetryAfter, Return
  <2> QED BY <1>2, <2>1 DEF Outcome, Deadline, venueVars, RestOK
<1>3. CASE BackoffEnds \/ BackoffCanceled \/ Tick
  BY <1>3 DEF BackoffEnds, BackoffCanceled, Tick, Return, venueVars, RestOK
<1>4. CASE Disconnect
  BY <1>4 DEF Disconnect, callerVars, venueVars, RestOK
<1>5. ASSUME NEW n \in Attempts, Route(n) PROVE RestOK'
  BY <1>5, RoutingAssumption DEF Route, callerVars, RestOK
<1>6. ASSUME NEW n \in Attempts, AutoFill(n) \/ AutoFillConflict(n) PROVE RestOK'
  BY <1>6 DEF AutoFill, AutoFillConflict, callerVars, venueVars, RestOK
<1>7. CASE FailNext
  BY <1>7 DEF FailNext, callerVars, RestOK
<1>8. CASE SetAutofill
  BY <1>8 DEF SetAutofill, callerVars, RestOK
<1>9. CASE OtherFill \/ OtherCancel
  BY <1>9 DEF OtherFill, OtherCancel, callerVars, venueVars, RestOK
<1>10. CASE UNCHANGED vars
  BY <1>10 DEF vars, callerVars, venueVars, RestOK
<1> QED BY <1>1, <1>2, <1>3, <1>4, <1>5, <1>6, <1>7, <1>8, <1>9, <1>10 DEF Next, Caller

(* Every variable keeps its type: Retry never counts beyond MaxAttempts,   *)
(* and the venue's failure counter never turns negative.                   *)
THEOREM TypeCorrect == Spec => []TypeOK
<1> DEFINE Inv == OrderInv /\ RouteInv /\ TimeInv /\ RestOK
<1>1. Inv => TypeOK
  <2> SUFFICES ASSUME Inv PROVE TypeOK
    OBVIOUS
  <2>1. routed \in Nat
    <3>1. IsFiniteSet(Copies)
      BY AttemptsFacts, FS_Subset DEF Copies
    <3> QED BY <3>1, FS_CardinalityType DEF RouteInv
  <2> QED BY <2>1 DEF OrderInv, RouteInv, TimeInv, RestOK, TypeOK, OpStates
<1>2. Init => Inv
  <2>1. Init => RestOK
    <3>1. 0 \in 0 .. MaxFailures
      BY RoutingAssumption
    <3>2. Init => failCount = 0 /\ result = "none" /\ canceled = FALSE /\ autofill = FALSE
      BY DEF Init
    <3> QED BY <3>1, <3>2 DEF RestOK
  <2> QED BY <2>1, InitOrder, InitRoute, InitTime
<1>3. Inv /\ [Next]_vars => Inv'
  BY NextOrder, NextRoute, NextTime, NextRest
<1> QED BY <1>1, <1>2, <1>3, PTL DEF Spec
=============================================================================
