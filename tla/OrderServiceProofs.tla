------------------------- MODULE OrderServiceProofs -------------------------
(***************************************************************************)
(* Proofs about the concurrent write path, for every number of requests,   *)
(* orders and keys, every channel capacity and every fill discipline.      *)
(***************************************************************************)
EXTENDS OrderService, OrderProofs

Recs  == OrderRecords(Ids, Terms)
Snaps == OrderSnapshots(Ids, Terms)

(***************************************************************************)
(* The inductive invariant.                                                *)
(***************************************************************************)
(* What a request at label l with command c, local order o and version v   *)
(* may rely on when the store is st.  The last conjunct is what optimistic *)
(* concurrency rests on: the version the request read is never ahead of    *)
(* the store, and while it is still the stored one, the local copy is the  *)
(* command applied to what is stored.                                      *)
RequestOK(st, l, c, o, v) ==
  /\ l \in {"lookup", "risk", "save", "register"} => c \in PlaceCmds
  /\ l = "register" => c.key \in Keys /\ st[o.id] # Nil
  /\ l \in {"get", "update"} => c \in Ops
  /\ l \in {"risk", "save", "register", "publish", "route", "update"} => o \in Recs
  /\ l \in {"save", "update"} => FillsMatchStatus(o)
  /\ l \in {"save", "register", "publish", "update"} => Len(o.events) > 0
  /\ l = "risk" => \E t \in Terms : ValidTerms(t) /\ o = NewOrder(o.id, t)
  /\ l = "save" => Snapshot(o) \in NewSnapshots(o.id)
  /\ l = "update" =>
       /\ o.id = c.id
       /\ st[o.id] # Nil
       /\ v <= st[o.id].version
       /\ v = st[o.id].version =>
            /\ Permits(RehydrateOrder(st[o.id]), c)
            /\ o = Performed(RehydrateOrder(st[o.id]), c)

(* A stored order is stored under its own id and its status tells how much *)
(* is filled.                                                              *)
StoreOK(st) ==
  \A id \in Ids : st[id] # Nil => st[id].id = id /\ FillsMatchStatus(st[id])

IInv ==
  /\ TypeOK
  /\ StoreOK(orders)
  /\ IdemPointsToStored
  /\ \A r \in Requests : RequestOK(orders, pc[r], cmd[r], order[r], expected[r])

(* How the store may change under a request: an order appears, or its      *)
(* version grows.                                                          *)
Grows(st, st2) ==
  \A id \in Ids : \/ st2[id] = st[id]
                  \/ st[id] = Nil /\ st2[id] # Nil
                  \/ /\ st[id] # Nil /\ st2[id] # Nil
                     /\ st[id].version < st2[id].version

(***************************************************************************)
(* Lemmas.                                                                 *)
(***************************************************************************)
(* A command that succeeds on a stored order gives a well typed order one  *)
(* version further, with its event buffered.                               *)
LEMMA PerformedFacts ==
  ASSUME NEW s \in Snaps, FillsMatchStatus(s), NEW c \in Ops,
         Permits(RehydrateOrder(s), c)
  PROVE  LET p == Performed(RehydrateOrder(s), c)
         IN  /\ p \in Recs
             /\ p.id = s.id
             /\ p.version = s.version + 1
             /\ FillsMatchStatus(p)
             /\ Len(p.events) > 0
<1> DEFINE o == RehydrateOrder(s)
           p == Performed(o, c)
<1>1. /\ o \in Recs /\ o.id = s.id /\ o.version = s.version /\ o.events = <<>>
      /\ FillsMatchStatus(o)
  BY RehydrateFacts DEF Recs, Snaps
<1>2. Terms \subseteq TermRecords
  BY ServiceAssumption
<1>3. /\ o.status \in Statuses /\ o.filledQty \in Int /\ o.terms.quantity \in Int
      /\ o.version \in Nat
  BY <1>1, <1>2, OrderFields, Int64Facts DEF Recs
<1> HIDE DEF o
<1>4. CASE c \in FillCmds
  <2>1. c.op = "fill" /\ c.qty \in Int64 /\ c.px \in Int64
    BY <1>4, ServiceAssumption DEF FillCmds
  <2>2. CanFill(o, c.qty, c.px) /\ p = Fill(o, c.qty, c.px)
    BY <2>1 DEF Permits, Performed, o
  <2>3. /\ p \in Recs /\ p.id = o.id /\ p.terms = o.terms
        /\ p.filledQty \in 1 .. o.terms.quantity
        /\ p.status = IF p.filledQty = o.terms.quantity
                      THEN "FILLED" ELSE "PARTIALLY_FILLED"
        /\ p.version = o.version + 1
        /\ \E e \in Events(Ids, Terms) : p.events = Append(o.events, e)
    BY <1>1, <1>2, <2>1, <2>2, FillMethod DEF Recs
  <2> HIDE DEF p
  <2>4. Len(p.events) > 0
    BY <1>1, <2>3, AppendLength
  <2>5. FillsMatchStatus(p)
    BY <1>3, <2>3 DEF FillsMatchStatus
  <2> QED BY <1>1, <2>3, <2>4, <2>5 DEF p, o
<1>5. CASE c \in CancelCmds
  <2>1. c.op = "cancel"
    BY <1>5 DEF CancelCmds
  <2>2. canTransitionTo(o.status, "CANCELED") /\ p = Cancel(o)
    BY <2>1 DEF Permits, Performed, CanCancel, o
  <2>3. /\ p \in Recs /\ p.id = o.id /\ p.terms = o.terms
        /\ p.filledQty = o.filledQty
        /\ p.status = "CANCELED"
        /\ p.version = o.version + 1
        /\ p.events = Append(o.events, StatusEvent("OrderCanceled", o.id))
    BY <1>1, <1>2, <2>2, StatusMethod DEF Recs, Cancel, PlainEventNames, Statuses
  <2>4. o.status \in {"ACCEPTED", "PARTIALLY_FILLED"}
    BY <1>3, <2>2, WorkingStatus DEF Statuses
  <2> HIDE DEF p
  <2>5. Len(p.events) > 0
    BY <1>1, <2>3
  <2>6. FillsMatchStatus(p)
    BY <1>1, <1>3, <2>3, <2>4 DEF FillsMatchStatus
  <2> QED BY <1>1, <2>3, <2>5, <2>6 DEF p, o
<1> QED BY <1>4, <1>5 DEF Ops

(* A decided order: typed, a state an order may be created in. *)
LEMMA DecidedFacts ==
  ASSUME NEW id \in Ids, NEW t \in Terms, ValidTerms(t),
         NEW o \in {Accept(NewOrder(id, t)), Reject(NewOrder(id, t))}
  PROVE  /\ o \in Recs /\ o.id = id
         /\ FillsMatchStatus(o)
         /\ Len(o.events) > 0
         /\ Snapshot(o) \in NewSnapshots(id)
<1> DEFINE n == NewOrder(id, t)
<1>1. Terms \subseteq TermRecords
  BY ServiceAssumption
<1>3. Snapshot(o) \in NewSnapshots(id)
  BY DEF NewSnapshots
<1>2. /\ n \in Recs /\ n.id = id /\ n.status = "NEW" /\ FillsMatchStatus(n)
      /\ n.events \in Seq(Events(Ids, Terms))
      /\ n.terms.quantity \in Int /\ n.filledQty \in Int
  <2>1. n \in Recs /\ n.id = id /\ n.status = "NEW" /\ FillsMatchStatus(n)
    BY <1>1, NewOrderFacts DEF Recs
  <2> HIDE DEF n
  <2> QED BY <1>1, <2>1, OrderFields, Int64Facts DEF Recs
<1> HIDE DEF n
<1>4. canTransitionTo(n.status, "ACCEPTED") /\ canTransitionTo(n.status, "REJECTED")
  BY <1>2 DEF canTransitionTo, legalTransitions, Statuses
<1>5. ASSUME NEW to \in {"ACCEPTED", "REJECTED"},
             NEW nm \in {"OrderAccepted", "OrderRejected"},
             o = raise(Transition(n, to), StatusEvent(nm, n.id))
      PROVE  o \in Recs /\ o.id = id /\ FillsMatchStatus(o) /\ Len(o.events) > 0
  <2>1. /\ o \in Recs /\ o.id = n.id /\ o.terms = n.terms
        /\ o.filledQty = n.filledQty /\ o.status = to
        /\ o.events = Append(n.events, StatusEvent(nm, n.id))
    BY <1>1, <1>2, <1>4, <1>5, StatusMethod DEF Recs, PlainEventNames, Statuses
  <2>2. Len(o.events) > 0
    BY <1>2, <2>1
  <2>3. FillsMatchStatus(o)
    BY <1>2, <2>1 DEF FillsMatchStatus
  <2> QED BY <1>2, <2>1, <2>2, <2>3
<1>6. o = Accept(n) \/ o = Reject(n)
  BY DEF n
<1> QED BY <1>3, <1>5, <1>6 DEF Accept, Reject

(* Whatever another request does to the store, a request keeps what it     *)
(* relies on.                                                              *)
LEMMA RequestStable ==
  ASSUME NEW st \in [Ids -> Snaps \union {Nil}],
         NEW st2 \in [Ids -> Snaps \union {Nil}], Grows(st, st2),
         NEW l, NEW c, NEW o, NEW v \in Nat, RequestOK(st, l, c, o, v)
  PROVE  RequestOK(st2, l, c, o, v)
<1>1. CASE l = "register"
  <2>1. o.id \in Ids /\ st[o.id] # Nil
    BY <1>1 DEF RequestOK, Recs, OrderRecords
  <2>2. st2[o.id] # Nil
    BY <2>1 DEF Grows
  <2> QED BY <1>1, <2>2 DEF RequestOK
<1>2. CASE l = "update"
  <2>1. o.id \in Ids /\ st[o.id] # Nil /\ v <= st[o.id].version
    BY <1>2 DEF RequestOK, Recs, OrderRecords
  <2>2. CASE st2[o.id] = st[o.id]
    BY <1>2, <2>2 DEF RequestOK
  <2>3. CASE st2[o.id] # st[o.id]
    <3>1. st2[o.id] # Nil /\ st[o.id].version < st2[o.id].version
      BY <2>1, <2>3 DEF Grows
    <3>2. st[o.id].version \in Nat /\ st2[o.id].version \in Nat
      BY <2>1, <3>1 DEF Snaps, OrderSnapshots
    <3>3. v <= st2[o.id].version /\ v # st2[o.id].version
      BY <2>1, <3>1, <3>2
    <3> QED BY <1>2, <3>1, <3>3 DEF RequestOK
  <2> QED BY <2>2, <2>3
<1>3. CASE l \notin {"register", "update"}
  BY <1>3 DEF RequestOK
<1> QED BY <1>1, <1>2, <1>3

(***************************************************************************)
(* Induction.                                                              *)
(***************************************************************************)
SharedOK ==
  /\ orders \in [Ids -> Snaps \union {Nil}]
  /\ idem \in [Keys -> Ids \union {Nil}]
  /\ routed \subseteq Ids
  /\ queue \in Seq(Events(Ids, Terms)) /\ Len(queue) <= BufferSize
  /\ meta \in [Ids -> Terms \union {Nil}]
  /\ byAccount \in [Holdings -> [netQty : Int64, totalCost : Int64, totalAbs : Int64]]
  /\ StoreOK(orders)
  /\ IdemPointsToStored

Cmds == PlaceCmds \union FillCmds \union CancelCmds

(* A step of request r: the shared state stays well formed, the store only *)
(* grows, and r's new local state is what RequestOK asks for.              *)
LEMMA StepOf ==
  ASSUME IInv, SharedOK', Grows(orders, orders'),
         NEW r \in Requests, NEW l \in Labels, NEW c \in Cmds \union {Nil},
         NEW o \in Recs \union {Nil}, NEW v \in Nat,
         pc' = [pc EXCEPT ![r] = l], cmd' = [cmd EXCEPT ![r] = c],
         order' = [order EXCEPT ![r] = o], expected' = [expected EXCEPT ![r] = v],
         RequestOK(orders', l, c, o, v)
  PROVE  IInv'
<1>1. TypeOK'
  BY DEF IInv, TypeOK, SharedOK, Cmds, Recs, Snaps
<1>2. ASSUME NEW q \in Requests
      PROVE  RequestOK(orders', pc'[q], cmd'[q], order'[q], expected'[q])
  <2>1. CASE q = r
    BY <2>1 DEF IInv, TypeOK
  <2>2. CASE q # r
    <3>1. /\ pc'[q] = pc[q] /\ cmd'[q] = cmd[q] /\ order'[q] = order[q]
          /\ expected'[q] = expected[q] /\ expected[q] \in Nat
      BY <2>2 DEF IInv, TypeOK
    <3>2. /\ orders \in [Ids -> Snaps \union {Nil}]
          /\ orders' \in [Ids -> Snaps \union {Nil}]
      BY DEF IInv, TypeOK, SharedOK, Snaps
    <3>3. RequestOK(orders, pc[q], cmd[q], order[q], expected[q])
      BY DEF IInv
    <3>4. RequestOK(orders', pc[q], cmd[q], order[q], expected[q])
      BY <3>1, <3>2, <3>3, RequestStable
    <3> QED BY <3>1, <3>4
  <2> QED BY <2>1, <2>2
<1> QED BY <1>1, <1>2 DEF IInv, SharedOK

(* The invariant without the requests' local state. *)
LEMMA SharedFromInv == IInv => SharedOK
BY DEF IInv, SharedOK, TypeOK, Snaps

(* A step that leaves the shared state alone keeps it well formed. *)
LEMMA QuietShared ==
  ASSUME SharedOK, UNCHANGED <<repo, routed, queue, readModel>>
  PROVE  SharedOK' /\ Grows(orders, orders')
BY DEF SharedOK, IdemPointsToStored, Grows, repo, readModel

(* A command that returns without touching the shared state. *)
LEMMA QuietReturn ==
  ASSUME IInv, NEW r \in Requests, Return(r),
         UNCHANGED <<repo, routed, queue, readModel>>
  PROVE  IInv'
<1>1. SharedOK' /\ Grows(orders, orders')
  BY SharedFromInv, QuietShared
<1>2. RequestOK(orders', "idle", Nil, Nil, 0)
  BY DEF RequestOK
<1> QED BY <1>1, <1>2, StepOf DEF Return, Labels

(* What is known of request r's local state, and that a variable a step    *)
(* leaves alone is its own update at r.                                    *)
LEMMA LocalFacts ==
  ASSUME IInv, NEW r \in Requests
  PROVE  /\ RequestOK(orders, pc[r], cmd[r], order[r], expected[r])
         /\ pc[r] \in Labels /\ cmd[r] \in Cmds \union {Nil}
         /\ order[r] \in Recs \union {Nil} /\ expected[r] \in Nat
         /\ pc = [pc EXCEPT ![r] = pc[r]]
         /\ cmd = [cmd EXCEPT ![r] = cmd[r]]
         /\ order = [order EXCEPT ![r] = order[r]]
         /\ expected = [expected EXCEPT ![r] = expected[r]]
BY DEF IInv, TypeOK, Cmds, Recs

(* A command that begins. *)
LEMMA BeginInv ==
  ASSUME IInv, NEW r \in Requests, Begin(r)
  PROVE  IInv'
<1>1. SharedOK' /\ Grows(orders, orders')
  BY SharedFromInv, QuietShared DEF Begin, BeginPlace, BeginFill, BeginCancel
<1>2. CASE BeginPlace(r)
  <2>1. PICK c \in PlaceCmds : cmd' = [cmd EXCEPT ![r] = c]
    BY <1>2 DEF BeginPlace
  <2>2. RequestOK(orders', "lookup", c, order[r], expected[r])
    BY DEF RequestOK
  <2>3. /\ pc' = [pc EXCEPT ![r] = "lookup"]
        /\ order' = [order EXCEPT ![r] = order[r]]
        /\ expected' = [expected EXCEPT ![r] = expected[r]]
    BY <1>2, LocalFacts DEF BeginPlace, Goto
  <2>4. /\ "lookup" \in Labels /\ c \in Cmds \union {Nil}
        /\ order[r] \in Recs \union {Nil} /\ expected[r] \in Nat
    BY LocalFacts DEF Labels, Cmds
  <2> QED BY <1>1, <2>1, <2>2, <2>3, <2>4, StepOf
<1>3. CASE BeginFill(r) \/ BeginCancel(r)
  <2>1. PICK c \in Ops : cmd' = [cmd EXCEPT ![r] = c]
    BY <1>3 DEF BeginFill, BeginCancel, Ops
  <2>2. RequestOK(orders', "get", c, order[r], expected[r])
    BY <2>1 DEF RequestOK
  <2>3. /\ pc' = [pc EXCEPT ![r] = "get"]
        /\ order' = [order EXCEPT ![r] = order[r]]
        /\ expected' = [expected EXCEPT ![r] = expected[r]]
    BY <1>3, LocalFacts DEF BeginFill, BeginCancel, Goto
  <2>4. /\ "get" \in Labels /\ c \in Cmds \union {Nil}
        /\ order[r] \in Recs \union {Nil} /\ expected[r] \in Nat
    BY <2>1, LocalFacts DEF Labels, Cmds, Ops
  <2> QED BY <1>1, <2>1, <2>2, <2>3, <2>4, StepOf
<1> QED BY <1>2, <1>3 DEF Begin

(* The commands that fail, and the one that finds its key, just return. *)
LEMMA ReturnsInv ==
  ASSUME IInv, NEW r \in Requests,
         PlaceReplay(r) \/ BuildFails(r) \/ LoadFails(r) \/ UpdateFails(r)
  PROVE  IInv'
BY QuietReturn DEF PlaceReplay, BuildFails, LoadFails, UpdateFails

(* A new order gets an id, nothing is stored yet. *)
LEMMA PlaceBuildInv ==
  ASSUME IInv, NEW r \in Requests, PlaceBuild(r)
  PROVE  IInv'
<1>1. SharedOK' /\ Grows(orders, orders') /\ orders' = orders
  BY SharedFromInv, QuietShared DEF PlaceBuild, repo
<1>2. PICK id \in Ids : order' = [order EXCEPT ![r] = NewOrder(id, cmd[r].terms)]
  BY DEF PlaceBuild, FreshIds
<1> DEFINE t == cmd[r].terms
           o == NewOrder(id, t)
<1>3. cmd[r] \in PlaceCmds /\ t \in Terms /\ ValidTerms(t)
  BY LocalFacts DEF RequestOK, PlaceBuild, PlaceCmds
<1>4. o \in Recs /\ o.id = id
  BY <1>3, NewOrderFacts, ServiceAssumption DEF Recs
<1> HIDE DEF o
<1>5. RequestOK(orders', "risk", cmd[r], o, expected[r])
  BY <1>3, <1>4 DEF RequestOK, o
<1>6. /\ pc' = [pc EXCEPT ![r] = "risk"] /\ order' = [order EXCEPT ![r] = o]
      /\ cmd' = [cmd EXCEPT ![r] = cmd[r]]
      /\ expected' = [expected EXCEPT ![r] = expected[r]]
  BY <1>2, LocalFacts DEF PlaceBuild, Goto, o
<1>7. /\ "risk" \in Labels /\ cmd[r] \in Cmds \union {Nil}
      /\ o \in Recs \union {Nil} /\ expected[r] \in Nat
  BY <1>4, LocalFacts DEF Labels
<1> QED BY <1>1, <1>5, <1>6, <1>7, StepOf

(* The verdict makes the new order one that may be stored. *)
LEMMA RiskInv ==
  ASSUME IInv, NEW r \in Requests, RiskDecide(r)
  PROVE  IInv'
<1>1. SharedOK' /\ Grows(orders, orders') /\ orders' = orders
  BY SharedFromInv, QuietShared DEF RiskDecide, repo
<1>2. PICK o \in {Accept(order[r]), Reject(order[r])} :
        order' = [order EXCEPT ![r] = o]
  BY LocalFacts DEF RiskDecide, IInv, TypeOK
<1>3. PICK t \in Terms : ValidTerms(t) /\ order[r] = NewOrder(order[r].id, t)
  BY LocalFacts DEF RequestOK, RiskDecide
<1>4. order[r].id \in Ids /\ cmd[r] \in PlaceCmds
  BY LocalFacts DEF RequestOK, RiskDecide, Recs, OrderRecords
<1>5. /\ o \in Recs /\ o.id = order[r].id /\ FillsMatchStatus(o)
      /\ Len(o.events) > 0 /\ Snapshot(o) \in NewSnapshots(o.id)
  BY <1>3, <1>4, DecidedFacts
<1>6. RequestOK(orders', "save", cmd[r], o, expected[r])
  BY <1>4, <1>5 DEF RequestOK
<1>7. /\ pc' = [pc EXCEPT ![r] = "save"]
      /\ cmd' = [cmd EXCEPT ![r] = cmd[r]]
      /\ expected' = [expected EXCEPT ![r] = expected[r]]
  BY LocalFacts DEF RiskDecide, Goto
<1>8. /\ "save" \in Labels /\ cmd[r] \in Cmds \union {Nil}
      /\ o \in Recs \union {Nil} /\ expected[r] \in Nat
  BY <1>5, LocalFacts DEF Labels
<1> QED BY <1>1, <1>2, <1>6, <1>7, <1>8, StepOf

(* The new order is stored under an id nothing is stored under. *)
LEMMA SaveInv ==
  ASSUME IInv, NEW r \in Requests, SaveShard(r)
  PROVE  IInv'
<1>1. /\ order[r] \in Recs /\ order[r].id \in Ids /\ FillsMatchStatus(order[r])
      /\ Len(order[r].events) > 0 /\ cmd[r] \in PlaceCmds
      /\ expected[r] \in Nat
  BY LocalFacts DEF RequestOK, SaveShard, Recs, OrderRecords
<1> DEFINE id == order[r].id
           s  == Snapshot(order[r])
<1>2. CASE orders[id] # Nil
  BY <1>2, QuietReturn DEF SaveShard, repo
<1>3. CASE orders[id] = Nil
  <2>1. s \in Snaps /\ s.id = id /\ FillsMatchStatus(s) /\ s # Nil
    BY <1>1, SnapshotFacts, ServiceAssumption DEF Recs, Snaps
  <2>2. orders' = [orders EXCEPT ![id] = s] /\ UNCHANGED <<idem, routed, queue, readModel>>
    BY <1>3 DEF SaveShard
  <2>3. SharedOK
    BY SharedFromInv
  <2> HIDE DEF s, id
  <2>4. SharedOK' /\ Grows(orders, orders') /\ orders'[id] # Nil
    <3>1. id \in Ids
      BY <1>1 DEF id
    <3>2. orders' \in [Ids -> Snaps \union {Nil}] /\ StoreOK(orders')
      BY <2>1, <2>2, <2>3, <3>1 DEF SharedOK, StoreOK
    <3>3. IdemPointsToStored'
      BY <1>3, <2>1, <2>2, <2>3, <3>1 DEF SharedOK, IdemPointsToStored
    <3>4. Grows(orders, orders') /\ orders'[id] # Nil
      BY <1>3, <2>1, <2>2, <2>3, <3>1 DEF SharedOK, Grows
    <3> QED BY <2>2, <2>3, <3>2, <3>3, <3>4 DEF SharedOK, readModel
  <2> DEFINE l == IF cmd[r].key = NoKey THEN "publish" ELSE "register"
  <2>5. RequestOK(orders', l, cmd[r], order[r], expected[r])
    <3>1. l = "register" => cmd[r].key \in Keys /\ orders'[order[r].id] # Nil
      BY <1>1, <2>4 DEF PlaceCmds, id
    <3>2. l \in {"publish", "register"}
      OBVIOUS
    <3> HIDE DEF l
    <3> QED BY <1>1, <3>1, <3>2 DEF RequestOK
  <2>6. /\ pc' = [pc EXCEPT ![r] = l]
        /\ cmd' = [cmd EXCEPT ![r] = cmd[r]]
        /\ order' = [order EXCEPT ![r] = order[r]]
        /\ expected' = [expected EXCEPT ![r] = expected[r]]
    BY <1>3, LocalFacts DEF SaveShard, Goto, id
  <2>7. l \in Labels /\ cmd[r] \in Cmds \union {Nil} /\ order[r] \in Recs \union {Nil}
    BY <1>1 DEF Labels, Cmds
  <2> HIDE DEF l
  <2> QED BY <1>1, <2>4, <2>5, <2>6, <2>7, StepOf
<1> QED BY <1>2, <1>3

(* The key is registered for an order that is stored by then. *)
LEMMA RegisterInv ==
  ASSUME IInv, NEW r \in Requests, RegisterKey(r)
  PROVE  IInv'
<1>1. /\ order[r] \in Recs /\ order[r].id \in Ids /\ Len(order[r].events) > 0
      /\ cmd[r] \in PlaceCmds /\ cmd[r].key \in Keys
      /\ orders[order[r].id] # Nil /\ expected[r] \in Nat
  BY LocalFacts DEF RequestOK, RegisterKey, Recs, OrderRecords
<1>2. SharedOK
  BY SharedFromInv
<1>3. SharedOK' /\ Grows(orders, orders')
  <2>1. idem' \in [Keys -> Ids \union {Nil}]
    BY <1>1, <1>2 DEF RegisterKey, SharedOK
  <2>2. IdemPointsToStored'
    BY <1>1, <1>2 DEF RegisterKey, SharedOK, IdemPointsToStored
  <2> QED BY <1>2, <2>1, <2>2 DEF RegisterKey, SharedOK, Grows, readModel
<1>4. RequestOK(orders', "publish", cmd[r], order[r], expected[r])
  BY <1>1 DEF RequestOK
<1>5. /\ pc' = [pc EXCEPT ![r] = "publish"]
      /\ cmd' = [cmd EXCEPT ![r] = cmd[r]]
      /\ order' = [order EXCEPT ![r] = order[r]]
      /\ expected' = [expected EXCEPT ![r] = expected[r]]
  BY LocalFacts DEF RegisterKey, Goto
<1>6. /\ "publish" \in Labels /\ cmd[r] \in Cmds \union {Nil}
      /\ order[r] \in Recs \union {Nil}
  BY <1>1 DEF Labels, Cmds
<1> QED BY <1>1, <1>3, <1>4, <1>5, <1>6, StepOf

(* The venue is given an order that is stored and published. *)
LEMMA RouteInv ==
  ASSUME IInv, NEW r \in Requests, Route(r)
  PROVE  IInv'
<1>1. order[r].id \in Ids
  BY LocalFacts DEF RequestOK, Route, Recs, OrderRecords
<1>2. SharedOK' /\ Grows(orders, orders')
  BY <1>1, SharedFromInv DEF Route, SharedOK, IdemPointsToStored, Grows, repo, readModel
<1>3. RequestOK(orders', "idle", Nil, Nil, 0)
  BY DEF RequestOK
<1>4. /\ pc' = [pc EXCEPT ![r] = "idle"] /\ cmd' = [cmd EXCEPT ![r] = Nil]
      /\ order' = [order EXCEPT ![r] = Nil] /\ expected' = [expected EXCEPT ![r] = 0]
  BY DEF Route, Return
<1>5. "idle" \in Labels
  BY DEF Labels
<1> QED BY <1>2, <1>3, <1>4, <1>5, StepOf

(* A loaded copy is the command applied to what is stored at that moment. *)
LEMMA LoadInv ==
  ASSUME IInv, NEW r \in Requests, Load(r)
  PROVE  IInv'
<1> DEFINE s == orders[cmd[r].id]
           o == Performed(RehydrateOrder(s), cmd[r])
<1>1. SharedOK' /\ Grows(orders, orders') /\ orders' = orders /\ SharedOK
  BY SharedFromInv, QuietShared DEF Load, repo
<1>2. cmd[r] \in Ops /\ cmd[r].id \in Ids
  BY LocalFacts DEF RequestOK, Load, Ops, FillCmds, CancelCmds
<1>3. /\ s \in Snaps /\ s.id = cmd[r].id /\ FillsMatchStatus(s) /\ s # Nil
      /\ Permits(RehydrateOrder(s), cmd[r])
  BY <1>1, <1>2 DEF Load, SharedOK, StoreOK
<1>4. /\ o \in Recs /\ o.id = s.id /\ FillsMatchStatus(o) /\ Len(o.events) > 0
  BY <1>2, <1>3, PerformedFacts
<1>5. RehydrateOrder(s).version = s.version /\ s.version \in Nat
  <2>1. RehydrateOrder(s).version = s.version
    BY <1>3, RehydrateFacts DEF Snaps
  <2>2. s.version \in Nat
    BY <1>3 DEF Snaps, OrderSnapshots
  <2> QED BY <2>1, <2>2
<1>6. /\ pc' = [pc EXCEPT ![r] = "update"]
      /\ cmd' = [cmd EXCEPT ![r] = cmd[r]]
      /\ order' = [order EXCEPT ![r] = o]
      /\ expected' = [expected EXCEPT ![r] = s.version]
  BY <1>5, LocalFacts DEF Load, Goto
<1>7. RequestOK(orders', "update", cmd[r], o, s.version)
  <2>1. orders'[o.id] = s /\ o.id = cmd[r].id
    BY <1>1, <1>3, <1>4
  <2>2. o = Performed(RehydrateOrder(s), cmd[r])
    OBVIOUS
  <2> HIDE DEF o, s
  <2> QED BY <1>2, <1>3, <1>4, <1>5, <2>1, <2>2 DEF RequestOK
<1>8. "update" \in Labels /\ cmd[r] \in Cmds \union {Nil}
  BY <1>2 DEF Labels, Cmds, Ops
<1> HIDE DEF o, s
<1> QED BY <1>1, <1>4, <1>5, <1>6, <1>7, <1>8, StepOf

(* What a request whose version still matches is about to store: exactly   *)
(* its command applied to the stored order, one version further.           *)
LEMMA MatchingUpdate ==
  ASSUME IInv, NEW r \in Requests, pc[r] = "update", VersionMatches(r)
  PROVE  LET id == order[r].id
         IN  /\ id \in Ids /\ cmd[r] \in Ops
             /\ orders[id] \in Snaps
             /\ Permits(RehydrateOrder(orders[id]), cmd[r])
             /\ order[r] = Performed(RehydrateOrder(orders[id]), cmd[r])
             /\ order[r].version = orders[id].version + 1
<1>1. SharedOK /\ RequestOK(orders, "update", cmd[r], order[r], expected[r])
  BY SharedFromInv, LocalFacts
<1>2. /\ order[r].id \in Ids /\ cmd[r] \in Ops /\ orders[order[r].id] # Nil
      /\ Permits(RehydrateOrder(orders[order[r].id]), cmd[r])
      /\ order[r] = Performed(RehydrateOrder(orders[order[r].id]), cmd[r])
  BY <1>1 DEF RequestOK, VersionMatches, Recs, OrderRecords
<1>3. orders[order[r].id] \in Snaps /\ FillsMatchStatus(orders[order[r].id])
  BY <1>1, <1>2 DEF SharedOK, StoreOK
<1>4. order[r].version = orders[order[r].id].version + 1
  BY <1>2, <1>3, PerformedFacts
<1> QED BY <1>2, <1>3, <1>4

(* An update moves the stored version forward: every other request that    *)
(* read the old version will find that out.                                *)
LEMMA UpdateInv ==
  ASSUME IInv, NEW r \in Requests, Update(r)
  PROVE  IInv'
<1> DEFINE id == order[r].id
           s  == Snapshot(order[r])
<1>1. /\ order[r] \in Recs /\ id \in Ids /\ FillsMatchStatus(order[r])
      /\ Len(order[r].events) > 0 /\ cmd[r] \in Ops /\ expected[r] \in Nat
  BY LocalFacts DEF RequestOK, Update, Recs, OrderRecords
<1>2. /\ s \in Snaps /\ s.id = id /\ s.version = order[r].version
      /\ FillsMatchStatus(s) /\ s # Nil
  BY <1>1, SnapshotFacts, ServiceAssumption DEF Recs, Snaps
<1>3. /\ orders' = [orders EXCEPT ![id] = s] /\ orders[id] # Nil
      /\ UNCHANGED <<idem, routed, queue, readModel>>
  BY DEF Update
<1>4. SharedOK
  BY SharedFromInv
<1>5. order[r].version = orders[id].version + 1 /\ orders[id].version \in Nat
  <2>1. order[r].version = orders[id].version + 1 /\ orders[id] \in Snaps
    BY MatchingUpdate DEF Update
  <2> QED BY <2>1 DEF Snaps, OrderSnapshots
<1> HIDE DEF s, id
<1>6. SharedOK' /\ Grows(orders, orders')
  <2>1. orders' \in [Ids -> Snaps \union {Nil}] /\ StoreOK(orders')
    BY <1>1, <1>2, <1>3, <1>4 DEF SharedOK, StoreOK
  <2>2. IdemPointsToStored'
    BY <1>1, <1>2, <1>3, <1>4 DEF SharedOK, IdemPointsToStored
  <2>3. orders[id].version < s.version
    BY <1>2, <1>5
  <2>4. Grows(orders, orders')
    BY <1>1, <1>2, <1>3, <1>4, <2>3 DEF SharedOK, Grows
  <2> QED BY <1>3, <1>4, <2>1, <2>2, <2>4 DEF SharedOK, readModel
<1>7. RequestOK(orders', "publish", cmd[r], order[r], expected[r])
  BY <1>1 DEF RequestOK
<1>8. /\ pc' = [pc EXCEPT ![r] = "publish"]
      /\ cmd' = [cmd EXCEPT ![r] = cmd[r]]
      /\ order' = [order EXCEPT ![r] = order[r]]
      /\ expected' = [expected EXCEPT ![r] = expected[r]]
  BY LocalFacts DEF Update, Goto
<1>9. /\ "publish" \in Labels /\ cmd[r] \in Cmds \union {Nil}
      /\ order[r] \in Recs \union {Nil}
  BY <1>1 DEF Labels, Cmds, Ops
<1> QED BY <1>1, <1>6, <1>7, <1>8, <1>9, StepOf

(* Publishing moves the events one by one into a channel with room. *)
LEMMA EnqueueInv ==
  ASSUME IInv, NEW r \in Requests, Enqueue(r)
  PROVE  IInv'
<1> DEFINE evs == order[r].events
<1>1. /\ order[r] \in Recs /\ evs \in Seq(Events(Ids, Terms)) /\ Len(evs) > 0
      /\ expected[r] \in Nat /\ cmd[r] \in Cmds \union {Nil}
  BY LocalFacts DEF RequestOK, Enqueue, Recs, OrderRecords
<1>2. SharedOK
  BY SharedFromInv
<1>3. SharedOK' /\ Grows(orders, orders')
  <2>1. Head(evs) \in Events(Ids, Terms)
    BY <1>1
  <2>2. queue' = Append(queue, Head(evs)) /\ Len(queue) < BufferSize
    BY DEF Enqueue, NextEvent, HasRoom
  <2>3. queue' \in Seq(Events(Ids, Terms)) /\ Len(queue') <= BufferSize
    BY <1>2, <2>1, <2>2, ServiceAssumption DEF SharedOK
  <2> QED BY <1>2, <2>3 DEF Enqueue, SharedOK, IdemPointsToStored, Grows, repo, readModel
<1>4. CASE Len(evs) > 1
  <2> DEFINE o == [order[r] EXCEPT !.events = Tail(evs)]
  <2>1. Tail(evs) \in Seq(Events(Ids, Terms)) /\ Len(Tail(evs)) > 0
    BY <1>1, <1>4
  <2>2. o \in Recs /\ o.events = Tail(evs)
    BY <1>1, <2>1 DEF Recs, OrderRecords
  <2>3. /\ pc' = [pc EXCEPT ![r] = "publish"]
        /\ cmd' = [cmd EXCEPT ![r] = cmd[r]]
        /\ order' = [order EXCEPT ![r] = o]
        /\ expected' = [expected EXCEPT ![r] = expected[r]]
    BY <1>4, LocalFacts DEF Enqueue
  <2>4. RequestOK(orders', "publish", cmd[r], o, expected[r])
    BY <2>1, <2>2 DEF RequestOK
  <2>5. "publish" \in Labels /\ o \in Recs \union {Nil}
    BY <2>2 DEF Labels
  <2> HIDE DEF o
  <2> QED BY <1>1, <1>3, <2>3, <2>4, <2>5, StepOf
<1>5. CASE Len(evs) <= 1 /\ order[r].status = "ACCEPTED"
  <2> DEFINE o == ClearEvents(order[r])
  <2>1. <<>> \in Seq(Events(Ids, Terms))
    OBVIOUS
  <2>2. o \in Recs
    BY <1>1, <2>1 DEF Recs, OrderRecords, ClearEvents
  <2>3. /\ pc' = [pc EXCEPT ![r] = "route"]
        /\ cmd' = [cmd EXCEPT ![r] = cmd[r]]
        /\ order' = [order EXCEPT ![r] = o]
        /\ expected' = [expected EXCEPT ![r] = expected[r]]
    BY <1>1, <1>5, LocalFacts DEF Enqueue, Goto
  <2>4. RequestOK(orders', "route", cmd[r], o, expected[r])
    BY <2>2 DEF RequestOK
  <2>5. "route" \in Labels /\ o \in Recs \union {Nil}
    BY <2>2 DEF Labels
  <2> HIDE DEF o
  <2> QED BY <1>1, <1>3, <2>3, <2>4, <2>5, StepOf
<1>6. CASE Len(evs) <= 1 /\ order[r].status # "ACCEPTED"
  <2>1. /\ pc' = [pc EXCEPT ![r] = "idle"] /\ cmd' = [cmd EXCEPT ![r] = Nil]
        /\ order' = [order EXCEPT ![r] = Nil] /\ expected' = [expected EXCEPT ![r] = 0]
    BY <1>1, <1>6 DEF Enqueue, Return
  <2>2. RequestOK(orders', "idle", Nil, Nil, 0)
    BY DEF RequestOK
  <2>3. "idle" \in Labels
    BY DEF Labels
  <2> QED BY <1>3, <2>1, <2>2, <2>3, StepOf
<1>7. Len(evs) \in Nat
  BY <1>1
<1> QED BY <1>4, <1>5, <1>6, <1>7

(* The unchecked sums of the read model wrap around but stay int64. *)
LEMMA ApplyFillType ==
  ASSUME SharedOK, NEW m \in Terms, NEW e \in Events(Ids, Terms), IsFillEvent(e)
  PROVE  applyFill(m, e) \in
           [Holdings -> [netQty : Int64, totalCost : Int64, totalAbs : Int64]]
<1>1. e.fillQty \in Int64 /\ e.fillPrice \in Int64
  BY DEF Events, IsFillEvent, PlainEventNames
<1> DEFINE h == <<m.account, m.symbol>>
           p == byAccount[h]
           n == MulQuantity(e.fillPrice, e.fillQty)
           net == Wrap(p.netQty + Signed(m.side, e.fillQty))
<1>2. h \in Holdings
  BY DEF Holdings
<1>3. p \in [netQty : Int64, totalCost : Int64, totalAbs : Int64]
  BY <1>2 DEF SharedOK
<1>4. p.netQty \in Int /\ p.totalCost \in Int /\ p.totalAbs \in Int
  BY <1>3, Int64Facts
<1>5. e.fillQty \in Int /\ Signed(m.side, e.fillQty) \in Int
  BY <1>1, Int64Facts DEF Signed
<1>6. net \in Int64 /\ Wrap(p.totalAbs + e.fillQty) \in Int64
  BY <1>4, <1>5, WrapType
<1>7. n.ok => Wrap(p.totalCost + n.val) \in Int64
  <2>1. n.ok => n.val \in Int64
    BY DEF MulQuantity, mulDivRound, Value, Overflow
  <2> QED BY <1>4, <2>1, Int64Facts, WrapType
<1> DEFINE q == IF n.ok
                THEN [netQty |-> net, totalCost |-> Wrap(p.totalCost + n.val),
                      totalAbs |-> Wrap(p.totalAbs + e.fillQty)]
                ELSE [p EXCEPT !.netQty = net]
<1>8. applyFill(m, e) = [byAccount EXCEPT ![h] = q]
  BY DEF applyFill
<1> HIDE DEF n, net, p, h
<1>9. q \in [netQty : Int64, totalCost : Int64, totalAbs : Int64]
  BY <1>3, <1>6, <1>7
<1> HIDE DEF q
<1> QED BY <1>8, <1>9 DEF SharedOK

(* The worker changes the read model and the channel, nothing else. *)
LEMMA ProjectInv ==
  ASSUME IInv, Project
  PROVE  IInv'
<1> DEFINE e == Head(queue)
<1>1. SharedOK /\ queue # <<>> /\ queue' = Tail(queue)
  BY SharedFromInv DEF Project, WorkerReady
<1>2. e \in Events(Ids, Terms) /\ queue' \in Seq(Events(Ids, Terms))
      /\ Len(queue') <= BufferSize
  BY <1>1, ServiceAssumption DEF SharedOK
<1>3. e.orderID \in Ids /\ (e.name = "OrderPlaced" => e.terms \in Terms)
  BY <1>2 DEF Events, PlainEventNames
<1>4. meta' \in [Ids -> Terms \union {Nil}]
  BY <1>1, <1>3 DEF Project, SharedOK
<1>5. byAccount' \in [Holdings -> [netQty : Int64, totalCost : Int64, totalAbs : Int64]]
  <2>1. CASE IsFillEvent(e) /\ meta[e.orderID] # Nil
    <3>1. meta[e.orderID] \in Terms /\ byAccount' = applyFill(meta[e.orderID], e)
      BY <1>1, <1>3, <2>1 DEF Project, SharedOK
    <3> QED BY <1>1, <1>2, <2>1, <3>1, ApplyFillType
  <2>2. CASE ~(IsFillEvent(e) /\ meta[e.orderID] # Nil)
    BY <1>1, <2>2 DEF Project, SharedOK
  <2> QED BY <2>1, <2>2
<1>6. UNCHANGED <<orders, idem, routed, pc, cmd, order, expected>>
  BY DEF Project, repo, local
<1>7. TypeOK'
  BY <1>2, <1>4, <1>5, <1>6 DEF IInv, TypeOK
<1> QED BY <1>6, <1>7 DEF IInv, IdemPointsToStored

(***************************************************************************)
(* The theorems.                                                           *)
(***************************************************************************)
(* Nothing is stored and no request runs at the start. *)
LEMMA InitInv == Init => IInv
<1> SUFFICES ASSUME Init PROVE IInv
  OBVIOUS
<1>1. 0 \in Int64
  BY Int64Facts
<1>2. \A r \in Requests : RequestOK(orders, pc[r], cmd[r], order[r], expected[r])
  BY DEF Init, RequestOK
<1>3. byAccount \in [Holdings -> [netQty : Int64, totalCost : Int64, totalAbs : Int64]]
  BY <1>1 DEF Init, EmptyPosition
<1>4. queue \in Seq(Events(Ids, Terms)) /\ Len(queue) <= BufferSize
  BY ServiceAssumption DEF Init
<1>5. TypeOK
  BY <1>3, <1>4 DEF Init, TypeOK, Labels
<1> QED BY <1>2, <1>5 DEF Init, IInv, StoreOK, IdemPointsToStored

(* Every step of every request and of the worker preserves the invariant. *)
LEMMA StepInv == IInv /\ [Next]_vars => IInv'
<1> SUFFICES ASSUME IInv, [Next]_vars PROVE IInv'
  OBVIOUS
<1>1. CASE Project
  BY <1>1, ProjectInv
<1>2. ASSUME NEW r \in Requests, Begin(r) PROVE IInv'
  BY <1>2, BeginInv
<1>3. ASSUME NEW r \in Requests, Step(r) PROVE IInv'
  BY <1>3, ReturnsInv, PlaceBuildInv, RiskInv, SaveInv, RegisterInv, EnqueueInv,
     RouteInv, LoadInv, UpdateInv DEF Step
<1>4. CASE UNCHANGED vars
  BY <1>4 DEF vars, IInv, TypeOK, IdemPointsToStored
<1> QED BY <1>1, <1>2, <1>3, <1>4 DEF Next

(* Every variable of the write path keeps its type, whatever the number of *)
(* requests and the capacity of the channel.                               *)
THEOREM TypeCorrect == Spec => []TypeOK
<1>1. IInv => TypeOK
  BY DEF IInv
<1> QED BY InitInv, StepInv, <1>1, PTL DEF Spec

(* A registered idempotency key always names a stored order, although Save *)
(* writes the two under different locks.                                   *)
THEOREM KeysPointToStored == Spec => []IdemPointsToStored
<1>1. IInv => IdemPointsToStored
  BY DEF IInv
<1> QED BY InitInv, StepInv, <1>1, PTL DEF Spec

(* No interleaving of fills and cancels overfills a stored order.          *)
THEOREM NeverOverfilled == Spec => []StoredOrdersConsistent
<1>1. IInv => StoredOrdersConsistent
  BY DEF IInv, StoreOK, StoredOrdersConsistent
<1> QED BY InitInv, StepInv, <1>1, PTL DEF Spec

(* A step of the service is one atomic step of the ledger or invisible to  *)
(* it: storing a new order creates it, an update whose version matches     *)
(* applies its command to the order as it is stored.                       *)
LEMMA StepRefines ==
  ASSUME IInv, [Next]_vars
  PROVE  [Ledger!Next]_orders
<1>1. CASE Project \/ UNCHANGED vars
  BY <1>1 DEF Project, repo, vars
<1>2. ASSUME NEW r \in Requests, Begin(r) PROVE UNCHANGED orders
  BY <1>2 DEF Begin, BeginPlace, BeginFill, BeginCancel, repo
<1>3. ASSUME NEW r \in Requests, Step(r) PROVE [Ledger!Next]_orders
  <2>1. CASE SaveShard(r)
    <3>1. /\ order[r].id \in Ids
          /\ Snapshot(order[r]) \in NewSnapshots(order[r].id)
      BY <2>1, LocalFacts DEF SaveShard, RequestOK, Recs, OrderRecords
    <3>2. CASE orders[order[r].id] = Nil
      <4>1. Ledger!Create(order[r].id)
        BY <2>1, <3>1, <3>2 DEF SaveShard, Ledger!Create
      <4> QED BY <3>1, <4>1 DEF Ledger!Next
    <3>3. CASE orders[order[r].id] # Nil
      BY <2>1, <3>3 DEF SaveShard
    <3> QED BY <3>2, <3>3
  <2>2. CASE Update(r)
    <3>1. /\ order[r].id \in Ids /\ cmd[r] \in Ops
          /\ Permits(RehydrateOrder(orders[order[r].id]), cmd[r])
          /\ order[r] = Performed(RehydrateOrder(orders[order[r].id]), cmd[r])
      BY <2>2, MatchingUpdate DEF Update
    <3>2. /\ Allowed(orders[order[r].id], cmd[r])
          /\ Snapshot(order[r]) = Effect(orders[order[r].id], cmd[r])
      BY <3>1 DEF Allowed, Effect
    <3>3. Ledger!Apply(order[r].id, cmd[r])
      BY <2>2, <3>2 DEF Update, Ledger!Apply
    <3> QED BY <3>1, <3>3 DEF Ledger!Next
  <2>3. CASE ~SaveShard(r) /\ ~Update(r)
    BY <1>3, <2>3 DEF Step, PlaceReplay, PlaceBuild, BuildFails, RiskDecide,
       RegisterKey, Enqueue, Route, Load, LoadFails, UpdateFails, repo
  <2> QED BY <2>1, <2>2, <2>3
<1> QED BY <1>1, <1>2, <1>3 DEF Next

(* The concurrent write path implements the atomic ledger: no fill and no  *)
(* cancel is lost or computed from a stale order, for any number of        *)
(* concurrent requests.                                                    *)
THEOREM Refinement == Spec => ImplementsLedger
<1>1. Init => Ledger!Init
  BY DEF Init, Ledger!Init
<1>2. IInv /\ [Next]_vars => [Ledger!Next]_orders
  BY StepRefines
<1> QED BY InitInv, StepInv, <1>1, <1>2, PTL DEF Spec, ImplementsLedger, Ledger!Spec

(***************************************************************************)
(* No fill overtakes the OrderPlaced of its order, provided that only      *)
(* orders the venue was given are filled.  An order is announced when the  *)
(* read model knows it or its OrderPlaced is in the channel.  The channel  *)
(* is first in, first out, so whoever waits for the announcement before it *)
(* publishes a fill publishes behind it; the chain that makes every fill   *)
(* wait is: publish, then route, then fill.                                *)
(***************************************************************************)
AnnouncedIds ==
  {id \in Ids : \/ meta[id] # Nil
                \/ \E j \in DOMAIN queue : /\ queue[j].name = "OrderPlaced"
                                           /\ queue[j].orderID = id}

(* Every fill buffered in o is of an order in A. *)
FillsOf(o, A) ==
  \A i \in DOMAIN o.events : IsFillEvent(o.events[i]) => o.events[i].orderID \in A

OpensWithPlaced(o) == o.events[1].name = "OrderPlaced" /\ o.events[1].orderID = o.id

(* What a request at label l with command c and local order o owes to the  *)
(* announced orders A.                                                     *)
RequestAnnounced(A, l, c, o) ==
  /\ (l \in {"get", "update"} /\ c.op = "fill") => c.id \in A
  /\ l = "route" => o.id \in A
  /\ l \in {"risk", "save", "register"} => FillsOf(o, {}) /\ OpensWithPlaced(o)
  /\ l \in {"update", "publish"} => FillsOf(o, A)
  /\ l = "update" => o.status # "ACCEPTED"
  /\ (l = "publish" /\ o.status = "ACCEPTED") => (o.id \in A \/ OpensWithPlaced(o))

AInv ==
  /\ PlacedProjectedBeforeFills
  /\ routed \subseteq AnnouncedIds
  /\ \A r \in Requests : RequestAnnounced(AnnouncedIds, pc[r], cmd[r], order[r])

(* More announced orders disturb nobody. *)
LEMMA AnnouncedStable ==
  ASSUME NEW A, NEW B, A \subseteq B, NEW l, NEW c, NEW o,
         RequestAnnounced(A, l, c, o)
  PROVE  RequestAnnounced(B, l, c, o)
<1>1. FillsOf(o, A) => FillsOf(o, B)
  BY DEF FillsOf
<1> QED BY <1>1 DEF RequestAnnounced

(* A step of request r: nothing announced is forgotten, and r's new local  *)
(* state keeps its side.                                                   *)
LEMMA AnnounceStepOf ==
  ASSUME IInv, AInv, PlacedProjectedBeforeFills', AnnouncedIds \subseteq AnnouncedIds',
         routed' \subseteq AnnouncedIds',
         NEW r \in Requests, NEW l, NEW c, NEW o,
         pc' = [pc EXCEPT ![r] = l], cmd' = [cmd EXCEPT ![r] = c],
         order' = [order EXCEPT ![r] = o],
         RequestAnnounced(AnnouncedIds', l, c, o)
  PROVE  AInv'
<1>1. ASSUME NEW q \in Requests
      PROVE  RequestAnnounced(AnnouncedIds', pc'[q], cmd'[q], order'[q])
  <2>1. CASE q = r
    BY <2>1 DEF IInv, TypeOK
  <2>2. CASE q # r
    <3>1. pc'[q] = pc[q] /\ cmd'[q] = cmd[q] /\ order'[q] = order[q]
      BY <2>2 DEF IInv, TypeOK
    <3>2. RequestAnnounced(AnnouncedIds, pc[q], cmd[q], order[q])
      BY DEF AInv
    <3>3. RequestAnnounced(AnnouncedIds', pc[q], cmd[q], order[q])
      BY <3>2, AnnouncedStable
    <3> QED BY <3>1, <3>3
  <2> QED BY <2>1, <2>2
<1> QED BY <1>1 DEF AInv

(* A step that leaves the channel, the read model and the venue alone. *)
LEMMA QuietAnnounced ==
  ASSUME AInv, UNCHANGED <<routed, queue, readModel>>
  PROVE  /\ AnnouncedIds' = AnnouncedIds
         /\ PlacedProjectedBeforeFills' /\ routed' \subseteq AnnouncedIds'
BY DEF AInv, AnnouncedIds, PlacedProjectedBeforeFills, readModel

(* A command that returns owes nothing. *)
LEMMA ReturnAnnounced ==
  ASSUME IInv, AInv, PlacedProjectedBeforeFills', AnnouncedIds \subseteq AnnouncedIds',
         routed' \subseteq AnnouncedIds', NEW r \in Requests, Return(r)
  PROVE  AInv'
<1>1. RequestAnnounced(AnnouncedIds', "idle", Nil, Nil)
  BY DEF RequestAnnounced
<1> QED BY <1>1, AnnounceStepOf DEF Return

(* A decided order carries its OrderPlaced first and no fill. *)
LEMMA DecidedEvents ==
  ASSUME NEW id \in Ids, NEW t \in Terms, ValidTerms(t),
         NEW o \in {NewOrder(id, t), Accept(NewOrder(id, t)), Reject(NewOrder(id, t))}
  PROVE  FillsOf(o, {}) /\ OpensWithPlaced(o)
<1> DEFINE n == NewOrder(id, t)
<1>1. Terms \subseteq TermRecords
  BY ServiceAssumption
<1>2. n \in Recs /\ n.id = id /\ n.status = "NEW" /\ Len(n.events) = 1
  BY <1>1, NewOrderFacts DEF Recs
<1>3. n.events[1] = OrderPlaced(id, t)
  BY NewOrderEvent
<1> HIDE DEF n
<1>4. n.events \in Seq(Events(Ids, Terms))
  BY <1>1, <1>2, OrderFields DEF Recs
<1>5. canTransitionTo(n.status, "ACCEPTED") /\ canTransitionTo(n.status, "REJECTED")
  BY <1>2 DEF canTransitionTo, legalTransitions, Statuses
<1>6. CASE o = n
  BY <1>2, <1>6, <1>3, <1>4 DEF FillsOf, OpensWithPlaced, OrderPlaced, IsFillEvent
<1>7. ASSUME NEW to \in {"ACCEPTED", "REJECTED"},
             NEW nm \in {"OrderAccepted", "OrderRejected"},
             o = raise(Transition(n, to), StatusEvent(nm, n.id))
      PROVE  FillsOf(o, {}) /\ OpensWithPlaced(o)
  <2>1. o.id = n.id /\ o.events = Append(n.events, StatusEvent(nm, n.id))
    BY <1>1, <1>2, <1>5, <1>7, StatusMethod DEF Recs, PlainEventNames, Statuses
  <2>2. /\ DOMAIN o.events = 1 .. 2
        /\ o.events[1] = OrderPlaced(id, t) /\ o.events[2] = StatusEvent(nm, id)
    BY <1>2, <1>3, <1>4, <2>1
  <2>3. ~IsFillEvent(OrderPlaced(id, t)) /\ ~IsFillEvent(StatusEvent(nm, id))
    BY DEF IsFillEvent, OrderPlaced, StatusEvent
  <2>4. FillsOf(o, {})
    BY <2>2, <2>3 DEF FillsOf
  <2> QED BY <1>2, <2>1, <2>2, <2>4 DEF OpensWithPlaced, OrderPlaced
<1>8. o = n \/ o = Accept(n) \/ o = Reject(n)
  BY DEF n
<1> QED BY <1>6, <1>7, <1>8 DEF Accept, Reject

(* A fill or cancel raises one event of the order it changes, which it     *)
(* never leaves ACCEPTED; only a fill raises a fill event.                 *)
LEMMA PerformedEvents ==
  ASSUME NEW s \in Snaps, FillsMatchStatus(s), NEW c \in Ops,
         Permits(RehydrateOrder(s), c),
         NEW A, c.op = "fill" => s.id \in A
  PROVE  LET p == Performed(RehydrateOrder(s), c)
         IN  p.status # "ACCEPTED" /\ FillsOf(p, A)
<1> DEFINE o == RehydrateOrder(s)
           p == Performed(o, c)
<1>1. /\ o \in Recs /\ o.id = s.id /\ o.events = <<>> /\ FillsMatchStatus(o)
  BY RehydrateFacts DEF Recs, Snaps
<1>2. Terms \subseteq TermRecords
  BY ServiceAssumption
<1> HIDE DEF o
<1>3. CASE c \in FillCmds
  <2>1. c.op = "fill" /\ c.qty \in Int64 /\ c.px \in Int64
    BY <1>3, ServiceAssumption DEF FillCmds
  <2>2. CanFill(o, c.qty, c.px) /\ p = Fill(o, c.qty, c.px)
    BY <2>1 DEF Permits, Performed, o
  <2>3. /\ p.status \in {"FILLED", "PARTIALLY_FILLED"}
        /\ \E e \in Events(Ids, Terms) : p.events = Append(o.events, e) /\ e.orderID = o.id
    BY <1>1, <1>2, <2>1, <2>2, FillMethod DEF Recs, Tells
  <2> HIDE DEF p
  <2>4. PICK e \in Events(Ids, Terms) : p.events = <<e>> /\ e.orderID = s.id
    BY <1>1, <2>3
  <2>5. FillsOf(p, A)
    BY <2>1, <2>4 DEF FillsOf
  <2> QED BY <2>3, <2>5 DEF p, o
<1>4. CASE c \in CancelCmds
  <2>1. c.op = "cancel"
    BY <1>4 DEF CancelCmds
  <2>2. canTransitionTo(o.status, "CANCELED") /\ p = Cancel(o)
    BY <2>1 DEF Permits, Performed, CanCancel, o
  <2>3. /\ p.status = "CANCELED"
        /\ p.events = Append(o.events, StatusEvent("OrderCanceled", o.id))
    BY <1>1, <1>2, <2>2, StatusMethod DEF Recs, Cancel, PlainEventNames, Statuses
  <2> HIDE DEF p
  <2>4. p.events = <<StatusEvent("OrderCanceled", s.id)>>
    BY <1>1, <2>3
  <2>5. FillsOf(p, A)
    BY <2>4 DEF FillsOf, IsFillEvent, StatusEvent
  <2> QED BY <2>3, <2>5 DEF p, o
<1> QED BY <1>3, <1>4 DEF Ops

(* Only orders the venue was given are filled, and those are announced. *)
LEMMA BeginAnnounced ==
  ASSUME FillsFollowRouting, IInv, AInv, NEW r \in Requests, Begin(r)
  PROVE  AInv'
<1>1. /\ AnnouncedIds' = AnnouncedIds
      /\ PlacedProjectedBeforeFills' /\ routed' \subseteq AnnouncedIds'
  BY QuietAnnounced DEF Begin, BeginPlace, BeginFill, BeginCancel
<1>2. PICK c, l : /\ pc' = [pc EXCEPT ![r] = l] /\ cmd' = [cmd EXCEPT ![r] = c]
                  /\ \/ l = "lookup"
                     \/ l = "get" /\ (c.op = "fill" => c.id \in routed)
  BY DEF Begin, BeginPlace, BeginFill, BeginCancel, Goto, Fillable, CancelCmds
<1>3. order' = [order EXCEPT ![r] = order[r]]
  BY LocalFacts DEF Begin, BeginPlace, BeginFill, BeginCancel
<1>4. RequestAnnounced(AnnouncedIds', l, c, order[r])
  BY <1>1, <1>2 DEF RequestAnnounced, AInv
<1> QED BY <1>1, <1>2, <1>3, <1>4, AnnounceStepOf

(* Until the order is stored the OrderPlaced stays in front of its buffer. *)
LEMMA PlacingAnnounced ==
  ASSUME IInv, AInv, NEW r \in Requests,
         PlaceBuild(r) \/ RiskDecide(r) \/ SaveShard(r) \/ RegisterKey(r)
  PROVE  AInv'
<1>1. /\ AnnouncedIds' = AnnouncedIds
      /\ PlacedProjectedBeforeFills' /\ routed' \subseteq AnnouncedIds'
  BY QuietAnnounced DEF PlaceBuild, RiskDecide, SaveShard, RegisterKey
<1>2. CASE SaveShard(r) /\ orders[order[r].id] # Nil
  BY <1>1, <1>2, ReturnAnnounced DEF SaveShard
<1>3. CASE \/ PlaceBuild(r) \/ RiskDecide(r) \/ RegisterKey(r)
           \/ SaveShard(r) /\ orders[order[r].id] = Nil
  <2>1. PICK l \in {"risk", "save", "register", "publish"} : \E o :
          /\ pc' = [pc EXCEPT ![r] = l] /\ order' = [order EXCEPT ![r] = o]
          /\ FillsOf(o, {}) /\ OpensWithPlaced(o)
    <3>1. CASE PlaceBuild(r)
      <4>1. PICK id \in Ids : order' = [order EXCEPT ![r] = NewOrder(id, cmd[r].terms)]
        BY <3>1 DEF PlaceBuild, FreshIds
      <4>2. cmd[r].terms \in Terms /\ ValidTerms(cmd[r].terms)
        BY <3>1, LocalFacts DEF RequestOK, PlaceBuild, PlaceCmds
      <4>3. /\ FillsOf(NewOrder(id, cmd[r].terms), {})
            /\ OpensWithPlaced(NewOrder(id, cmd[r].terms))
        BY <4>2, DecidedEvents
      <4> QED BY <3>1, <4>1, <4>3 DEF PlaceBuild, Goto
    <3>2. CASE RiskDecide(r)
      <4>1. PICK o \in {Accept(order[r]), Reject(order[r])} :
              order' = [order EXCEPT ![r] = o]
        BY <3>2, LocalFacts DEF RiskDecide, IInv, TypeOK
      <4>2. PICK t \in Terms : ValidTerms(t) /\ order[r] = NewOrder(order[r].id, t)
        BY <3>2, LocalFacts DEF RequestOK, RiskDecide
      <4>3. order[r].id \in Ids
        BY <3>2, LocalFacts DEF RequestOK, RiskDecide, Recs, OrderRecords
      <4>4. FillsOf(o, {}) /\ OpensWithPlaced(o)
        BY <4>1, <4>2, <4>3, DecidedEvents
      <4> QED BY <3>2, <4>1, <4>4 DEF RiskDecide, Goto
    <3>3. CASE RegisterKey(r) \/ (SaveShard(r) /\ orders[order[r].id] = Nil)
      <4>1. FillsOf(order[r], {}) /\ OpensWithPlaced(order[r])
        BY <3>3 DEF AInv, RequestAnnounced, RegisterKey, SaveShard
      <4>2. order' = [order EXCEPT ![r] = order[r]]
        BY <3>3, LocalFacts DEF RegisterKey, SaveShard
      <4> QED BY <3>3, <4>1, <4>2 DEF RegisterKey, SaveShard, Goto
    <3> QED BY <1>3, <3>1, <3>2, <3>3
  <2>2. cmd' = [cmd EXCEPT ![r] = cmd[r]]
    BY <1>3, LocalFacts DEF PlaceBuild, RiskDecide, SaveShard, RegisterKey
  <2>3. PICK o : /\ pc' = [pc EXCEPT ![r] = l] /\ order' = [order EXCEPT ![r] = o]
                 /\ FillsOf(o, {}) /\ OpensWithPlaced(o)
    BY <2>1
  <2>4. FillsOf(o, AnnouncedIds')
    BY <2>3 DEF FillsOf
  <2>5. RequestAnnounced(AnnouncedIds', l, cmd[r], o)
    BY <2>3, <2>4 DEF RequestAnnounced
  <2> QED BY <1>1, <2>3, <2>2, <2>5, AnnounceStepOf
<1> QED BY <1>2, <1>3

(* The fill of a routed order is computed; nothing is published yet. *)
LEMMA LoadAnnounced ==
  ASSUME IInv, AInv, NEW r \in Requests, Load(r)
  PROVE  AInv'
<1> DEFINE s == orders[cmd[r].id]
           o == Performed(RehydrateOrder(s), cmd[r])
<1>1. /\ AnnouncedIds' = AnnouncedIds
      /\ PlacedProjectedBeforeFills' /\ routed' \subseteq AnnouncedIds'
  BY QuietAnnounced DEF Load
<1>2. cmd[r] \in Ops /\ cmd[r].id \in Ids
  BY LocalFacts DEF RequestOK, Load, Ops, FillCmds, CancelCmds
<1>3. /\ s \in Snaps /\ s.id = cmd[r].id /\ FillsMatchStatus(s)
      /\ Permits(RehydrateOrder(s), cmd[r])
  BY <1>2, SharedFromInv DEF Load, SharedOK, StoreOK
<1>4. cmd[r].op = "fill" => s.id \in AnnouncedIds
  BY <1>3 DEF AInv, RequestAnnounced, Load
<1>5. o.status # "ACCEPTED" /\ FillsOf(o, AnnouncedIds)
  BY <1>2, <1>3, <1>4, PerformedEvents
<1>6. /\ pc' = [pc EXCEPT ![r] = "update"]
      /\ cmd' = [cmd EXCEPT ![r] = cmd[r]]
      /\ order' = [order EXCEPT ![r] = o]
  BY LocalFacts DEF Load, Goto
<1> HIDE DEF o
<1>7. RequestAnnounced(AnnouncedIds', "update", cmd[r], o)
  BY <1>1, <1>3, <1>4, <1>5 DEF RequestAnnounced
<1> QED BY <1>1, <1>6, <1>7, AnnounceStepOf

(* The fill is stored; its event is about to be published. *)
LEMMA UpdateAnnounced ==
  ASSUME IInv, AInv, NEW r \in Requests, Update(r)
  PROVE  AInv'
<1>1. /\ AnnouncedIds' = AnnouncedIds
      /\ PlacedProjectedBeforeFills' /\ routed' \subseteq AnnouncedIds'
  BY QuietAnnounced DEF Update
<1>2. order[r].status # "ACCEPTED" /\ FillsOf(order[r], AnnouncedIds)
  BY DEF AInv, RequestAnnounced, Update
<1>3. /\ pc' = [pc EXCEPT ![r] = "publish"]
      /\ cmd' = [cmd EXCEPT ![r] = cmd[r]]
      /\ order' = [order EXCEPT ![r] = order[r]]
  BY LocalFacts DEF Update, Goto
<1>4. RequestAnnounced(AnnouncedIds', "publish", cmd[r], order[r])
  BY <1>1, <1>2 DEF RequestAnnounced
<1> QED BY <1>1, <1>3, <1>4, AnnounceStepOf

(* The venue is given an order whose OrderPlaced is in the channel. *)
LEMMA RouteAnnounced ==
  ASSUME IInv, AInv, NEW r \in Requests, Route(r)
  PROVE  AInv'
<1>1. AnnouncedIds' = AnnouncedIds /\ PlacedProjectedBeforeFills'
  BY DEF Route, AInv, AnnouncedIds, PlacedProjectedBeforeFills, readModel
<1>2. routed' \subseteq AnnouncedIds'
  BY <1>1 DEF Route, AInv, RequestAnnounced
<1> QED BY <1>1, <1>2, ReturnAnnounced DEF Route

(* What an event appended to the channel does to the announced orders. *)
LEMMA EnqueueAnnounces ==
  ASSUME IInv, AInv, NEW r \in Requests, Enqueue(r)
  PROVE  LET e == order[r].events[1]
         IN  /\ AnnouncedIds \subseteq AnnouncedIds'
             /\ e.name = "OrderPlaced" => e.orderID \in AnnouncedIds'
             /\ PlacedProjectedBeforeFills'
<1> DEFINE e == order[r].events[1]
<1>1. /\ order[r] \in Recs /\ order[r].events \in Seq(Events(Ids, Terms))
      /\ Len(order[r].events) > 0
  BY LocalFacts DEF RequestOK, Enqueue, Recs, OrderRecords
<1>2. e \in Events(Ids, Terms) /\ e.orderID \in Ids
  <2>1. e \in Events(Ids, Terms)
    BY <1>1
  <2> HIDE DEF e
  <2> QED BY <2>1 DEF Events
<1>3. queue' = Append(queue, e) /\ meta' = meta
  BY <1>1 DEF Enqueue, NextEvent, readModel
<1>4. IsFillEvent(e) => e.orderID \in AnnouncedIds
  BY <1>1 DEF AInv, RequestAnnounced, FillsOf, Enqueue
<1> HIDE DEF e
<1>5. queue \in Seq(Events(Ids, Terms))
  BY SharedFromInv DEF SharedOK
<1>6. /\ DOMAIN queue = 1 .. Len(queue) /\ Len(queue) \in Nat
      /\ DOMAIN queue' = 1 .. Len(queue) + 1
      /\ queue'[Len(queue) + 1] = e
      /\ \A j \in 1 .. Len(queue) : queue'[j] = queue[j]
  BY <1>2, <1>3, <1>5
<1>7. AnnouncedIds \subseteq AnnouncedIds'
  BY <1>3, <1>6 DEF AnnouncedIds
<1>8. e.name = "OrderPlaced" => e.orderID \in AnnouncedIds'
  BY <1>2, <1>6 DEF AnnouncedIds
<1>9. ASSUME NEW i \in DOMAIN queue', IsFillEvent(queue'[i])
      PROVE  \/ meta'[queue'[i].orderID] # Nil
             \/ \E j \in 1 .. i - 1 : /\ queue'[j].name = "OrderPlaced"
                                      /\ queue'[j].orderID = queue'[i].orderID
  <2>1. CASE i \in 1 .. Len(queue)
    <3>1. queue'[i] = queue[i] /\ \A j \in 1 .. i - 1 : queue'[j] = queue[j]
      BY <1>6, <2>1
    <3> QED BY <1>3, <1>6, <1>9, <2>1, <3>1 DEF AInv, PlacedProjectedBeforeFills
  <2>2. CASE i = Len(queue) + 1
    <3>1. queue'[i].orderID \in AnnouncedIds
      BY <1>4, <1>6, <1>9, <2>2
    <3>2. 1 .. i - 1 = DOMAIN queue
      BY <1>6, <2>2
    <3> QED BY <1>3, <1>6, <3>1, <3>2 DEF AnnouncedIds
  <2> QED BY <1>6, <2>1, <2>2
<1>10. PlacedProjectedBeforeFills'
  BY <1>9 DEF PlacedProjectedBeforeFills
<1> QED BY <1>7, <1>8, <1>10 DEF e

(* Publishing: the OrderPlaced first, the fills behind it. *)
LEMMA EnqueueAnnounced ==
  ASSUME IInv, AInv, NEW r \in Requests, Enqueue(r)
  PROVE  AInv'
<1> DEFINE evs == order[r].events
<1>1. /\ order[r] \in Recs /\ evs \in Seq(Events(Ids, Terms)) /\ Len(evs) > 0
  BY LocalFacts DEF RequestOK, Enqueue, Recs, OrderRecords
<1>2. /\ AnnouncedIds \subseteq AnnouncedIds' /\ PlacedProjectedBeforeFills'
      /\ evs[1].name = "OrderPlaced" => evs[1].orderID \in AnnouncedIds'
  BY EnqueueAnnounces
<1>3. routed' \subseteq AnnouncedIds'
  BY <1>2 DEF Enqueue, AInv
<1>4. /\ FillsOf(order[r], AnnouncedIds')
      /\ order[r].status = "ACCEPTED" => order[r].id \in AnnouncedIds'
  BY <1>2 DEF AInv, RequestAnnounced, Enqueue, FillsOf, OpensWithPlaced
<1>5. CASE Len(evs) > 1
  <2> DEFINE o == [order[r] EXCEPT !.events = Tail(evs)]
  <2>1. o.events = Tail(evs) /\ o.status = order[r].status /\ o.id = order[r].id
    BY <1>1 DEF Recs, OrderRecords
  <2>2. FillsOf(o, AnnouncedIds')
    <3>1. \A i \in DOMAIN Tail(evs) : i + 1 \in DOMAIN evs /\ Tail(evs)[i] = evs[i + 1]
      BY <1>1
    <3> QED BY <1>4, <2>1, <3>1 DEF FillsOf
  <2>3. /\ pc' = [pc EXCEPT ![r] = "publish"]
        /\ cmd' = [cmd EXCEPT ![r] = cmd[r]]
        /\ order' = [order EXCEPT ![r] = o]
    BY <1>5, LocalFacts DEF Enqueue
  <2> HIDE DEF o
  <2>4. RequestAnnounced(AnnouncedIds', "publish", cmd[r], o)
    BY <1>4, <2>1, <2>2 DEF RequestAnnounced
  <2> QED BY <1>2, <1>3, <2>3, <2>4, AnnounceStepOf
<1>6. CASE Len(evs) <= 1 /\ order[r].status = "ACCEPTED"
  <2> DEFINE o == ClearEvents(order[r])
  <2>1. o.id = order[r].id
    BY <1>1 DEF Recs, OrderRecords, ClearEvents
  <2>2. /\ pc' = [pc EXCEPT ![r] = "route"]
        /\ cmd' = [cmd EXCEPT ![r] = cmd[r]]
        /\ order' = [order EXCEPT ![r] = o]
    BY <1>1, <1>6, LocalFacts DEF Enqueue, Goto
  <2> HIDE DEF o
  <2>3. RequestAnnounced(AnnouncedIds', "route", cmd[r], o)
    BY <1>4, <1>6, <2>1 DEF RequestAnnounced
  <2> QED BY <1>2, <1>3, <2>2, <2>3, AnnounceStepOf
<1>7. CASE Len(evs) <= 1 /\ order[r].status # "ACCEPTED"
  <2>1. Return(r)
    BY <1>1, <1>7 DEF Enqueue
  <2> QED BY <1>2, <1>3, <2>1, ReturnAnnounced
<1>8. Len(evs) \in Nat
  BY <1>1
<1> QED BY <1>5, <1>6, <1>7, <1>8

(* The worker takes the head: an OrderPlaced moves from the channel into   *)
(* the read model's table.                                                 *)
LEMMA ProjectAnnounced ==
  ASSUME IInv, AInv, Project
  PROVE  AInv'
<1> DEFINE e == Head(queue)
<1>1. /\ queue \in Seq(Events(Ids, Terms)) /\ queue # <<>> /\ queue' = Tail(queue)
      /\ meta \in [Ids -> Terms \union {Nil}]
  BY SharedFromInv DEF Project, WorkerReady, SharedOK
<1>2. /\ e \in Events(Ids, Terms) /\ e = queue[1]
      /\ DOMAIN queue = 1 .. Len(queue) /\ Len(queue) \in Nat
      /\ DOMAIN queue' = 1 .. Len(queue) - 1
      /\ \A j \in 1 .. Len(queue) - 1 : queue'[j] = queue[j + 1]
  BY <1>1
<1>3. e.orderID \in Ids /\ (e.name = "OrderPlaced" => e.terms \in Terms)
  BY <1>2 DEF Events, PlainEventNames
<1>4. /\ e.name = "OrderPlaced" => meta'[e.orderID] # Nil
      /\ \A id \in Ids : meta[id] # Nil => meta'[id] # Nil
  BY <1>1, <1>3, ServiceAssumption DEF Project
<1> HIDE DEF e
<1>5. ASSUME NEW id \in AnnouncedIds PROVE id \in AnnouncedIds'
  <2>1. id \in Ids
    BY DEF AnnouncedIds
  <2>2. CASE meta[id] # Nil
    BY <1>4, <2>1, <2>2 DEF AnnouncedIds
  <2>3. CASE \E j \in DOMAIN queue : queue[j].name = "OrderPlaced" /\ queue[j].orderID = id
    <3>1. PICK j \in DOMAIN queue : queue[j].name = "OrderPlaced" /\ queue[j].orderID = id
      BY <2>3
    <3>2. CASE j = 1
      BY <1>2, <1>4, <2>1, <3>1, <3>2 DEF AnnouncedIds
    <3>3. CASE j # 1
      <4>1. j - 1 \in DOMAIN queue' /\ queue'[j - 1] = queue[j]
        BY <1>2, <3>3
      <4> QED BY <2>1, <3>1, <4>1 DEF AnnouncedIds
    <3> QED BY <3>2, <3>3
  <2> QED BY <2>2, <2>3 DEF AnnouncedIds
<1>6. ASSUME NEW i \in DOMAIN queue', IsFillEvent(queue'[i])
      PROVE  \/ meta'[queue'[i].orderID] # Nil
             \/ \E j \in 1 .. i - 1 : /\ queue'[j].name = "OrderPlaced"
                                      /\ queue'[j].orderID = queue'[i].orderID
  <2>1. i + 1 \in DOMAIN queue /\ queue'[i] = queue[i + 1] /\ i \in Nat
    BY <1>2
  <2>2. queue[i + 1].orderID \in Ids
    <3>1. queue[i + 1] \in Events(Ids, Terms)
      BY <1>1, <2>1
    <3> QED BY <3>1 DEF Events
  <2>3. CASE meta[queue[i + 1].orderID] # Nil
    BY <1>4, <2>1, <2>2, <2>3
  <2>4. CASE \E j \in 1 .. (i + 1) - 1 : /\ queue[j].name = "OrderPlaced"
                                         /\ queue[j].orderID = queue[i + 1].orderID
    <3>1. PICK j \in 1 .. (i + 1) - 1 : /\ queue[j].name = "OrderPlaced"
                                        /\ queue[j].orderID = queue[i + 1].orderID
      BY <2>4
    <3>2. CASE j = 1
      BY <1>2, <1>4, <2>1, <3>1, <3>2
    <3>3. CASE j # 1
      <4>1. j - 1 \in 1 .. i - 1 /\ queue'[j - 1] = queue[j]
        BY <1>2, <2>1, <3>3
      <4> QED BY <2>1, <3>1, <4>1
    <3> QED BY <3>2, <3>3
  <2> QED BY <1>6, <2>1, <2>3, <2>4 DEF AInv, PlacedProjectedBeforeFills
<1>7. PlacedProjectedBeforeFills' /\ AnnouncedIds \subseteq AnnouncedIds'
  BY <1>5, <1>6 DEF PlacedProjectedBeforeFills
<1>8. UNCHANGED <<routed, pc, cmd, order>>
  BY DEF Project, local
<1>9. ASSUME NEW r \in Requests
      PROVE  RequestAnnounced(AnnouncedIds', pc'[r], cmd'[r], order'[r])
  <2>1. RequestAnnounced(AnnouncedIds, pc[r], cmd[r], order[r])
    BY DEF AInv
  <2>2. RequestAnnounced(AnnouncedIds', pc[r], cmd[r], order[r])
    BY <1>7, <2>1, AnnouncedStable
  <2> QED BY <1>8, <2>2
<1> QED BY <1>7, <1>8, <1>9 DEF AInv

LEMMA InitAnnounced == Init => AInv
BY DEF Init, AInv, AnnouncedIds, PlacedProjectedBeforeFills, RequestAnnounced

LEMMA StepAnnounced ==
  ASSUME FillsFollowRouting, IInv, AInv, [Next]_vars
  PROVE  AInv'
<1>1. CASE Project
  BY <1>1, ProjectAnnounced
<1>2. ASSUME NEW r \in Requests, Begin(r) PROVE AInv'
  BY <1>2, BeginAnnounced
<1>3. ASSUME NEW r \in Requests, Step(r) PROVE AInv'
  <2>1. CASE PlaceReplay(r) \/ BuildFails(r) \/ LoadFails(r) \/ UpdateFails(r)
    BY <2>1, QuietAnnounced, ReturnAnnounced
       DEF PlaceReplay, BuildFails, LoadFails, UpdateFails
  <2> QED BY <1>3, <2>1, PlacingAnnounced, EnqueueAnnounced, RouteAnnounced,
             LoadAnnounced, UpdateAnnounced DEF Step
<1>4. CASE UNCHANGED vars
  BY <1>4 DEF vars, AInv, AnnouncedIds, PlacedProjectedBeforeFills
<1> QED BY <1>1, <1>2, <1>3, <1>4 DEF Next

(* eventbus.go:23 holds for every number of requests and every capacity of *)
(* the channel as long as fills follow routing: in front of every fill in  *)
(* the channel is its OrderPlaced, or the read model has it already, so    *)
(* the worker never drops a fill.                                          *)
THEOREM PlacedFirst == FillsFollowRouting => (Spec => []PlacedProjectedBeforeFills)
<1>1. FillsFollowRouting /\ IInv /\ AInv /\ [Next]_vars => AInv'
  BY StepAnnounced
<1>2. AInv => PlacedProjectedBeforeFills
  BY DEF AInv
<1> SUFFICES ASSUME FillsFollowRouting PROVE Spec => []PlacedProjectedBeforeFills
  OBVIOUS
<1>3. IInv /\ AInv /\ [Next]_vars => AInv'
  BY <1>1
<1> QED BY InitInv, StepInv, InitAnnounced, <1>2, <1>3, PTL DEF Spec

(***************************************************************************)
(* Sums.                                                                   *)
(***************************************************************************)
(* t holds the partial sums of f up to N. *)
Sums(t, f, N) ==
  /\ t \in [0 .. N -> Int]
  /\ t[0] = 0
  /\ \A n \in 1 .. N : t[n] = t[n - 1] + f[n]

LEMMA TotalDefined ==
  ASSUME NEW N \in Nat, NEW f \in [1 .. N -> Int]
  PROVE  \E t : Sums(t, f, N) /\ Total(f, N) = t[N]
<1> DEFINE g == [n \in 1 .. N |-> [x \in Int |-> x + f[n]]]
           Equation(t) == t = [n \in 0 .. N |-> IF n = 0 THEN 0 ELSE t[n - 1] + f[n]]
<1>1. g \in [1 .. N -> [Int -> Int]] /\ N \in Nat /\ 0 \in Int
  OBVIOUS
<1> HIDE DEF g
<1>2. PICK t : Follows(t, Int, 0, g, N)
  BY <1>1, Recursion
<1>3. ASSUME NEW n \in 1 .. N PROVE t[n] = t[n - 1] + f[n]
  <2>1. t[n - 1] \in Int /\ t[n] = g[n][t[n - 1]]
    BY <1>2 DEF Follows
  <2>2. g[n] = [x \in Int |-> x + f[n]]
    BY DEF g
  <2> QED BY <2>1, <2>2
<1>4. t \in [0 .. N -> Int] /\ t[0] = 0
  BY <1>2 DEF Follows
<1>5. Equation(t)
  <2> DEFINE h == [n \in 0 .. N |-> IF n = 0 THEN 0 ELSE t[n - 1] + f[n]]
  <2>1. ASSUME NEW n \in 0 .. N PROVE t[n] = h[n]
    <3>1. CASE n = 0
      BY <1>4, <3>1
    <3>2. CASE n # 0
      <4>1. n \in 1 .. N
        BY <3>2
      <4> QED BY <1>3, <3>2, <4>1
    <3> QED BY <3>1, <3>2
  <2> QED BY <1>4, <2>1
<1> DEFINE k == CHOOSE h : Equation(h)
<1>6. Total(f, N) = k[N]
  BY Zenon DEF Total
<1>7. Equation(k)
  BY <1>5, Zenon
<1> HIDE DEF k
<1>8. k[0] = 0 /\ \A n \in 1 .. N : k[n] = k[n - 1] + f[n]
  <2>1. 0 \in 0 .. N /\ \A n \in 1 .. N : n \in 0 .. N /\ n # 0
    OBVIOUS
  <2> QED BY <1>7, <2>1, Zenon
<1> DEFINE S == {n \in Nat : n <= N => t[n] = k[n]}
<1>9. N \in S
  <2>1. 0 \in S
    BY <1>4, <1>8
  <2>2. ASSUME NEW n \in Nat, n \in S PROVE n + 1 \in S
    <3> SUFFICES ASSUME n + 1 <= N PROVE t[n + 1] = k[n + 1]
      OBVIOUS
    <3>1. n + 1 \in 1 .. N /\ (n + 1) - 1 = n
      OBVIOUS
    <3> QED BY <1>3, <1>8, <2>2, <3>1
  <2> HIDE DEF S
  <2> QED BY <2>1, <2>2, SetInduction
<1>10. Total(f, N) = t[N]
  BY <1>6, <1>9
<1> QED BY <1>3, <1>4, <1>10 DEF Sums

(* A sum is an integer, and nothing adds up to nothing. *)
LEMMA TotalType ==
  ASSUME NEW N \in Nat, NEW f \in [1 .. N -> Int]
  PROVE  /\ Total(f, N) \in Int
         /\ N = 0 => Total(f, N) = 0
BY TotalDefined DEF Sums

LEMMA TotalZero ==
  ASSUME NEW N \in Nat, NEW f \in [1 .. N -> Int], \A n \in 1 .. N : f[n] = 0
  PROVE  Total(f, N) = 0
<1>1. PICK t : Sums(t, f, N) /\ Total(f, N) = t[N]
  BY TotalDefined
<1> DEFINE S == {n \in Nat : n <= N => t[n] = 0}
<1>2. 0 \in S
  BY <1>1 DEF Sums
<1>3. ASSUME NEW n \in Nat, n \in S PROVE n + 1 \in S
  <2> SUFFICES ASSUME n + 1 <= N PROVE t[n + 1] = 0
    OBVIOUS
  <2>1. n + 1 \in 1 .. N /\ (n + 1) - 1 = n
    OBVIOUS
  <2>2. t[n + 1] = t[n] + f[n + 1]
    BY <1>1, <2>1 DEF Sums
  <2> QED BY <1>3, <2>1, <2>2
<1>4. N \in S
  <2> HIDE DEF S
  <2> QED BY <1>2, <1>3, SetInduction
<1> QED BY <1>1, <1>4

(* A sum whose terms differ in one place. *)
LEMMA TotalChange ==
  ASSUME NEW N \in Nat, NEW f \in [1 .. N -> Int], NEW g \in [1 .. N -> Int],
         NEW k \in 1 .. N, NEW d \in Int,
         \A n \in 1 .. N : g[n] = IF n = k THEN f[n] + d ELSE f[n]
  PROVE  Total(g, N) = Total(f, N) + d
<1>1. PICK t : Sums(t, f, N) /\ Total(f, N) = t[N]
  BY TotalDefined
<1>2. PICK u : Sums(u, g, N) /\ Total(g, N) = u[N]
  BY TotalDefined
<1> DEFINE S == {n \in Nat : n <= N => u[n] = IF k <= n THEN t[n] + d ELSE t[n]}
<1>3. 0 \in S
  BY <1>1, <1>2 DEF Sums
<1>4. ASSUME NEW n \in Nat, n \in S PROVE n + 1 \in S
  <2> SUFFICES ASSUME n + 1 <= N
               PROVE  u[n + 1] = IF k <= n + 1 THEN t[n + 1] + d ELSE t[n + 1]
    OBVIOUS
  <2>1. n + 1 \in 1 .. N /\ (n + 1) - 1 = n /\ n \in 0 .. N
    OBVIOUS
  <2>2. /\ u[n + 1] = u[n] + g[n + 1] /\ t[n + 1] = t[n] + f[n + 1]
        /\ t[n] \in Int /\ f[n + 1] \in Int
    BY <1>1, <1>2, <2>1 DEF Sums
  <2>3. u[n] = IF k <= n THEN t[n] + d ELSE t[n]
    BY <1>4
  <2>4. g[n + 1] = IF n + 1 = k THEN f[n + 1] + d ELSE f[n + 1]
    BY <2>1
  <2> QED BY <2>2, <2>3, <2>4
<1>5. N \in S
  <2> HIDE DEF S
  <2> QED BY <1>3, <1>4, SetInduction
<1> QED BY <1>1, <1>2, <1>5

(* One more term at the end. *)
LEMMA TotalAppend ==
  ASSUME NEW N \in Nat, NEW f \in [1 .. N -> Int], NEW g \in [1 .. N + 1 -> Int],
         \A n \in 1 .. N : g[n] = f[n]
  PROVE  Total(g, N + 1) = Total(f, N) + g[N + 1]
<1>1. PICK t : Sums(t, f, N) /\ Total(f, N) = t[N]
  BY TotalDefined
<1>2. PICK u : Sums(u, g, N + 1) /\ Total(g, N + 1) = u[N + 1]
  <2>1. N + 1 \in Nat
    OBVIOUS
  <2> QED BY <2>1, TotalDefined
<1> DEFINE S == {n \in Nat : n <= N => t[n] = u[n]}
<1>3. 0 \in S
  BY <1>1, <1>2 DEF Sums
<1>4. ASSUME NEW n \in Nat, n \in S PROVE n + 1 \in S
  <2> SUFFICES ASSUME n + 1 <= N PROVE t[n + 1] = u[n + 1]
    OBVIOUS
  <2>1. n + 1 \in 1 .. N /\ n + 1 \in 1 .. N + 1 /\ (n + 1) - 1 = n
    OBVIOUS
  <2> QED BY <1>1, <1>2, <1>4, <2>1 DEF Sums
<1>5. N \in S
  <2> HIDE DEF S
  <2> QED BY <1>3, <1>4, SetInduction
<1>6. u[N + 1] = u[N] + g[N + 1]
  <2>1. N + 1 \in 1 .. N + 1 /\ (N + 1) - 1 = N
    OBVIOUS
  <2> QED BY <1>2, <2>1 DEF Sums
<1> QED BY <1>1, <1>2, <1>5, <1>6

(* One term less at the front. *)
LEMMA TotalTail ==
  ASSUME NEW N \in Nat, NEW f \in [1 .. N -> Int], NEW g \in [1 .. N + 1 -> Int],
         \A n \in 1 .. N : g[n + 1] = f[n]
  PROVE  Total(g, N + 1) = g[1] + Total(f, N)
<1>1. PICK t : Sums(t, f, N) /\ Total(f, N) = t[N]
  BY TotalDefined
<1>2. PICK u : Sums(u, g, N + 1) /\ Total(g, N + 1) = u[N + 1]
  <2>1. N + 1 \in Nat
    OBVIOUS
  <2> QED BY <2>1, TotalDefined
<1>3. g[1] \in Int
  OBVIOUS
<1> DEFINE S == {n \in Nat : n <= N => u[n + 1] = g[1] + t[n]}
<1>4. 0 \in S
  <2>1. u[0] = 0 /\ u[1] = u[1 - 1] + g[1] /\ t[0] = 0
    BY <1>1, <1>2 DEF Sums
  <2> QED BY <1>3, <2>1
<1>5. ASSUME NEW n \in Nat, n \in S PROVE n + 1 \in S
  <2> SUFFICES ASSUME n + 1 <= N PROVE u[(n + 1) + 1] = g[1] + t[n + 1]
    OBVIOUS
  <2>1. /\ n + 1 \in 1 .. N /\ (n + 1) - 1 = n /\ n \in 0 .. N
        /\ (n + 1) + 1 \in 1 .. N + 1 /\ ((n + 1) + 1) - 1 = n + 1
    OBVIOUS
  <2>2. /\ u[(n + 1) + 1] = u[n + 1] + g[(n + 1) + 1]
        /\ t[n + 1] = t[n] + f[n + 1]
        /\ t[n] \in Int /\ f[n + 1] \in Int
    BY <1>1, <1>2, <2>1 DEF Sums
  <2>3. u[n + 1] = g[1] + t[n] /\ g[(n + 1) + 1] = f[n + 1]
    BY <1>5, <2>1
  <2> QED BY <1>3, <2>2, <2>3
<1>6. N \in S
  <2> HIDE DEF S
  <2> QED BY <1>4, <1>5, SetInduction
<1> QED BY <1>1, <1>2, <1>6

(* SetToSeq lists every member of a finite set once. *)
LEMMA Listing ==
  ASSUME NEW S, IsFiniteSet(S)
  PROVE  /\ Cardinality(S) \in Nat
         /\ SetToSeq(S) \in [1 .. Cardinality(S) -> S]
         /\ \A x \in S : \E k \in 1 .. Cardinality(S) : SetToSeq(S)[k] = x
         /\ \A i, k \in 1 .. Cardinality(S) : SetToSeq(S)[i] = SetToSeq(S)[k] => i = k
<1> DEFINE n == Cardinality(S)
           e == SetToSeq(S)
<1>1. n \in Nat
  BY FS_CardinalityType
<1>2. PICK m \in Nat : ExistsBijection(1 .. m, S)
  BY FS_NatBijection
<1>3. m = n
  BY <1>2, FS_CountingElements
<1>4. \E f \in [1 .. n -> S] : IsInjective(f)
  BY <1>2, <1>3 DEF ExistsBijection, Bijection, Injection
<1>5. e \in [1 .. n -> S] /\ IsInjective(e)
  BY <1>4, Zenon DEF SetToSeq
<1> HIDE DEF e
<1>6. e \in Injection(1 .. n, S)
  BY <1>5 DEF Injection
<1>7. Cardinality(1 .. n) = n
  BY <1>1, FS_Interval
<1>8. e \in Surjection(1 .. n, S)
  BY <1>6, <1>7, FS_Injection
<1>9. \A x \in S : \E k \in 1 .. n : e[k] = x
  BY <1>8 DEF Surjection
<1>10. \A i, k \in 1 .. n : e[i] = e[k] => i = k
  BY <1>5 DEF IsInjective
<1> QED BY <1>1, <1>5, <1>9, <1>10 DEF e

LEMMA SumOverType ==
  ASSUME NEW S, IsFiniteSet(S), NEW f \in [S -> Int]
  PROVE  SumOver(S, f) \in Int
<1> DEFINE n == Cardinality(S)
           e == SetToSeq(S)
<1>1. n \in Nat /\ e \in [1 .. n -> S]
  BY Listing
<1>2. SumOver(S, f) = Total([i \in 1 .. n |-> f[e[i]]], n)
  BY DEF SumOver
<1> HIDE DEF n, e
<1> QED BY <1>1, <1>2, TotalType

LEMMA SumOverZero ==
  ASSUME NEW S, IsFiniteSet(S), NEW f \in [S -> Int], \A x \in S : f[x] = 0
  PROVE  SumOver(S, f) = 0
<1> DEFINE n == Cardinality(S)
           e == SetToSeq(S)
           a == [i \in 1 .. n |-> f[e[i]]]
<1>1. n \in Nat /\ e \in [1 .. n -> S]
  BY Listing
<1>2. SumOver(S, f) = Total(a, n)
  BY DEF SumOver
<1> HIDE DEF n, e
<1>3. a \in [1 .. n -> Int] /\ \A i \in 1 .. n : a[i] = 0
  BY <1>1
<1> HIDE DEF a
<1> QED BY <1>1, <1>2, <1>3, TotalZero

(* A sum over a set whose terms differ for one member. *)
LEMMA SumOverChange ==
  ASSUME NEW S, IsFiniteSet(S), NEW f \in [S -> Int], NEW g \in [S -> Int],
         NEW x \in S, NEW d \in Int,
         \A y \in S : g[y] = IF y = x THEN f[y] + d ELSE f[y]
  PROVE  SumOver(S, g) = SumOver(S, f) + d
<1> DEFINE n == Cardinality(S)
           e == SetToSeq(S)
           a == [i \in 1 .. n |-> f[e[i]]]
           b == [i \in 1 .. n |-> g[e[i]]]
<1>1. n \in Nat /\ e \in [1 .. n -> S]
  BY Listing
<1>2. SumOver(S, f) = Total(a, n) /\ SumOver(S, g) = Total(b, n)
  BY DEF SumOver
<1>3. PICK k \in 1 .. n : e[k] = x
  BY Listing
<1>4. \A i \in 1 .. n : e[i] = e[k] => i = k
  BY Listing
<1> HIDE DEF n, e
<1>5. a \in [1 .. n -> Int] /\ b \in [1 .. n -> Int]
  BY <1>1
<1>6. \A i \in 1 .. n : b[i] = IF i = k THEN a[i] + d ELSE a[i]
  BY <1>1, <1>3, <1>4
<1> HIDE DEF a, b
<1>7. Total(b, n) = Total(a, n) + d
  BY <1>1, <1>5, <1>6, TotalChange
<1> QED BY <1>2, <1>7

(***************************************************************************)
(* What events still have to add.                                          *)
(***************************************************************************)
Evs    == Events(Ids, Terms)
Stores == [Ids -> Snaps \union {Nil}]

LEMMA DueType ==
  ASSUME NEW st \in Stores, NEW e \in Evs, NEW h, NEW w
  PROVE  /\ Due(st, e, h, w) \in Int
         /\ ~IsFillEvent(e) => Due(st, e, h, w) = 0
         /\ e.orderID \in Ids
         /\ IsFillEvent(e) => e.fillQty \in Int
<1>1. IsFillEvent(e) => e.fillQty \in Int
  BY Int64Facts DEF Evs, Events, IsFillEvent, PlainEventNames
<1>2. e.orderID \in Ids
  BY DEF Evs, Events
<1> QED BY <1>1, <1>2 DEF Due, Measured, Signed

LEMMA FilledType ==
  ASSUME NEW st \in Stores, NEW id \in Ids, NEW h, NEW w
  PROVE  Filled(st, id, h, w) \in Int
<1>1. st[id] # Nil => st[id].filledQty \in Int
  BY Int64Facts DEF Stores, Snaps, OrderSnapshots
<1> QED BY <1>1 DEF Filled, HeldIn, Measured, Signed

(* DueOf adds up event by event. *)
LEMMA DueOfFacts ==
  ASSUME NEW st \in Stores, NEW s \in Seq(Evs), NEW h, NEW w
  PROVE  /\ DueOf(st, s, h, w) \in Int
         /\ (\A i \in DOMAIN s : ~IsFillEvent(s[i])) => DueOf(st, s, h, w) = 0
<1> DEFINE f == [i \in 1 .. Len(s) |-> Due(st, s[i], h, w)]
           N == Len(s)
<1>1. N \in Nat /\ DOMAIN s = 1 .. N /\ \A i \in 1 .. N : s[i] \in Evs
  OBVIOUS
<1>2. DueOf(st, s, h, w) = Total(f, N)
  BY DEF DueOf
<1> HIDE DEF N
<1>3. f \in [1 .. N -> Int]
  BY <1>1, DueType DEF N
<1>4. \A i \in 1 .. N : f[i] = Due(st, s[i], h, w)
  BY DEF N
<1>5. ASSUME \A i \in DOMAIN s : ~IsFillEvent(s[i]) PROVE \A i \in 1 .. N : f[i] = 0
  BY <1>1, <1>4, <1>5, DueType
<1> HIDE DEF f
<1> QED BY <1>1, <1>2, <1>3, <1>5, TotalType, TotalZero

LEMMA DueOfAppend ==
  ASSUME NEW st \in Stores, NEW s \in Seq(Evs), NEW e \in Evs, NEW h, NEW w
  PROVE  DueOf(st, Append(s, e), h, w) = DueOf(st, s, h, w) + Due(st, e, h, w)
<1> DEFINE N == Len(s)
           t == Append(s, e)
           f == [i \in 1 .. N |-> Due(st, s[i], h, w)]
           g == [i \in 1 .. N + 1 |-> Due(st, t[i], h, w)]
<1>1. N \in Nat /\ \A i \in 1 .. N : s[i] \in Evs /\ t[i] = s[i]
  OBVIOUS
<1>2. Len(t) = N + 1 /\ t[N + 1] = e
  OBVIOUS
<1>3. DueOf(st, s, h, w) = Total(f, N) /\ DueOf(st, t, h, w) = Total(g, N + 1)
  BY <1>2 DEF DueOf
<1> HIDE DEF N, t
<1>4. \A i \in 1 .. N + 1 : i \in 1 .. N \/ i = N + 1
  BY <1>1
<1>5. \A i \in 1 .. N + 1 : t[i] \in Evs
  BY <1>1, <1>2, <1>4
<1>6. f \in [1 .. N -> Int] /\ g \in [1 .. N + 1 -> Int]
  BY <1>1, <1>5, DueType
<1>7. N + 1 \in 1 .. N + 1 /\ \A i \in 1 .. N : i \in 1 .. N + 1
  BY <1>1
<1>8. g[N + 1] = Due(st, e, h, w) /\ \A i \in 1 .. N : g[i] = f[i]
  BY <1>1, <1>2, <1>7
<1> HIDE DEF f, g
<1> QED BY <1>1, <1>3, <1>6, <1>8, TotalAppend DEF t

LEMMA DueOfTail ==
  ASSUME NEW st \in Stores, NEW s \in Seq(Evs), s # <<>>, NEW h, NEW w
  PROVE  DueOf(st, s, h, w) = Due(st, Head(s), h, w) + DueOf(st, Tail(s), h, w)
<1> DEFINE t == Tail(s)
           N == Len(t)
           f == [i \in 1 .. N |-> Due(st, t[i], h, w)]
           g == [i \in 1 .. N + 1 |-> Due(st, s[i], h, w)]
<1>1. N \in Nat /\ Len(s) = N + 1 /\ Head(s) = s[1]
      /\ \A i \in 1 .. N : t[i] = s[i + 1] /\ t[i] \in Evs
  OBVIOUS
<1>2. \A i \in 1 .. N + 1 : s[i] \in Evs
  BY <1>1
<1>3. DueOf(st, t, h, w) = Total(f, N) /\ DueOf(st, s, h, w) = Total(g, N + 1)
  BY <1>1 DEF DueOf
<1> HIDE DEF N, t
<1>4. f \in [1 .. N -> Int] /\ g \in [1 .. N + 1 -> Int]
  BY <1>1, <1>2, DueType
<1>5. 1 \in 1 .. N + 1 /\ \A i \in 1 .. N : i + 1 \in 1 .. N + 1
  BY <1>1
<1>6. g[1] = Due(st, Head(s), h, w) /\ \A i \in 1 .. N : g[i + 1] = f[i]
  BY <1>1, <1>5
<1> HIDE DEF f, g
<1> QED BY <1>1, <1>3, <1>4, <1>6, TotalTail DEF t

LEMMA DueOfSame ==
  ASSUME NEW st, NEW st2, NEW s \in Seq(Evs), NEW h, NEW w,
         \A i \in DOMAIN s : Due(st2, s[i], h, w) = Due(st, s[i], h, w)
  PROVE  DueOf(st2, s, h, w) = DueOf(st, s, h, w)
<1>1. DOMAIN s = 1 .. Len(s)
  OBVIOUS
<1>2. [i \in 1 .. Len(s) |-> Due(st2, s[i], h, w)] = [i \in 1 .. Len(s) |-> Due(st, s[i], h, w)]
  BY <1>1
<1> QED BY <1>2 DEF DueOf

(* One event alone. *)
LEMMA DueOfOne ==
  ASSUME NEW st \in Stores, NEW e \in Evs, NEW h, NEW w
  PROVE  /\ DueOf(st, <<e>>, h, w) = Due(st, e, h, w)
         /\ DueOf(st, <<>>, h, w) = 0
<1>1. <<>> \in Seq(Evs) /\ Append(<<>>, e) = <<e>>
      /\ \A i \in DOMAIN <<>> : ~IsFillEvent(<<>>[i])
  OBVIOUS
<1>2. DueOf(st, <<>>, h, w) = 0
  BY <1>1, DueOfFacts
<1>3. DueOf(st, <<e>>, h, w) = DueOf(st, <<>>, h, w) + Due(st, e, h, w)
  <2> DEFINE z == <<>>
  <2>1. z \in Seq(Evs) /\ Append(z, e) = <<e>>
    BY <1>1
  <2> HIDE DEF z
  <2>2. DueOf(st, Append(z, e), h, w) = DueOf(st, z, h, w) + Due(st, e, h, w)
    <3>1. \A s \in Seq(Evs) :
            DueOf(st, Append(s, e), h, w) = DueOf(st, s, h, w) + Due(st, e, h, w)
      BY DueOfAppend
    <3> QED BY <2>1, <3>1
  <2> QED BY <2>1, <2>2 DEF z
<1>4. Due(st, e, h, w) \in Int
  BY DueType
<1> QED BY <1>2, <1>3, <1>4

(***************************************************************************)
(* Events tell the truth about the store: an OrderPlaced, waiting or read, *)
(* carries the terms of the stored order, a fill is of a stored order and  *)
(* its notional does not overflow (the read model would count only half of *)
(* such a fill).                                                           *)
(***************************************************************************)
EventOK(st, e) ==
  /\ e.name = "OrderPlaced" => st[e.orderID] # Nil /\ st[e.orderID].terms = e.terms
  /\ IsFillEvent(e) => st[e.orderID] # Nil /\ MulQuantity(e.fillPrice, e.fillQty).ok

EventsOK(st, s) == \A i \in DOMAIN s : EventOK(st, s[i])

(* An order that was never filled, with events that say so. *)
Opens(o) ==
  /\ o.filledQty = 0
  /\ \A i \in DOMAIN o.events :
       /\ ~IsFillEvent(o.events[i])
       /\ o.events[i].name = "OrderPlaced" =>
            o.events[i].orderID = o.id /\ o.events[i].terms = o.terms

RequestTold(st, l, o) ==
  /\ l \in {"risk", "save", "register"} => Opens(o)
  /\ l \in {"register", "publish"} => EventsOK(st, o.events)

MetaOK(st, m) == \A id \in Ids : m[id] # Nil => st[id] # Nil /\ st[id].terms = m[id]

TInv ==
  /\ MetaOK(orders, meta)
  /\ EventsOK(orders, queue)
  /\ \A r \in Requests : RequestTold(orders, pc[r], order[r])

(* A stored order keeps its terms. *)
KeepsTerms(st, st2) ==
  \A id \in Ids : st[id] # Nil => st2[id] # Nil /\ st2[id].terms = st[id].terms

LEMMA EventsStable ==
  ASSUME NEW st, NEW st2, KeepsTerms(st, st2), NEW s \in Seq(Evs), EventsOK(st, s)
  PROVE  EventsOK(st2, s)
<1> SUFFICES ASSUME NEW i \in DOMAIN s PROVE EventOK(st2, s[i])
  BY DEF EventsOK
<1>1. s[i] \in Evs
  OBVIOUS
<1>2. s[i].orderID \in Ids
  BY <1>1 DEF Evs, Events
<1> QED BY <1>2 DEF EventsOK, EventOK, KeepsTerms

(* A fill or a cancel: one event, which says what was filled. *)
LEMMA PerformedTells ==
  ASSUME NEW s \in Snaps, FillsMatchStatus(s), NEW c \in Ops,
         Permits(RehydrateOrder(s), c)
  PROVE  LET p == Performed(RehydrateOrder(s), c)
         IN  /\ p.terms = s.terms
             /\ \E e \in Evs :
                  /\ p.events = <<e>> /\ e.orderID = s.id /\ e.name # "OrderPlaced"
                  /\ \/ /\ IsFillEvent(e) /\ p.filledQty = s.filledQty + e.fillQty
                        /\ MulQuantity(e.fillPrice, e.fillQty).ok
                     \/ ~IsFillEvent(e) /\ p.filledQty = s.filledQty
<1> DEFINE o == RehydrateOrder(s)
           p == Performed(o, c)
<1>1. /\ o \in Recs /\ o.id = s.id /\ o.events = <<>> /\ FillsMatchStatus(o)
  BY RehydrateFacts DEF Recs, Snaps
<1>2. o.terms = s.terms /\ o.filledQty = s.filledQty
  BY DEF RehydrateOrder
<1>3. Terms \subseteq TermRecords
  BY ServiceAssumption
<1> HIDE DEF o
<1>4. CASE c \in FillCmds
  <2>1. c.op = "fill" /\ c.qty \in Int64 /\ c.px \in Int64
    BY <1>4, ServiceAssumption DEF FillCmds
  <2>2. CanFill(o, c.qty, c.px) /\ p = Fill(o, c.qty, c.px)
    BY <2>1 DEF Permits, Performed, o
  <2>3. /\ p.terms = o.terms /\ p.filledQty = o.filledQty + c.qty /\ p.id = o.id
        /\ \E e \in Evs : p.events = Append(o.events, e) /\ Tells(e, p, c.qty, c.px)
    BY <1>1, <1>3, <2>1, <2>2, FillMethod DEF Recs, Evs
  <2>4. MulQuantity(c.px, c.qty).ok
    BY <2>2 DEF CanFill, FillAvg, FillNotional, Overflow
  <2> HIDE DEF p
  <2>5. PICK e \in Evs : p.events = <<e>> /\ Tells(e, p, c.qty, c.px)
    BY <1>1, <2>3
  <2>6. /\ e.orderID = s.id /\ e.name # "OrderPlaced" /\ IsFillEvent(e)
        /\ e.fillQty = c.qty /\ e.fillPrice = c.px
    BY <1>1, <2>3, <2>5 DEF Tells, IsFillEvent
  <2> QED BY <1>2, <2>3, <2>4, <2>5, <2>6 DEF p, o
<1>5. CASE c \in CancelCmds
  <2>1. c.op = "cancel"
    BY <1>5 DEF CancelCmds
  <2>2. canTransitionTo(o.status, "CANCELED") /\ p = Cancel(o)
    BY <2>1 DEF Permits, Performed, CanCancel, o
  <2>3. /\ p.terms = o.terms /\ p.filledQty = o.filledQty
        /\ p.events = Append(o.events, StatusEvent("OrderCanceled", o.id))
    BY <1>1, <1>3, <2>2, StatusMethod DEF Recs, Cancel, PlainEventNames, Statuses
  <2> HIDE DEF p
  <2> DEFINE e == StatusEvent("OrderCanceled", s.id)
  <2>4. /\ e \in Evs /\ e.orderID = s.id /\ e.name # "OrderPlaced" /\ ~IsFillEvent(e)
    <3>1. s.id \in Ids
      BY DEF Snaps, OrderSnapshots
    <3> QED BY <3>1 DEF StatusEvent, Evs, Events, PlainEventNames, IsFillEvent
  <2>5. p.events = <<e>>
    BY <1>1, <2>3
  <2> HIDE DEF e
  <2> QED BY <1>2, <2>3, <2>4, <2>5 DEF p, o
<1> QED BY <1>4, <1>5 DEF Ops

(* An order that was just created or decided. *)
LEMMA DecidedOpens ==
  ASSUME NEW id \in Ids, NEW t \in Terms, ValidTerms(t),
         NEW o \in {NewOrder(id, t), Accept(NewOrder(id, t)), Reject(NewOrder(id, t))}
  PROVE  Opens(o)
<1> DEFINE n == NewOrder(id, t)
           e == OrderPlaced(id, t)
<1>1. Terms \subseteq TermRecords
  BY ServiceAssumption
<1>2. n \in Recs /\ n.id = id /\ n.terms = t /\ n.status = "NEW" /\ Len(n.events) = 1
  BY <1>1, NewOrderFacts DEF Recs
<1>3. n.events[1] = e /\ n.filledQty = 0
  BY NewOrderEvent DEF NewOrder, raise
<1> HIDE DEF n
<1>4. n.events \in Seq(Events(Ids, Terms))
  BY <1>1, <1>2, OrderFields DEF Recs
<1>5. canTransitionTo(n.status, "ACCEPTED") /\ canTransitionTo(n.status, "REJECTED")
  BY <1>2 DEF canTransitionTo, legalTransitions, Statuses
<1>6. ~IsFillEvent(e) /\ e.orderID = id /\ e.terms = t
  BY DEF IsFillEvent, OrderPlaced
<1> HIDE DEF e
<1>7. CASE o = n
  BY <1>2, <1>3, <1>4, <1>6, <1>7 DEF Opens
<1>8. ASSUME NEW to \in {"ACCEPTED", "REJECTED"},
             NEW nm \in {"OrderAccepted", "OrderRejected"},
             o = raise(Transition(n, to), StatusEvent(nm, n.id))
      PROVE  Opens(o)
  <2>1. /\ o.id = n.id /\ o.terms = n.terms /\ o.filledQty = n.filledQty
        /\ o.events = Append(n.events, StatusEvent(nm, n.id))
    BY <1>1, <1>2, <1>5, <1>8, StatusMethod DEF Recs, PlainEventNames, Statuses
  <2>2. /\ DOMAIN o.events = 1 .. 2
        /\ o.events[1] = e /\ o.events[2] = StatusEvent(nm, id)
    BY <1>2, <1>3, <1>4, <2>1
  <2>3. ~IsFillEvent(StatusEvent(nm, id)) /\ StatusEvent(nm, id).name # "OrderPlaced"
    BY DEF IsFillEvent, StatusEvent
  <2>4. \A i \in DOMAIN o.events : i = 1 \/ i = 2
    BY <2>2
  <2> QED BY <1>2, <1>3, <1>6, <2>1, <2>2, <2>3, <2>4 DEF Opens
<1>9. o = n \/ o = Accept(n) \/ o = Reject(n)
  BY DEF n
<1> QED BY <1>7, <1>8, <1>9 DEF Accept, Reject

(* Whatever step is taken, a stored order keeps its terms. *)
LEMMA StepKeepsTerms ==
  ASSUME IInv, [Next]_vars
  PROVE  KeepsTerms(orders, orders')
<1>1. SharedOK
  BY SharedFromInv
<1>2. CASE UNCHANGED orders
  BY <1>2 DEF KeepsTerms
<1>3. ASSUME NEW id \in Ids, Ledger!Create(id) PROVE KeepsTerms(orders, orders')
  BY <1>1, <1>3 DEF Ledger!Create, KeepsTerms, SharedOK
<1>4. ASSUME NEW id \in Ids, NEW op \in Ops, Ledger!Apply(id, op)
      PROVE  KeepsTerms(orders, orders')
  <2> DEFINE s == orders[id]
             p == Performed(RehydrateOrder(s), op)
  <2>1. /\ s # Nil /\ Permits(RehydrateOrder(s), op)
        /\ orders' = [orders EXCEPT ![id] = Snapshot(p)]
    BY <1>4 DEF Ledger!Apply, Allowed, Effect
  <2>2. s \in Snaps /\ FillsMatchStatus(s)
    BY <1>1, <2>1 DEF SharedOK, StoreOK
  <2>3. p \in Recs /\ FillsMatchStatus(p)
    BY <2>1, <2>2, PerformedFacts
  <2>4. p.terms = s.terms
    BY <2>1, <2>2, PerformedTells
  <2> HIDE DEF p
  <2>5. Snapshot(p) # Nil /\ Snapshot(p).terms = p.terms
    <3>1. Snapshot(p) \in Snaps
      BY <2>3, SnapshotFacts, ServiceAssumption DEF Recs, Snaps
    <3> QED BY <3>1, ServiceAssumption DEF Snapshot, Snaps
  <2> QED BY <1>1, <2>1, <2>4, <2>5 DEF KeepsTerms, SharedOK
<1> QED BY <1>2, <1>3, <1>4, StepRefines DEF Ledger!Next

(* A step of request r. *)
LEMMA ToldStepOf ==
  ASSUME IInv, TInv, KeepsTerms(orders, orders'),
         MetaOK(orders', meta'), EventsOK(orders', queue'),
         NEW r \in Requests, NEW l, NEW o,
         pc' = [pc EXCEPT ![r] = l], order' = [order EXCEPT ![r] = o],
         RequestTold(orders', l, o)
  PROVE  TInv'
<1>1. ASSUME NEW q \in Requests
      PROVE  RequestTold(orders', pc'[q], order'[q])
  <2>1. CASE q = r
    BY <2>1 DEF IInv, TypeOK
  <2>2. CASE q # r
    <3>1. pc'[q] = pc[q] /\ order'[q] = order[q]
      BY <2>2 DEF IInv, TypeOK
    <3>2. RequestTold(orders, pc[q], order[q])
      BY DEF TInv
    <3>3. pc[q] \in {"register", "publish"} => order[q].events \in Seq(Evs)
      BY LocalFacts DEF RequestOK, Recs, OrderRecords, Evs
    <3>4. RequestTold(orders', pc[q], order[q])
      BY <3>2, <3>3, EventsStable DEF RequestTold
    <3> QED BY <3>1, <3>4
  <2> QED BY <2>1, <2>2
<1> QED BY <1>1 DEF TInv

(* A step that leaves the channel and the read model alone. *)
LEMMA ToldQuiet ==
  ASSUME IInv, TInv, [Next]_vars, UNCHANGED <<queue, readModel>>
  PROVE  /\ KeepsTerms(orders, orders')
         /\ MetaOK(orders', meta') /\ EventsOK(orders', queue')
<1>1. KeepsTerms(orders, orders')
  BY StepKeepsTerms
<1>2. MetaOK(orders', meta')
  BY <1>1 DEF TInv, MetaOK, KeepsTerms, readModel
<1>3. queue \in Seq(Evs) /\ EventsOK(orders, queue)
  BY SharedFromInv DEF SharedOK, TInv, Evs
<1>4. EventsOK(orders', queue)
  BY <1>1, <1>3, EventsStable
<1> QED BY <1>1, <1>2, <1>4

(* Steps after which request r has nothing to tell. *)
LEMMA SilentTold ==
  ASSUME IInv, TInv, [Next]_vars, UNCHANGED <<queue, readModel>>,
         NEW r \in Requests, NEW l \in {"idle", "lookup", "get", "update"}, NEW o,
         pc' = [pc EXCEPT ![r] = l], order' = [order EXCEPT ![r] = o]
  PROVE  TInv'
<1>1. RequestTold(orders', l, o)
  BY DEF RequestTold
<1> QED BY <1>1, ToldQuiet, ToldStepOf

(* Up to its publication a new order has no fills and the OrderPlaced in   *)
(* its buffer carries its terms.                                           *)
LEMMA PlacingOpens ==
  ASSUME IInv, TInv, NEW r \in Requests,
         \/ PlaceBuild(r) \/ RiskDecide(r) \/ RegisterKey(r)
         \/ SaveShard(r) /\ orders[order[r].id] = Nil
  PROVE  \E l \in {"risk", "save", "register", "publish"} : \E o \in Recs :
           /\ pc' = [pc EXCEPT ![r] = l] /\ order' = [order EXCEPT ![r] = o]
           /\ Opens(o)
           /\ l \in {"register", "publish"} => o = order[r]
<1>1. CASE PlaceBuild(r)
  <2>1. PICK id \in Ids : order' = [order EXCEPT ![r] = NewOrder(id, cmd[r].terms)]
    BY <1>1 DEF PlaceBuild, FreshIds
  <2> DEFINE o == NewOrder(id, cmd[r].terms)
  <2>2. cmd[r].terms \in Terms /\ ValidTerms(cmd[r].terms)
    BY <1>1, LocalFacts DEF RequestOK, PlaceBuild, PlaceCmds
  <2>3. Opens(o)
    BY <2>2, DecidedOpens
  <2>4. o \in Recs
    BY <2>2, NewOrderFacts, ServiceAssumption DEF Recs
  <2>5. pc' = [pc EXCEPT ![r] = "risk"]
    BY <1>1 DEF PlaceBuild, Goto
  <2> HIDE DEF o
  <2> QED BY <2>1, <2>3, <2>4, <2>5 DEF o
<1>2. CASE RiskDecide(r)
  <2>1. PICK o \in {Accept(order[r]), Reject(order[r])} :
          order' = [order EXCEPT ![r] = o]
    BY <1>2, LocalFacts DEF RiskDecide, IInv, TypeOK
  <2>2. PICK t \in Terms : ValidTerms(t) /\ order[r] = NewOrder(order[r].id, t)
    BY <1>2, LocalFacts DEF RequestOK, RiskDecide
  <2>3. order[r].id \in Ids
    BY <1>2, LocalFacts DEF RequestOK, RiskDecide, Recs, OrderRecords
  <2>4. Opens(o)
    BY <2>1, <2>2, <2>3, DecidedOpens
  <2>5. o \in Recs
    BY <2>1, <2>2, <2>3, DecidedFacts
  <2>6. pc' = [pc EXCEPT ![r] = "save"]
    BY <1>2 DEF RiskDecide, Goto
  <2> QED BY <2>1, <2>4, <2>5, <2>6
<1>3. CASE RegisterKey(r) \/ (SaveShard(r) /\ orders[order[r].id] = Nil)
  <2>1. Opens(order[r])
    BY <1>3 DEF TInv, RequestTold, RegisterKey, SaveShard
  <2>2. order[r] \in Recs /\ order' = [order EXCEPT ![r] = order[r]]
    BY <1>3, LocalFacts DEF RegisterKey, SaveShard, RequestOK
  <2>3. pc' = [pc EXCEPT ![r] = "publish"] \/ pc' = [pc EXCEPT ![r] = "register"]
    BY <1>3 DEF RegisterKey, SaveShard, Goto
  <2> QED BY <2>1, <2>2, <2>3
<1> QED BY <1>1, <1>2, <1>3

LEMMA PlacingTold ==
  ASSUME IInv, TInv, NEW r \in Requests,
         PlaceBuild(r) \/ RiskDecide(r) \/ SaveShard(r) \/ RegisterKey(r)
  PROVE  TInv'
<1>1. [Next]_vars /\ UNCHANGED <<queue, readModel>>
  BY DEF Next, Step, PlaceBuild, RiskDecide, SaveShard, RegisterKey
<1>2. CASE SaveShard(r) /\ orders[order[r].id] # Nil
  BY <1>1, <1>2, SilentTold DEF SaveShard, Return
<1>3. CASE \/ PlaceBuild(r) \/ RiskDecide(r) \/ RegisterKey(r)
           \/ SaveShard(r) /\ orders[order[r].id] = Nil
  <2>1. PICK l \in {"risk", "save", "register", "publish"} : \E o \in Recs :
          /\ pc' = [pc EXCEPT ![r] = l] /\ order' = [order EXCEPT ![r] = o]
          /\ Opens(o)
          /\ l \in {"register", "publish"} => o = order[r]
    BY <1>3, PlacingOpens
  <2>2. PICK o \in Recs :
          /\ pc' = [pc EXCEPT ![r] = l] /\ order' = [order EXCEPT ![r] = o]
          /\ Opens(o)
          /\ l \in {"register", "publish"} => o = order[r]
    BY <2>1
  <2>3. ASSUME l \in {"register", "publish"} PROVE EventsOK(orders', o.events)
    <3>1. o = order[r] /\ o.id \in Ids /\ pc \in [Requests -> Labels] /\ orders \in Stores
      BY <2>2, <2>3 DEF Recs, OrderRecords, IInv, TypeOK, Stores, Snaps
    <3>2. pc'[r] = l
      BY <2>2, <3>1
    <3>3. CASE RegisterKey(r)
      BY <3>1, <3>3 DEF RegisterKey, TInv, RequestTold
    <3>4. CASE SaveShard(r) /\ orders[order[r].id] = Nil
      <4>1. orders'[o.id] = Snapshot(o)
        BY <3>1, <3>4 DEF SaveShard, Stores
      <4>2. Snapshot(o) # Nil /\ Snapshot(o).terms = o.terms
        <5>1. Snapshot(o) \in Snaps
          BY <2>2, SnapshotFacts, ServiceAssumption DEF Recs, Snaps
        <5> QED BY <5>1, ServiceAssumption DEF Snapshot, Snaps
      <4> QED BY <2>2, <4>1, <4>2 DEF Opens, EventsOK, EventOK
    <3>5. CASE PlaceBuild(r) \/ RiskDecide(r)
      <4>1. pc'[r] \in {"risk", "save"}
        BY <3>1, <3>5 DEF PlaceBuild, RiskDecide, Goto
      <4> QED BY <2>3, <3>2, <4>1
    <3> QED BY <1>3, <3>3, <3>4, <3>5
  <2>4. RequestTold(orders', l, o)
    BY <2>2, <2>3 DEF RequestTold
  <2> QED BY <1>1, <2>2, <2>4, ToldQuiet, ToldStepOf
<1> QED BY <1>2, <1>3

(* What a matching update stores, and the event it is about to publish. *)
LEMMA UpdateTells ==
  ASSUME IInv, NEW r \in Requests, Update(r)
  PROVE  LET o == order[r]
             s == orders[o.id]
         IN  /\ o.id \in Ids /\ s \in Snaps /\ s # Nil
             /\ orders' = [orders EXCEPT ![o.id] = Snapshot(o)]
             /\ Snapshot(o) # Nil /\ Snapshot(o).terms = s.terms
             /\ Snapshot(o).filledQty = o.filledQty
             /\ \E e \in Evs :
                  /\ o.events = <<e>> /\ e.orderID = o.id /\ e.name # "OrderPlaced"
                  /\ \/ /\ IsFillEvent(e) /\ o.filledQty = s.filledQty + e.fillQty
                        /\ MulQuantity(e.fillPrice, e.fillQty).ok
                     \/ ~IsFillEvent(e) /\ o.filledQty = s.filledQty
<1> DEFINE o == order[r]
           s == orders[o.id]
<1>1. /\ o.id \in Ids /\ cmd[r] \in Ops /\ s \in Snaps
      /\ Permits(RehydrateOrder(s), cmd[r])
      /\ o = Performed(RehydrateOrder(s), cmd[r])
  BY MatchingUpdate DEF Update
<1>2. s # Nil /\ s.id = o.id /\ FillsMatchStatus(s)
  BY <1>1, SharedFromInv, ServiceAssumption DEF SharedOK, StoreOK, Update
<1>3. orders' = [orders EXCEPT ![o.id] = Snapshot(o)]
  BY DEF Update
<1>4. Snapshot(o) # Nil /\ Snapshot(o).terms = o.terms /\ Snapshot(o).filledQty = o.filledQty
  <2>1. o \in Recs
    BY LocalFacts DEF RequestOK, Update
  <2>2. Snapshot(o) \in Snaps
    BY <2>1, SnapshotFacts, ServiceAssumption DEF Recs, Snaps
  <2> QED BY <2>2, ServiceAssumption DEF Snapshot, Snaps
<1>5. /\ o.terms = s.terms
      /\ \E e \in Evs :
           /\ o.events = <<e>> /\ e.orderID = s.id /\ e.name # "OrderPlaced"
           /\ \/ /\ IsFillEvent(e) /\ o.filledQty = s.filledQty + e.fillQty
                 /\ MulQuantity(e.fillPrice, e.fillQty).ok
              \/ ~IsFillEvent(e) /\ o.filledQty = s.filledQty
  BY <1>1, <1>2, PerformedTells
<1> QED BY <1>1, <1>2, <1>3, <1>4, <1>5

LEMMA UpdateTold ==
  ASSUME IInv, TInv, NEW r \in Requests, Update(r)
  PROVE  TInv'
<1>1. [Next]_vars /\ UNCHANGED <<queue, readModel>>
  BY DEF Next, Step, Update
<1>2. pc' = [pc EXCEPT ![r] = "publish"] /\ order' = [order EXCEPT ![r] = order[r]]
  BY LocalFacts DEF Update, Goto
<1>3. EventsOK(orders', order[r].events)
  <2>1. PICK e \in Evs : /\ order[r].events = <<e>> /\ e.orderID = order[r].id
                         /\ e.name # "OrderPlaced"
                         /\ IsFillEvent(e) => MulQuantity(e.fillPrice, e.fillQty).ok
    BY UpdateTells
  <2>2. orders'[order[r].id] # Nil
    <3>1. orders \in Stores
      BY SharedFromInv DEF SharedOK, Stores
    <3> QED BY <3>1, UpdateTells DEF Stores
  <2>3. EventOK(orders', e)
    BY <2>1, <2>2 DEF EventOK
  <2> QED BY <2>1, <2>3 DEF EventsOK
<1>4. RequestTold(orders', "publish", order[r])
  BY <1>3 DEF RequestTold
<1> QED BY <1>1, <1>2, <1>4, ToldQuiet, ToldStepOf

(* Publishing one event: the head of the buffer moves to the end of the    *)
(* channel, what is left is published next.                                *)
LEMMA EnqueueMoves ==
  ASSUME IInv, NEW r \in Requests, Enqueue(r)
  PROVE  LET evs == order[r].events
         IN  /\ evs \in Seq(Evs) /\ evs # <<>> /\ queue \in Seq(Evs)
             /\ queue' = Append(queue, Head(evs))
             /\ orders' = orders /\ meta' = meta /\ byAccount' = byAccount
             /\ \E l \in {"publish", "route", "idle"}, o \in Recs \union {Nil} :
                  /\ pc' = [pc EXCEPT ![r] = l] /\ order' = [order EXCEPT ![r] = o]
                  /\ (IF l = "publish" THEN o.events ELSE <<>>) = Tail(evs)
<1> DEFINE evs == order[r].events
<1>1. /\ order[r] \in Recs /\ evs \in Seq(Evs) /\ Len(evs) > 0 /\ evs # <<>>
      /\ queue \in Seq(Evs)
  <2>1. order[r] \in Recs /\ evs \in Seq(Evs) /\ Len(evs) > 0
    BY LocalFacts DEF RequestOK, Enqueue, Recs, OrderRecords, Evs
  <2> QED BY <2>1, SharedFromInv DEF SharedOK, Evs
<1>2. /\ queue' = Append(queue, Head(evs))
      /\ orders' = orders /\ meta' = meta /\ byAccount' = byAccount
  BY DEF Enqueue, NextEvent, repo, readModel
<1>3. CASE Len(evs) > 1
  <2> DEFINE o == [order[r] EXCEPT !.events = Tail(evs)]
  <2>1. Tail(evs) \in Seq(Evs)
    BY <1>1
  <2>2. o \in Recs /\ o.events = Tail(evs)
    BY <1>1, <2>1 DEF Recs, OrderRecords, Evs
  <2>3. pc' = [pc EXCEPT ![r] = "publish"] /\ order' = [order EXCEPT ![r] = o]
    BY <1>3, LocalFacts DEF Enqueue
  <2> HIDE DEF o
  <2> QED BY <1>1, <1>2, <2>2, <2>3
<1>4. CASE Len(evs) <= 1
  <2>1. Tail(evs) = <<>>
    BY <1>1, <1>4
  <2>2. ~(Len(evs) > 1)
    BY <1>1, <1>4
  <2>3. CASE order[r].status = "ACCEPTED"
    <3> DEFINE o == ClearEvents(order[r])
    <3>1. <<>> \in Seq(Events(Ids, Terms))
      OBVIOUS
    <3>2. o \in Recs
      BY <1>1, <3>1 DEF Recs, OrderRecords, ClearEvents
    <3>3. pc' = [pc EXCEPT ![r] = "route"] /\ order' = [order EXCEPT ![r] = o]
      BY <2>2, <2>3 DEF Enqueue, Goto
    <3> HIDE DEF o
    <3> QED BY <1>1, <1>2, <2>1, <3>2, <3>3
  <2>4. CASE order[r].status # "ACCEPTED"
    <3>1. pc' = [pc EXCEPT ![r] = "idle"] /\ order' = [order EXCEPT ![r] = Nil]
      BY <2>2, <2>4 DEF Enqueue, Return
    <3> QED BY <1>1, <1>2, <2>1, <3>1
  <2> QED BY <2>3, <2>4
<1>5. Len(evs) > 1 \/ Len(evs) <= 1
  BY <1>1
<1> QED BY <1>3, <1>4, <1>5, Zenon

LEMMA EnqueueTold ==
  ASSUME IInv, TInv, NEW r \in Requests, Enqueue(r)
  PROVE  TInv'
<1> DEFINE evs == order[r].events
<1>1. /\ evs \in Seq(Evs) /\ evs # <<>> /\ queue \in Seq(Evs)
      /\ queue' = Append(queue, Head(evs))
      /\ orders' = orders /\ meta' = meta
  BY EnqueueMoves
<1>2. PICK l \in {"publish", "route", "idle"}, o \in Recs \union {Nil} :
        /\ pc' = [pc EXCEPT ![r] = l] /\ order' = [order EXCEPT ![r] = o]
        /\ (IF l = "publish" THEN o.events ELSE <<>>) = Tail(evs)
  BY EnqueueMoves
<1>3. EventsOK(orders, evs) /\ EventsOK(orders, queue)
  BY DEF TInv, RequestTold, Enqueue
<1> HIDE DEF evs
<1>4. EventOK(orders, Head(evs))
  <2>1. Head(evs) = evs[1] /\ 1 \in DOMAIN evs
    BY <1>1
  <2> QED BY <1>3, <2>1 DEF EventsOK
<1>5. EventsOK(orders', queue')
  <2>1. Head(evs) \in Evs
    BY <1>1
  <2>2. ASSUME NEW i \in DOMAIN queue'
        PROVE  queue'[i] = Head(evs) \/ (i \in DOMAIN queue /\ queue'[i] = queue[i])
    BY <1>1, <2>1
  <2> QED BY <1>1, <1>3, <1>4, <2>2 DEF EventsOK
<1>6. EventsOK(orders', Tail(evs))
  <2>1. \A i \in DOMAIN Tail(evs) : i + 1 \in DOMAIN evs /\ Tail(evs)[i] = evs[i + 1]
    BY <1>1
  <2> QED BY <1>1, <1>3, <2>1 DEF EventsOK
<1>7. RequestTold(orders', l, o)
  <2>1. CASE l = "publish"
    BY <1>2, <1>6, <2>1 DEF RequestTold
  <2>2. CASE l # "publish"
    BY <2>2 DEF RequestTold
  <2> QED BY <2>1, <2>2
<1>8. KeepsTerms(orders, orders') /\ MetaOK(orders', meta')
  BY <1>1 DEF KeepsTerms, TInv
<1> QED BY <1>2, <1>5, <1>7, <1>8, ToldStepOf

LEMMA ProjectTold ==
  ASSUME IInv, TInv, Project
  PROVE  TInv'
<1> DEFINE e == Head(queue)
<1>1. /\ queue \in Seq(Evs) /\ queue # <<>> /\ queue' = Tail(queue)
      /\ meta \in [Ids -> Terms \union {Nil}]
      /\ UNCHANGED <<orders, pc, order>>
  BY SharedFromInv DEF Project, WorkerReady, SharedOK, Evs, repo, local
<1>2. e \in Evs /\ EventOK(orders, e)
  <2>1. Head(queue) = queue[1] /\ 1 \in DOMAIN queue /\ Head(queue) \in Evs
    BY <1>1
  <2> QED BY <2>1 DEF TInv, EventsOK
<1>3. e.orderID \in Ids
  BY <1>2 DEF Evs, Events
<1>4. meta' = IF e.name = "OrderPlaced" THEN [meta EXCEPT ![e.orderID] = e.terms] ELSE meta
  BY DEF Project
<1> HIDE DEF e
<1>5. MetaOK(orders', meta')
  <2>1. CASE e.name = "OrderPlaced"
    BY <1>1, <1>2, <1>3, <1>4, <2>1 DEF TInv, MetaOK, EventOK
  <2>2. CASE e.name # "OrderPlaced"
    BY <1>1, <1>4, <2>2 DEF TInv, MetaOK
  <2> QED BY <2>1, <2>2
<1>6. EventsOK(orders', queue')
  <2>1. \A i \in DOMAIN Tail(queue) : i + 1 \in DOMAIN queue /\ Tail(queue)[i] = queue[i + 1]
    BY <1>1
  <2> QED BY <1>1, <2>1 DEF TInv, EventsOK
<1> QED BY <1>1, <1>5, <1>6 DEF TInv

LEMMA InitTold == Init => TInv
BY DEF Init, TInv, MetaOK, EventsOK, RequestTold

(* Begin, Load and the returns tell nothing. *)
LEMMA SilentStep ==
  ASSUME IInv, NEW r \in Requests,
         \/ Begin(r) \/ PlaceReplay(r) \/ BuildFails(r) \/ Load(r) \/ LoadFails(r)
         \/ UpdateFails(r) \/ Route(r) \/ (SaveShard(r) /\ orders[order[r].id] # Nil)
  PROVE  /\ UNCHANGED <<orders, queue, readModel>> /\ pc[r] # "publish"
         /\ \E l \in {"idle", "lookup", "get", "update"} : \E o :
              pc' = [pc EXCEPT ![r] = l] /\ order' = [order EXCEPT ![r] = o]
<1>1. CASE Begin(r)
  <2>1. order' = [order EXCEPT ![r] = order[r]]
    BY <1>1, LocalFacts DEF Begin, BeginPlace, BeginFill, BeginCancel
  <2> QED BY <1>1, <2>1 DEF Begin, BeginPlace, BeginFill, BeginCancel, Goto, repo
<1>2. CASE Load(r)
  BY <1>2 DEF Load, Goto, repo
<1>3. CASE \/ PlaceReplay(r) \/ BuildFails(r) \/ LoadFails(r) \/ UpdateFails(r)
           \/ Route(r) \/ (SaveShard(r) /\ orders[order[r].id] # Nil)
  BY <1>3 DEF PlaceReplay, BuildFails, LoadFails, UpdateFails, Route, SaveShard,
              Return, repo
<1> QED BY <1>1, <1>2, <1>3

LEMMA StepTold ==
  ASSUME IInv, TInv, [Next]_vars
  PROVE  TInv'
<1>1. CASE Project
  BY <1>1, ProjectTold
<1>2. ASSUME NEW r \in Requests, Begin(r) \/ Step(r) PROVE TInv'
  <2>1. CASE \/ Begin(r) \/ PlaceReplay(r) \/ BuildFails(r) \/ Load(r) \/ LoadFails(r)
             \/ UpdateFails(r) \/ Route(r)
    <3>1. UNCHANGED <<queue, readModel>>
      BY <2>1, SilentStep
    <3>2. PICK l \in {"idle", "lookup", "get", "update"} : \E o :
            pc' = [pc EXCEPT ![r] = l] /\ order' = [order EXCEPT ![r] = o]
      BY <2>1, SilentStep
    <3>3. PICK o : pc' = [pc EXCEPT ![r] = l] /\ order' = [order EXCEPT ![r] = o]
      BY <3>2
    <3> QED BY <3>1, <3>3, SilentTold
  <2> QED BY <1>2, <2>1, PlacingTold, EnqueueTold, UpdateTold DEF Step
<1>3. CASE UNCHANGED vars
  BY <1>3 DEF vars, TInv
<1> QED BY <1>1, <1>2, <1>3 DEF Next

(***************************************************************************)
(* The balance: what the read model serves, what waits in the channel and  *)
(* what the requests have still to publish, against what is stored.        *)
(***************************************************************************)
(* The outboxes of requests at labels p with local orders o. *)
BoxesOf(p, o) == [r \in Requests |-> IF p[r] = "publish" THEN o[r].events ELSE <<>>]

OwedIn(st, ob, h, w) == [r \in Requests |-> DueOf(st, ob[r], h, w)]

StoredIn(st, h, w) == [id \in Ids |-> Filled(st, id, h, w)]

Balanced(v, st, q, ob, h, w) ==
  Wrap(v + DueOf(st, q, h, w) + SumOver(Requests, OwedIn(st, ob, h, w)))
    = Wrap(SumOver(Ids, StoredIn(st, h, w)))

LEMMA ReconcileMeans ==
  /\ PositionsReconcile <=>
       \A h \in Holdings, w \in Measures :
         Balanced(Served(h, w), orders, queue, BoxesOf(pc, order), h, w)
  /\ PositionsReconcile' <=>
       \A h \in Holdings, w \in Measures :
         Balanced(Served(h, w)', orders', queue', BoxesOf(pc', order'), h, w)
<1>1. ASSUME NEW h, NEW w
      PROVE  [r \in Requests |-> DueOf(orders, Outbox(r), h, w)]
               = OwedIn(orders, BoxesOf(pc, order), h, w)
  BY DEF Outbox, OwedIn, BoxesOf
<1>2. ASSUME NEW h, NEW w
      PROVE  [r \in Requests |-> DueOf(orders, Outbox(r), h, w)]'
               = OwedIn(orders', BoxesOf(pc', order'), h, w)
  BY DEF Outbox, OwedIn, BoxesOf
<1>3. PositionsReconcile <=>
        \A h \in Holdings, w \in Measures :
          Balanced(Served(h, w), orders, queue, BoxesOf(pc, order), h, w)
  <2>1. ASSUME NEW h, NEW w
        PROVE  Balanced(Served(h, w), orders, queue, BoxesOf(pc, order), h, w) <=>
                 Wrap(Served(h, w) + DueOf(orders, queue, h, w)
                   + SumOver(Requests, [r \in Requests |-> DueOf(orders, Outbox(r), h, w)]))
                 = Wrap(SumOver(Ids, [id \in Ids |-> Filled(orders, id, h, w)]))
    BY <1>1 DEF Balanced, StoredIn
  <2> QED BY <2>1, Zenon DEF PositionsReconcile
<1>4. PositionsReconcile' <=>
        \A h \in Holdings, w \in Measures :
          Balanced(Served(h, w)', orders', queue', BoxesOf(pc', order'), h, w)
  <2>1. ASSUME NEW h, NEW w
        PROVE  Balanced(Served(h, w)', orders', queue', BoxesOf(pc', order'), h, w) <=>
                 (Wrap(Served(h, w) + DueOf(orders, queue, h, w)
                   + SumOver(Requests, [r \in Requests |-> DueOf(orders, Outbox(r), h, w)]))
                 = Wrap(SumOver(Ids, [id \in Ids |-> Filled(orders, id, h, w)])))'
    BY <1>2 DEF Balanced, StoredIn
  <2> QED BY <2>1, Zenon DEF PositionsReconcile
<1> QED BY <1>3, <1>4

(* All the terms are integers. *)
LEMMA BalanceTypes ==
  ASSUME NEW st \in Stores, NEW ob \in [Requests -> Seq(Evs)], NEW h, NEW w
  PROVE  /\ OwedIn(st, ob, h, w) \in [Requests -> Int]
         /\ StoredIn(st, h, w) \in [Ids -> Int]
         /\ SumOver(Requests, OwedIn(st, ob, h, w)) \in Int
         /\ SumOver(Ids, StoredIn(st, h, w)) \in Int
<1>1. OwedIn(st, ob, h, w) \in [Requests -> Int]
  BY DueOfFacts DEF OwedIn
<1>2. StoredIn(st, h, w) \in [Ids -> Int]
  BY FilledType DEF StoredIn
<1> QED BY <1>1, <1>2, SumOverType, ServiceAssumption

LEMMA ServedType ==
  ASSUME IInv, NEW h \in Holdings, NEW w
  PROVE  Served(h, w) \in Int
<1>1. byAccount[h] \in [netQty : Int64, totalCost : Int64, totalAbs : Int64]
  BY SharedFromInv DEF SharedOK
<1> QED BY <1>1, Int64Facts DEF Served

(* The events of every outbox are well typed and tell the truth. *)
LEMMA BoxFacts ==
  ASSUME IInv, TInv
  PROVE  /\ orders \in Stores /\ queue \in Seq(Evs)
         /\ BoxesOf(pc, order) \in [Requests -> Seq(Evs)]
         /\ \A r \in Requests : EventsOK(orders, BoxesOf(pc, order)[r])
         /\ EventsOK(orders, queue)
<1>1. orders \in Stores /\ queue \in Seq(Evs)
  BY SharedFromInv DEF SharedOK, Stores, Evs
<1>2. ASSUME NEW r \in Requests
      PROVE  /\ (IF pc[r] = "publish" THEN order[r].events ELSE <<>>) \in Seq(Evs)
             /\ EventsOK(orders, IF pc[r] = "publish" THEN order[r].events ELSE <<>>)
  <2>1. CASE pc[r] = "publish"
    <3>1. order[r].events \in Seq(Evs)
      BY <2>1, LocalFacts DEF RequestOK, Recs, OrderRecords, Evs
    <3>2. EventsOK(orders, order[r].events)
      BY <2>1 DEF TInv, RequestTold
    <3> QED BY <2>1, <3>1, <3>2
  <2>2. CASE pc[r] # "publish"
    <3>1. <<>> \in Seq(Evs) /\ EventsOK(orders, <<>>)
      BY DEF EventsOK
    <3> QED BY <2>2, <3>1
  <2> QED BY <2>1, <2>2
<1>3. /\ BoxesOf(pc, order) \in [Requests -> Seq(Evs)]
      /\ \A r \in Requests : EventsOK(orders, BoxesOf(pc, order)[r])
  BY <1>2 DEF BoxesOf
<1> QED BY <1>1, <1>3 DEF TInv

(* While stored orders keep their terms, events keep what they are due. *)
LEMMA DueOfStable ==
  ASSUME NEW st \in Stores, NEW st2 \in Stores, KeepsTerms(st, st2),
         NEW s \in Seq(Evs), EventsOK(st, s), NEW h, NEW w
  PROVE  DueOf(st2, s, h, w) = DueOf(st, s, h, w)
<1>1. ASSUME NEW i \in DOMAIN s PROVE Due(st2, s[i], h, w) = Due(st, s[i], h, w)
  <2>1. s[i] \in Evs /\ s[i].orderID \in Ids
    <3>1. s[i] \in Evs
      OBVIOUS
    <3> QED BY <3>1 DEF Evs, Events
  <2>2. EventOK(st, s[i])
    BY DEF EventsOK
  <2>3. CASE IsFillEvent(s[i])
    BY <2>1, <2>2, <2>3 DEF EventOK, KeepsTerms, Due, HeldIn
  <2>4. CASE ~IsFillEvent(s[i])
    BY <2>4 DEF Due
  <2> QED BY <2>3, <2>4
<1> QED BY <1>1, DueOfSame

(* A step of request r keeps the balance if it moves, in the store, the    *)
(* channel and its outbox together, as much one way as the other.          *)
LEMMA StepBalances ==
  ASSUME IInv, TInv, PositionsReconcile, byAccount' = byAccount,
         orders' \in Stores, KeepsTerms(orders, orders'), queue' \in Seq(Evs),
         NEW r \in Requests, NEW l, NEW o,
         pc' = [pc EXCEPT ![r] = l], order' = [order EXCEPT ![r] = o],
         NEW Y \in Seq(Evs), Y = IF l = "publish" THEN o.events ELSE <<>>,
         \A h \in Holdings, w \in Measures :
           DueOf(orders', queue', h, w) + DueOf(orders', Y, h, w)
             - SumOver(Ids, StoredIn(orders', h, w))
           = DueOf(orders, queue, h, w) + DueOf(orders, BoxesOf(pc, order)[r], h, w)
               - SumOver(Ids, StoredIn(orders, h, w))
  PROVE  PositionsReconcile'
<1> DEFINE ob == BoxesOf(pc, order)
           ob2 == BoxesOf(pc', order')
<1>1. /\ orders \in Stores /\ queue \in Seq(Evs) /\ ob \in [Requests -> Seq(Evs)]
      /\ \A q \in Requests : EventsOK(orders, ob[q])
  BY BoxFacts
<1>2. ob2 = [ob EXCEPT ![r] = Y]
  <2>1. ASSUME NEW q \in Requests PROVE ob2[q] = IF q = r THEN Y ELSE ob[q]
    <3>1. pc \in [Requests -> Labels] /\ order \in [Requests -> Recs \union {Nil}]
      BY DEF IInv, TypeOK, Recs
    <3>2. CASE q = r
      BY <3>1, <3>2 DEF BoxesOf
    <3>3. CASE q # r
      BY <3>1, <3>3 DEF BoxesOf
    <3> QED BY <3>2, <3>3
  <2>2. ob2 = [q \in Requests |-> ob2[q]] /\ ob = [q \in Requests |-> ob[q]]
    BY DEF BoxesOf
  <2> HIDE DEF ob, ob2
  <2> QED BY <2>1, <2>2
<1> HIDE DEF ob, ob2
<1>3. ob2 \in [Requests -> Seq(Evs)]
  BY <1>1, <1>2
<1>4. SUFFICES ASSUME NEW h \in Holdings, NEW w \in Measures,
                      Balanced(Served(h, w), orders, queue, ob, h, w)
               PROVE  Balanced(Served(h, w)', orders', queue', ob2, h, w)
  BY ReconcileMeans, Zenon DEF ob, ob2
<1> DEFINE O  == OwedIn(orders, ob, h, w)
           O2 == OwedIn(orders', ob2, h, w)
           D  == DueOf(orders, queue, h, w)
           D2 == DueOf(orders', queue', h, w)
           S  == SumOver(Ids, StoredIn(orders, h, w))
           S2 == SumOver(Ids, StoredIn(orders', h, w))
           v  == Served(h, w)
           a  == DueOf(orders', Y, h, w)
           b  == DueOf(orders, ob[r], h, w)
           x  == a - b
<1>5. O \in [Requests -> Int] /\ SumOver(Requests, O) \in Int /\ S \in Int
  BY <1>1, BalanceTypes
<1>6. O2 \in [Requests -> Int] /\ SumOver(Requests, O2) \in Int /\ S2 \in Int
  BY <1>3, BalanceTypes
<1>7. a \in Int /\ b \in Int /\ D \in Int /\ D2 \in Int /\ x \in Int
  <2>1. ob[r] \in Seq(Evs)
    BY <1>1
  <2>2. a \in Int /\ D2 \in Int
    BY DueOfFacts
  <2>3. b \in Int /\ D \in Int
    BY <1>1, <2>1, DueOfFacts
  <2> HIDE DEF a, b
  <2> QED BY <2>2, <2>3
<1>8. v \in Int /\ Served(h, w)' = v
  BY ServedType DEF Served
<1>9. \A q \in Requests : O2[q] = IF q = r THEN O[q] + x ELSE O[q]
  <2>1. ASSUME NEW q \in Requests
        PROVE  O[q] = DueOf(orders, ob[q], h, w) /\ O2[q] = DueOf(orders', ob2[q], h, w)
    BY DEF OwedIn
  <2>2. ASSUME NEW q \in Requests, q # r PROVE O2[q] = O[q]
    <3>1. ob2[q] = ob[q] /\ ob[q] \in Seq(Evs) /\ EventsOK(orders, ob[q])
      BY <1>1, <1>2, <2>2
    <3>2. DueOf(orders', ob[q], h, w) = DueOf(orders, ob[q], h, w)
      BY <1>1, <3>1, DueOfStable
    <3> QED BY <2>1, <3>1, <3>2
  <2>3. O2[r] = O[r] + x
    <3>1. ob2[r] = Y
      BY <1>1, <1>2
    <3>2. O2[r] = a /\ O[r] = b
      BY <2>1, <3>1
    <3> HIDE DEF O, O2, a, b
    <3> QED BY <1>7, <3>2
  <2> HIDE DEF O, O2, x
  <2> QED BY <2>2, <2>3
<1>10. D2 + a - S2 = D + b - S
  BY DEF ob
<1> HIDE DEF O, O2, a, b
<1>11. SumOver(Requests, O2) = SumOver(Requests, O) + x
  <2> HIDE DEF x
  <2>1. IsFiniteSet(Requests)
    BY ServiceAssumption
  <2> QED BY <1>5, <1>6, <1>7, <1>9, <2>1, SumOverChange
<1>12. Wrap(v + D + SumOver(Requests, O)) = Wrap(S)
  BY <1>4, Zenon DEF Balanced, O
<1>13. /\ (v + D + SumOver(Requests, O)) + (S2 - S) = v + D2 + SumOver(Requests, O2)
       /\ S + (S2 - S) = S2
       /\ S2 - S \in Int /\ v + D + SumOver(Requests, O) \in Int
  <2> DEFINE P  == SumOver(Requests, O)
             P2 == SumOver(Requests, O2)
  <2>1. P \in Int /\ P2 \in Int /\ P2 = P + (a - b)
    BY <1>5, <1>6, <1>11
  <2>2. a \in Int /\ b \in Int /\ D \in Int /\ D2 \in Int
    BY <1>7
  <2>3. v \in Int /\ S \in Int /\ S2 \in Int
    BY <1>5, <1>6, <1>8
  <2> HIDE DEF D, D2, S, S2, v, P, P2
  <2>4. /\ (v + D + P) + (S2 - S) = v + D2 + P2 /\ S + (S2 - S) = S2
        /\ S2 - S \in Int /\ v + D + P \in Int
    BY <1>10, <2>1, <2>2, <2>3
  <2> QED BY <2>4 DEF P, P2
<1> HIDE DEF D, D2, S, S2, v
<1>14. Wrap((v + D + SumOver(Requests, O)) + (S2 - S)) = Wrap(S + (S2 - S))
  BY <1>5, <1>12, <1>13, WrapAdds
<1>15. Wrap(v + D2 + SumOver(Requests, O2)) = Wrap(S2)
  BY <1>13, <1>14
<1> QED BY <1>8, <1>15 DEF Balanced, O2, D2, S2

(* Nothing is due from an empty outbox. *)
LEMMA NothingDue ==
  ASSUME NEW st \in Stores, NEW h, NEW w
  PROVE  <<>> \in Seq(Evs) /\ DueOf(st, <<>>, h, w) = 0
<1>1. <<>> \in Seq(Evs) /\ \A i \in DOMAIN <<>> : ~IsFillEvent(<<>>[i])
  OBVIOUS
<1> QED BY <1>1, DueOfFacts

LEMMA SilentBalances ==
  ASSUME IInv, TInv, PositionsReconcile, NEW r \in Requests,
         \/ Begin(r) \/ PlaceReplay(r) \/ BuildFails(r) \/ Load(r) \/ LoadFails(r)
         \/ UpdateFails(r) \/ Route(r) \/ (SaveShard(r) /\ orders[order[r].id] # Nil)
  PROVE  PositionsReconcile'
<1>1. UNCHANGED <<orders, queue, byAccount>> /\ pc[r] # "publish"
  BY SilentStep DEF readModel
<1>2. PICK l \in {"idle", "lookup", "get", "update"} : \E o :
        pc' = [pc EXCEPT ![r] = l] /\ order' = [order EXCEPT ![r] = o]
  BY SilentStep
<1>3. PICK o : pc' = [pc EXCEPT ![r] = l] /\ order' = [order EXCEPT ![r] = o]
  BY <1>2
<1> DEFINE Y == <<>>
<1>4. /\ Y = (IF l = "publish" THEN o.events ELSE <<>>) /\ BoxesOf(pc, order)[r] = Y
      /\ Y \in Seq(Evs)
  BY <1>1, <1>2 DEF BoxesOf
<1>5. orders' \in Stores /\ queue' \in Seq(Evs) /\ KeepsTerms(orders, orders')
  BY <1>1, BoxFacts DEF KeepsTerms
<1> HIDE DEF Y
<1>6. \A h \in Holdings, w \in Measures :
        DueOf(orders', queue', h, w) + DueOf(orders', Y, h, w)
          - SumOver(Ids, StoredIn(orders', h, w))
        = DueOf(orders, queue, h, w) + DueOf(orders, BoxesOf(pc, order)[r], h, w)
            - SumOver(Ids, StoredIn(orders, h, w))
  BY <1>1, <1>4
<1> QED BY <1>1, <1>3, <1>4, <1>5, <1>6, StepBalances

(* A new order has nothing filled and nothing to announce but itself. *)
LEMMA PlacingBalances ==
  ASSUME IInv, TInv, PositionsReconcile, NEW r \in Requests,
         \/ PlaceBuild(r) \/ RiskDecide(r) \/ RegisterKey(r)
         \/ SaveShard(r) /\ orders[order[r].id] = Nil
  PROVE  PositionsReconcile'
<1>1. PICK l \in {"risk", "save", "register", "publish"} : \E o \in Recs :
        /\ pc' = [pc EXCEPT ![r] = l] /\ order' = [order EXCEPT ![r] = o]
        /\ Opens(o)
        /\ l \in {"register", "publish"} => o = order[r]
  BY PlacingOpens
<1>2. PICK o \in Recs :
        /\ pc' = [pc EXCEPT ![r] = l] /\ order' = [order EXCEPT ![r] = o] /\ Opens(o)
  BY <1>1
<1>3. UNCHANGED <<queue, byAccount>> /\ pc[r] # "publish" /\ [Next]_vars
  BY DEF PlaceBuild, RiskDecide, RegisterKey, SaveShard, readModel, Next, Step
<1>4. /\ orders \in Stores /\ queue \in Seq(Evs) /\ EventsOK(orders, queue)
  BY BoxFacts
<1>5. IInv'
  BY <1>3, StepInv
<1>6. orders' \in Stores
  BY <1>5 DEF IInv, TypeOK, Stores, Snaps
<1>7. KeepsTerms(orders, orders')
  BY <1>3, StepKeepsTerms
<1> DEFINE Y == IF l = "publish" THEN o.events ELSE <<>>
<1>8. Y \in Seq(Evs) /\ \A i \in DOMAIN Y : ~IsFillEvent(Y[i])
  <2>1. o.events \in Seq(Evs) /\ \A i \in DOMAIN o.events : ~IsFillEvent(o.events[i])
    BY <1>2 DEF Recs, OrderRecords, Evs, Opens
  <2>2. <<>> \in Seq(Evs) /\ \A i \in DOMAIN <<>> : ~IsFillEvent(<<>>[i])
    OBVIOUS
  <2>3. CASE l = "publish"
    BY <2>1, <2>3
  <2>4. CASE l # "publish"
    BY <2>2, <2>4
  <2> QED BY <2>3, <2>4
<1>9. BoxesOf(pc, order)[r] = <<>>
  BY <1>3 DEF BoxesOf
<1>10. ASSUME NEW h \in Holdings, NEW w \in Measures
       PROVE  StoredIn(orders', h, w) = StoredIn(orders, h, w)
  <2>1. CASE UNCHANGED orders
    BY <2>1
  <2>2. CASE SaveShard(r) /\ orders[order[r].id] = Nil
    <3>1. /\ order[r] \in Recs /\ order[r].id \in Ids
          /\ orders' = [orders EXCEPT ![order[r].id] = Snapshot(order[r])]
      BY <2>2, LocalFacts DEF SaveShard, RequestOK, Recs, OrderRecords
    <3>2. Snapshot(order[r]).filledQty = 0
      BY <2>2 DEF SaveShard, TInv, RequestTold, Opens, Snapshot
    <3>3. ASSUME NEW id \in Ids PROVE Filled(orders', id, h, w) = Filled(orders, id, h, w)
      <4>1. CASE id = order[r].id
        <5>1. Filled(orders, id, h, w) = 0
          BY <2>2, <4>1 DEF Filled, HeldIn
        <5>2. orders'[id].filledQty = 0
          BY <1>4, <3>1, <3>2, <4>1 DEF Stores
        <5> QED BY <5>1, <5>2 DEF Filled, Measured, Signed
      <4>2. CASE id # order[r].id
        <5>1. orders'[id] = orders[id]
          BY <1>4, <3>1, <4>2 DEF Stores
        <5> QED BY <5>1 DEF Filled, HeldIn
      <4> QED BY <4>1, <4>2
    <3> QED BY <3>3 DEF StoredIn
  <2> QED BY <2>1, <2>2 DEF PlaceBuild, RiskDecide, RegisterKey, repo
<1> HIDE DEF Y
<1>11. \A h \in Holdings, w \in Measures :
        DueOf(orders', queue', h, w) + DueOf(orders', Y, h, w)
          - SumOver(Ids, StoredIn(orders', h, w))
        = DueOf(orders, queue, h, w) + DueOf(orders, BoxesOf(pc, order)[r], h, w)
            - SumOver(Ids, StoredIn(orders, h, w))
  <2> TAKE h \in Holdings, w \in Measures
  <2>1. DueOf(orders', queue', h, w) = DueOf(orders, queue, h, w)
    BY <1>3, <1>4, <1>6, <1>7, DueOfStable
  <2>2. DueOf(orders', Y, h, w) = 0
    BY <1>6, <1>8, DueOfFacts
  <2>3. DueOf(orders, BoxesOf(pc, order)[r], h, w) = 0
    BY <1>4, <1>9, NothingDue
  <2> QED BY <1>10, <2>1, <2>2, <2>3
<1>12. queue' \in Seq(Evs) /\ Y = IF l = "publish" THEN o.events ELSE <<>>
  BY <1>3, <1>4 DEF Y
<1> QED BY <1>2, <1>3, <1>6, <1>7, <1>8, <1>11, <1>12, StepBalances

(* What a fill adds to the stored order its event is due to add to the     *)
(* holding.                                                                *)
LEMMA UpdateBalances ==
  ASSUME IInv, TInv, PositionsReconcile, NEW r \in Requests, Update(r)
  PROVE  PositionsReconcile'
<1> DEFINE o == order[r]
           s == orders[o.id]
<1>1. /\ o.id \in Ids /\ s \in Snaps /\ s # Nil
      /\ orders' = [orders EXCEPT ![o.id] = Snapshot(o)]
      /\ Snapshot(o) # Nil /\ Snapshot(o).terms = s.terms
      /\ Snapshot(o).filledQty = o.filledQty
  BY UpdateTells
<1>2. PICK e \in Evs :
        /\ o.events = <<e>> /\ e.orderID = o.id
        /\ \/ IsFillEvent(e) /\ o.filledQty = s.filledQty + e.fillQty
           \/ ~IsFillEvent(e) /\ o.filledQty = s.filledQty
  BY UpdateTells
<1>3. /\ pc' = [pc EXCEPT ![r] = "publish"] /\ order' = [order EXCEPT ![r] = o]
      /\ UNCHANGED <<queue, byAccount>> /\ pc[r] # "publish" /\ [Next]_vars
  BY LocalFacts DEF Update, Goto, readModel, Next, Step
<1>4. /\ orders \in Stores /\ queue \in Seq(Evs) /\ EventsOK(orders, queue)
  BY BoxFacts
<1>5. IInv'
  BY <1>3, StepInv
<1>6. orders' \in Stores
  BY <1>5 DEF IInv, TypeOK, Stores, Snaps
<1>7. KeepsTerms(orders, orders')
  BY <1>3, StepKeepsTerms
<1> DEFINE Y == <<e>>
<1>8. /\ Y \in Seq(Evs) /\ Y = (IF "publish" = "publish" THEN o.events ELSE <<>>)
      /\ BoxesOf(pc, order)[r] = <<>>
  BY <1>2, <1>3 DEF BoxesOf
<1>9. /\ s.filledQty \in Int /\ (IsFillEvent(e) => e.fillQty \in Int)
  <2>1. s.filledQty \in Int
    BY <1>1, Int64Facts DEF Snaps, OrderSnapshots
  <2> QED BY <1>4, <2>1, DueType
<1>10. orders'[o.id] = Snapshot(o) /\ \A id \in Ids \ {o.id} : orders'[id] = orders[id]
  BY <1>1, <1>4 DEF Stores
<1> HIDE DEF o, s
<1>11. ASSUME NEW h \in Holdings, NEW w \in Measures
       PROVE  SumOver(Ids, StoredIn(orders', h, w))
                = SumOver(Ids, StoredIn(orders, h, w)) + Due(orders', e, h, w)
  <2> DEFINE f == StoredIn(orders, h, w)
             g == StoredIn(orders', h, w)
             d == Due(orders', e, h, w)
  <2>1. f \in [Ids -> Int] /\ g \in [Ids -> Int] /\ d \in Int
    BY <1>4, <1>6, BoxFacts, BalanceTypes, DueType
  <2>2. Filled(orders', o.id, h, w) = Filled(orders, o.id, h, w) + d
    <3>1. HeldIn(orders', o.id, h) <=> HeldIn(orders, o.id, h)
      BY <1>1, <1>10 DEF HeldIn, s
    <3>2. CASE ~HeldIn(orders, o.id, h)
      BY <1>2, <3>1, <3>2 DEF Filled, Due
    <3>3. CASE HeldIn(orders, o.id, h)
      <4> DEFINE side == s.terms.side
      <4>1. /\ Filled(orders, o.id, h, w) = Measured(w, side, s.filledQty)
            /\ Filled(orders', o.id, h, w) = Measured(w, side, o.filledQty)
            /\ d = IF IsFillEvent(e) THEN Measured(w, side, e.fillQty) ELSE 0
        BY <1>1, <1>2, <1>10, <3>1, <3>3 DEF Filled, Due, s
      <4> HIDE DEF side, d
      <4>2. CASE IsFillEvent(e)
        BY <1>2, <1>9, <4>1, <4>2 DEF Measured, Signed
      <4>3. CASE ~IsFillEvent(e)
        BY <1>2, <1>9, <4>1, <4>3 DEF Measured, Signed
      <4> QED BY <4>2, <4>3
    <3> QED BY <3>2, <3>3
  <2>3. ASSUME NEW id \in Ids PROVE g[id] = IF id = o.id THEN f[id] + d ELSE f[id]
    <3>1. f[id] = Filled(orders, id, h, w) /\ g[id] = Filled(orders', id, h, w)
      BY DEF StoredIn
    <3>2. id # o.id => Filled(orders', id, h, w) = Filled(orders, id, h, w)
      BY <1>10 DEF Filled, HeldIn
    <3> HIDE DEF f, g, d
    <3> QED BY <2>2, <3>1, <3>2
  <2>4. IsFiniteSet(Ids) /\ o.id \in Ids
    BY <1>1, ServiceAssumption
  <2> HIDE DEF f, g, d
  <2>5. SumOver(Ids, g) = SumOver(Ids, f) + d
    BY <2>1, <2>3, <2>4, SumOverChange
  <2> QED BY <2>5 DEF f, g, d
<1> HIDE DEF Y
<1>12. \A h \in Holdings, w \in Measures :
        DueOf(orders', queue', h, w) + DueOf(orders', Y, h, w)
          - SumOver(Ids, StoredIn(orders', h, w))
        = DueOf(orders, queue, h, w) + DueOf(orders, BoxesOf(pc, order)[r], h, w)
            - SumOver(Ids, StoredIn(orders, h, w))
  <2> TAKE h \in Holdings, w \in Measures
  <2> DEFINE D  == DueOf(orders, queue, h, w)
             S  == SumOver(Ids, StoredIn(orders, h, w))
             S2 == SumOver(Ids, StoredIn(orders', h, w))
             d  == Due(orders', e, h, w)
  <2>1. DueOf(orders', queue', h, w) = D
    BY <1>3, <1>4, <1>6, <1>7, DueOfStable
  <2>2. DueOf(orders', Y, h, w) = d
    BY <1>6, DueOfOne DEF Y
  <2>3. DueOf(orders, BoxesOf(pc, order)[r], h, w) = 0
    BY <1>4, <1>8, NothingDue
  <2>4. D \in Int /\ S \in Int /\ d \in Int
    BY <1>4, <1>6, BoxFacts, BalanceTypes, DueType, DueOfFacts
  <2>5. S2 = S + d
    BY <1>11
  <2> HIDE DEF D, S, S2, d
  <2>6. D + d - S2 = D + 0 - S
    BY <2>4, <2>5
  <2> QED BY <2>1, <2>2, <2>3, <2>6 DEF D, S, S2
<1>13. queue' \in Seq(Evs)
  BY <1>3, <1>4
<1> QED BY <1>3, <1>6, <1>7, <1>8, <1>12, <1>13, StepBalances

(* Publishing moves what is due from the outbox into the channel. *)
LEMMA EnqueueBalances ==
  ASSUME IInv, TInv, PositionsReconcile, NEW r \in Requests, Enqueue(r)
  PROVE  PositionsReconcile'
<1> DEFINE evs == order[r].events
<1>1. /\ evs \in Seq(Evs) /\ evs # <<>> /\ queue \in Seq(Evs)
      /\ queue' = Append(queue, Head(evs))
      /\ orders' = orders /\ byAccount' = byAccount
  BY EnqueueMoves
<1>2. PICK l \in {"publish", "route", "idle"}, o \in Recs \union {Nil} :
        /\ pc' = [pc EXCEPT ![r] = l] /\ order' = [order EXCEPT ![r] = o]
        /\ (IF l = "publish" THEN o.events ELSE <<>>) = Tail(evs)
  BY EnqueueMoves
<1>3. BoxesOf(pc, order)[r] = evs
  BY DEF BoxesOf, Enqueue
<1> HIDE DEF evs
<1> DEFINE Y == Tail(evs)
<1>4. Y \in Seq(Evs) /\ queue' \in Seq(Evs) /\ Head(evs) \in Evs
  BY <1>1
<1>5. orders \in Stores /\ orders' \in Stores /\ KeepsTerms(orders, orders')
  BY <1>1, BoxFacts DEF KeepsTerms
<1> HIDE DEF Y
<1>6. \A h \in Holdings, w \in Measures :
        DueOf(orders', queue', h, w) + DueOf(orders', Y, h, w)
          - SumOver(Ids, StoredIn(orders', h, w))
        = DueOf(orders, queue, h, w) + DueOf(orders, BoxesOf(pc, order)[r], h, w)
            - SumOver(Ids, StoredIn(orders, h, w))
  <2> TAKE h \in Holdings, w \in Measures
  <2> DEFINE D  == DueOf(orders, queue, h, w)
             S  == SumOver(Ids, StoredIn(orders, h, w))
             T  == DueOf(orders, Y, h, w)
             d  == Due(orders, Head(evs), h, w)
  <2>1. DueOf(orders', queue', h, w) = D + d
    BY <1>1, <1>4, <1>5, DueOfAppend
  <2>2. DueOf(orders, BoxesOf(pc, order)[r], h, w) = d + T
    BY <1>1, <1>3, <1>5, DueOfTail DEF Y
  <2>3. D \in Int /\ S \in Int /\ d \in Int /\ T \in Int
    BY <1>1, <1>4, <1>5, BoxFacts, BalanceTypes, DueType, DueOfFacts
  <2>4. DueOf(orders', Y, h, w) = T /\ SumOver(Ids, StoredIn(orders', h, w)) = S
    BY <1>1
  <2> HIDE DEF D, S, T, d
  <2>5. (D + d) + T - S = D + (d + T) - S
    BY <2>3
  <2> QED BY <2>1, <2>2, <2>4, <2>5 DEF D, S
<1>7. Y = IF l = "publish" THEN o.events ELSE <<>>
  BY <1>2 DEF Y
<1> QED BY <1>1, <1>2, <1>4, <1>5, <1>6, <1>7, StepBalances

(* The worker adds to each position exactly what the event at the head of  *)
(* the channel is due to add, up to int64 wrap-around: it knows the order  *)
(* (its OrderPlaced came first), under the terms that are stored.          *)
LEMMA ProjectServes ==
  ASSUME IInv, AInv, TInv, Project, NEW h \in Holdings, NEW w \in Measures
  PROVE  LET d == Due(orders, Head(queue), h, w)
         IN  \/ d = 0 /\ Served(h, w)' = Served(h, w)
             \/ Served(h, w)' = Wrap(Served(h, w) + d)
<1> DEFINE e == Head(queue)
           d == Due(orders, e, h, w)
           v == Served(h, w)
<1>1. /\ queue \in Seq(Evs) /\ queue # <<>> /\ meta \in [Ids -> Terms \union {Nil}]
      /\ byAccount \in [Holdings -> [netQty : Int64, totalCost : Int64, totalAbs : Int64]]
  BY SharedFromInv DEF Project, WorkerReady, SharedOK, Evs
<1>2. e \in Evs /\ EventOK(orders, e) /\ (IsFillEvent(e) => meta[e.orderID] # Nil)
  <2>1. Head(queue) = queue[1] /\ 1 \in DOMAIN queue /\ Head(queue) \in Evs
    BY <1>1
  <2>2. 1 .. 1 - 1 = {}
    OBVIOUS
  <2>3. IsFillEvent(e) => meta[e.orderID] # Nil
    BY <2>1, <2>2 DEF AInv, PlacedProjectedBeforeFills
  <2> QED BY <2>1, <2>3 DEF TInv, EventsOK
<1>3. e.orderID \in Ids
  BY <1>2 DEF Evs, Events
<1>4. byAccount' = IF IsFillEvent(e) /\ meta[e.orderID] # Nil
                   THEN applyFill(meta[e.orderID], e) ELSE byAccount
  BY DEF Project
<1> HIDE DEF e
<1>5. CASE ~IsFillEvent(e)
  BY <1>4, <1>5 DEF Due, Served, e
<1>6. CASE IsFillEvent(e)
  <2> DEFINE m  == meta[e.orderID]
             h0 == <<m.account, m.symbol>>
             n  == MulQuantity(e.fillPrice, e.fillQty)
             p  == byAccount[h0]
  <2>1. /\ m \in Terms /\ m # Nil /\ orders[e.orderID] # Nil
        /\ orders[e.orderID].terms = m /\ n.ok
    BY <1>1, <1>2, <1>3, <1>6 DEF TInv, MetaOK, EventOK
  <2>2. h0 \in Holdings
    BY <2>1 DEF Holdings
  <2>3. byAccount' = [byAccount EXCEPT ![h0] =
                        [netQty |-> Wrap(p.netQty + Signed(m.side, e.fillQty)),
                         totalCost |-> Wrap(p.totalCost + n.val),
                         totalAbs |-> Wrap(p.totalAbs + e.fillQty)]]
    BY <1>4, <1>6, <2>1 DEF applyFill
  <2>4. d = IF h0 = h THEN Measured(w, m.side, e.fillQty) ELSE 0
    BY <1>6, <2>1 DEF Due, HeldIn
  <2> HIDE DEF m, h0, n
  <2>5. CASE h0 # h
    <3>1. byAccount'[h] = byAccount[h]
      BY <1>1, <2>3, <2>5
    <3> QED BY <2>4, <2>5, <3>1 DEF Served, e
  <2>6. CASE h0 = h
    <3>1. byAccount'[h] = [netQty |-> Wrap(p.netQty + Signed(m.side, e.fillQty)),
                           totalCost |-> Wrap(p.totalCost + n.val),
                           totalAbs |-> Wrap(p.totalAbs + e.fillQty)]
      BY <1>1, <2>2, <2>3, <2>6
    <3>2. d = Measured(w, m.side, e.fillQty) /\ p = byAccount[h]
      BY <2>4, <2>6
    <3>3. CASE w = "net"
      <4>1. Served(h, w)' = Wrap(byAccount[h].netQty + Signed(m.side, e.fillQty))
        BY <3>1, <3>2, <3>3 DEF Served
      <4>2. d = Signed(m.side, e.fillQty) /\ v = byAccount[h].netQty
        BY <3>2, <3>3 DEF Measured, Served
      <4> QED BY <4>1, <4>2 DEF e
    <3>4. CASE w = "gross"
      <4>1. Served(h, w)' = Wrap(byAccount[h].totalAbs + e.fillQty)
        BY <3>1, <3>2, <3>4 DEF Served
      <4>2. d = e.fillQty /\ v = byAccount[h].totalAbs
        BY <3>2, <3>4 DEF Measured, Served
      <4> QED BY <4>1, <4>2 DEF e
    <3> QED BY <3>3, <3>4 DEF Measures
  <2> QED BY <2>5, <2>6
<1> QED BY <1>5, <1>6

LEMMA ProjectBalances ==
  ASSUME IInv, AInv, TInv, PositionsReconcile, Project
  PROVE  PositionsReconcile'
<1> DEFINE ob == BoxesOf(pc, order)
<1>1. /\ orders \in Stores /\ queue \in Seq(Evs) /\ ob \in [Requests -> Seq(Evs)]
  BY BoxFacts
<1>2. /\ queue # <<>> /\ queue' = Tail(queue) /\ orders' = orders
      /\ BoxesOf(pc', order') = ob
  BY DEF Project, WorkerReady, repo, local
<1> HIDE DEF ob
<1>3. SUFFICES ASSUME NEW h \in Holdings, NEW w \in Measures,
                      Balanced(Served(h, w), orders, queue, ob, h, w)
               PROVE  Balanced(Served(h, w)', orders', queue', BoxesOf(pc', order'), h, w)
  BY ReconcileMeans, Zenon DEF ob
<1> DEFINE v  == Served(h, w)
           v2 == Served(h, w)'
           d  == Due(orders, Head(queue), h, w)
           D  == DueOf(orders, queue, h, w)
           D2 == DueOf(orders, queue', h, w)
           O  == SumOver(Requests, OwedIn(orders, ob, h, w))
           S  == SumOver(Ids, StoredIn(orders, h, w))
<1>4. D = d + D2
  BY <1>1, <1>2, DueOfTail
<1>5. Head(queue) \in Evs /\ queue' \in Seq(Evs)
  BY <1>1, <1>2
<1>6. d \in Int /\ D2 \in Int /\ O \in Int /\ v \in Int
  BY <1>1, <1>5, DueType, DueOfFacts, BalanceTypes, ServedType
<1>7. (d = 0 /\ v2 = v) \/ v2 = Wrap(v + d)
  BY ProjectServes
<1>8. Wrap(v + D + O) = Wrap(S)
  BY <1>3, Zenon DEF Balanced
<1>9. Balanced(Served(h, w)', orders', queue', BoxesOf(pc', order'), h, w)
        <=> Wrap(v2 + D2 + O) = Wrap(S)
  BY <1>2 DEF Balanced
<1> HIDE DEF v, v2, d, D, D2, O, S
<1>10. Wrap(v2 + D2 + O) = Wrap(S)
  <2>1. v + D + O = (v + d) + (D2 + O)
    BY <1>4, <1>6
  <2>2. CASE d = 0 /\ v2 = v
    <3>1. v2 + D2 + O = v + D + O
      BY <1>4, <1>6, <2>2
    <3> QED BY <1>8, <3>1
  <2>3. CASE v2 = Wrap(v + d)
    <3>1. v + d \in Int /\ D2 + O \in Int
      BY <1>6
    <3>2. Wrap(Wrap(v + d) + (D2 + O)) = Wrap((v + d) + (D2 + O))
      BY <3>1, WrapAdds
    <3>3. v2 \in Int
      BY <2>3, <3>1, WrapType, Int64Facts
    <3>4. v2 + D2 + O = Wrap(v + d) + (D2 + O)
      BY <1>6, <2>3, <3>3
    <3> QED BY <1>8, <2>1, <3>2, <3>4
  <2> QED BY <1>7, <2>2, <2>3
<1> QED BY <1>9, <1>10

(* At the start nothing is served, due or filled. *)
LEMMA InitBalances == Init => PositionsReconcile
<1> SUFFICES ASSUME Init PROVE PositionsReconcile
  OBVIOUS
<1>1. IInv /\ TInv
  BY InitInv, InitTold
<1>2. SUFFICES ASSUME NEW h \in Holdings, NEW w \in Measures
               PROVE  Balanced(Served(h, w), orders, queue, BoxesOf(pc, order), h, w)
  BY ReconcileMeans, Zenon
<1> DEFINE ob == BoxesOf(pc, order)
           O  == OwedIn(orders, ob, h, w)
           F  == StoredIn(orders, h, w)
<1>3. orders \in Stores /\ ob \in [Requests -> Seq(Evs)]
  BY <1>1, BoxFacts
<1>4. Served(h, w) = 0 /\ queue = <<>>
  BY DEF Init, Served, EmptyPosition
<1>5. DueOf(orders, queue, h, w) = 0
  BY <1>3, <1>4, NothingDue
<1>6. O \in [Requests -> Int] /\ \A r \in Requests : O[r] = 0
  <2>1. O \in [Requests -> Int]
    BY <1>3, BalanceTypes
  <2>2. ASSUME NEW r \in Requests PROVE O[r] = 0
    <3>1. ob[r] = <<>>
      BY DEF Init, BoxesOf
    <3>2. DueOf(orders, ob[r], h, w) = 0
      BY <1>3, <3>1, NothingDue
    <3> QED BY <3>2 DEF OwedIn
  <2> QED BY <2>1, <2>2
<1>7. F \in [Ids -> Int] /\ \A id \in Ids : F[id] = 0
  <2>1. F \in [Ids -> Int]
    BY <1>3, BalanceTypes
  <2> QED BY <2>1 DEF Init, StoredIn, Filled, HeldIn
<1> HIDE DEF O, F, ob
<1>8. SumOver(Requests, O) = 0 /\ SumOver(Ids, F) = 0
  BY <1>6, <1>7, SumOverZero, ServiceAssumption
<1> QED BY <1>4, <1>5, <1>8 DEF Balanced, O, F, ob

LEMMA StepReconciles ==
  ASSUME IInv, AInv, TInv, PositionsReconcile, [Next]_vars
  PROVE  PositionsReconcile'
<1>1. CASE Project
  BY <1>1, ProjectBalances
<1>2. ASSUME NEW r \in Requests, Begin(r) \/ Step(r) PROVE PositionsReconcile'
  BY <1>2, SilentBalances, PlacingBalances, UpdateBalances, EnqueueBalances DEF Step
<1>3. CASE UNCHANGED vars
  BY <1>3 DEF vars, PositionsReconcile, Served, Outbox
<1> QED BY <1>1, <1>2, <1>3 DEF Next

(* The positions the read model serves and the fills still on their way to *)
(* it add up, modulo 2^64, to what the stored orders have filled: for any  *)
(* number of requests, orders, accounts and symbols, in any interleaving,  *)
(* as long as fills follow routing.  The worker drops no fill, counts none *)
(* twice, and books each with the holding and the side of its order.       *)
THEOREM PositionsAddUp == FillsFollowRouting => (Spec => []PositionsReconcile)
<1>1. FillsFollowRouting /\ IInv /\ AInv /\ [Next]_vars => AInv'
  BY StepAnnounced
<1>2. IInv /\ TInv /\ [Next]_vars => TInv'
  BY StepTold
<1>3. IInv /\ AInv /\ TInv /\ PositionsReconcile /\ [Next]_vars => PositionsReconcile'
  BY StepReconciles
<1> SUFFICES ASSUME FillsFollowRouting PROVE Spec => []PositionsReconcile
  OBVIOUS
<1>4. IInv /\ AInv /\ [Next]_vars => AInv'
  BY <1>1
<1> QED BY InitInv, StepInv, InitAnnounced, InitTold, InitBalances, <1>2, <1>3, <1>4, PTL
        DEF Spec

=============================================================================
