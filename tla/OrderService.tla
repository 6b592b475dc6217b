---------------------------- MODULE OrderService ----------------------------
(***************************************************************************)
(* The write path of the service with what it shares between requests:     *)
(*                                                                         *)
(*   internal/app/service.go                  PlaceOrder, CancelOrder,     *)
(*                                            ApplyFill                    *)
(*   internal/adapters/memory/repository.go   orders, idem                 *)
(*   internal/adapters/memory/eventbus.go     the subscriber's channel     *)
(*   internal/adapters/memory/readmodel.go    meta, byAccount              *)
(*                                                                         *)
(* A request is a goroutine that runs one command after another.  Its      *)
(* steps are separated where the code releases a lock or calls out: what   *)
(* it read before such a point may be stale after it.  A command that      *)
(* returns before it touches shared state (rate limited, unparsable        *)
(* arguments) leaves no trace and is not a step.                           *)
(***************************************************************************)
EXTENDS Order, FiniteSets, SequencesExt

CONSTANTS Ids,                 \* what IDs.NewID can still issue (bound)
          Requests,            \* request goroutines
          Keys, NoKey,         \* idempotency keys; the empty key
          Terms,               \* order terms of placeOrder, valid and not
          FillQtys, FillPrices,\* arguments of applyFill
          BufferSize,          \* depth of the subscriber's channel
          FillsFollowRouting,  \* TRUE: only orders the venue has are filled
          Nil

ASSUME ServiceAssumption ==
  /\ IsFiniteSet(Ids) /\ IsFiniteSet(Requests)
  /\ Terms \subseteq TermRecords
  /\ FillQtys \subseteq Int64
  /\ FillPrices \subseteq Int64
  /\ BufferSize \in Nat \ {0}
  /\ FillsFollowRouting \in BOOLEAN
  /\ NoKey \notin Keys
  /\ Nil \notin Ids \union Terms
  /\ Nil \notin OrderSnapshots(Ids, Terms) \union OrderRecords(Ids, Terms)

VARIABLES
  orders,      \* repository: id -> stored snapshot or Nil
  idem,        \* repository: key -> id or Nil
  routed,      \* venue: ids it was given
  queue,       \* event bus: the read model's channel
  meta,        \* read model: id -> terms of the OrderPlaced it saw, or Nil
  byAccount,   \* read model: account and symbol -> position
  pc,          \* request: where it is
  cmd,         \* request: its command
  order,       \* request: its local *Order
  expected     \* request: the version it read

repo      == <<orders, idem>>
readModel == <<meta, byAccount>>
local     == <<pc, cmd, order, expected>>
vars == <<orders, idem, routed, queue, meta, byAccount, pc, cmd, order, expected>>

PlaceCmds  == [op : {"place"}, key : Keys \union {NoKey}, terms : Terms]
FillCmds   == [op : {"fill"}, id : Ids, qty : FillQtys, px : FillPrices]
CancelCmds == [op : {"cancel"}, id : Ids]

Holdings == {<<t.account, t.symbol>> : t \in Terms}

EmptyPosition == [netQty |-> 0, totalCost |-> 0, totalAbs |-> 0]

Init ==
  /\ orders = [id \in Ids |-> Nil]
  /\ idem = [k \in Keys |-> Nil]
  /\ routed = {}
  /\ queue = <<>>
  /\ meta = [id \in Ids |-> Nil]
  /\ byAccount = [h \in Holdings |-> EmptyPosition]
  /\ pc = [r \in Requests |-> "idle"]
  /\ cmd = [r \in Requests |-> Nil]
  /\ order = [r \in Requests |-> Nil]
  /\ expected = [r \in Requests |-> 0]

(* The command returns; its local variables are gone. *)
Return(r) ==
  /\ pc' = [pc EXCEPT ![r] = "idle"]
  /\ cmd' = [cmd EXCEPT ![r] = Nil]
  /\ order' = [order EXCEPT ![r] = Nil]
  /\ expected' = [expected EXCEPT ![r] = 0]

Goto(r, l) == pc' = [pc EXCEPT ![r] = l]

(***************************************************************************)
(* PlaceOrder.                                                             *)
(***************************************************************************)
(* The id generator never repeats itself. *)
FreshIds == {id \in Ids : /\ orders[id] = Nil
                          /\ \A r \in Requests : order[r] # Nil => order[r].id # id}

(* Bound: a placement begins only while there is an id left for it. *)
IdLeft == Cardinality({r \in Requests : pc[r] = "lookup"}) < Cardinality(FreshIds)

BeginPlace(r) ==
  /\ pc[r] = "idle"
  /\ IdLeft
  /\ \E c \in PlaceCmds : cmd' = [cmd EXCEPT ![r] = c]
  /\ Goto(r, "lookup")
  /\ UNCHANGED <<repo, routed, queue, readModel, order, expected>>

KnownKey(k) == k # NoKey /\ idem[k] # Nil

(* FindByIdempotencyKey finds the key: the earlier order's id is returned. *)
PlaceReplay(r) ==
  /\ pc[r] = "lookup"
  /\ KnownKey(cmd[r].key)
  /\ Return(r)
  /\ UNCHANGED <<repo, routed, queue, readModel>>

(* The key is unknown.  Nothing is locked from here to Save. *)
PlaceBuild(r) ==
  /\ pc[r] = "lookup"
  /\ ~KnownKey(cmd[r].key)
  /\ ValidTerms(cmd[r].terms)
  /\ \E id \in FreshIds : order' = [order EXCEPT ![r] = NewOrder(id, cmd[r].terms)]
  /\ Goto(r, "risk")
  /\ UNCHANGED <<repo, routed, queue, readModel, cmd, expected>>

BuildFails(r) ==
  /\ pc[r] = "lookup"
  /\ ~KnownKey(cmd[r].key)
  /\ ~ValidTerms(cmd[r].terms)
  /\ Return(r)
  /\ UNCHANGED <<repo, routed, queue, readModel>>

(* The verdict of the risk gate is arbitrary here (RiskGate has its rules): *)
(* it approves, rejects or fails (error, timeout, open breaker); a failure  *)
(* rejects the order.                                                       *)
RiskDecide(r) ==
  /\ pc[r] = "risk"
  /\ \E verdict \in {"approved", "rejected", "error"} :
       order' = [order EXCEPT ![r] = IF verdict = "approved" THEN Accept(@)
                                                            ELSE Reject(@)]
  /\ Goto(r, "save")
  /\ UNCHANGED <<repo, routed, queue, readModel, cmd, expected>>

(* A bug to catch: the key is registered before the order is stored. *)
SaveKeyFirst(r) ==
  /\ pc[r] = "save"
  /\ IF cmd[r].key # NoKey /\ idem[cmd[r].key] # order[r].id
     THEN /\ idem' = [idem EXCEPT ![cmd[r].key] = order[r].id]
          /\ UNCHANGED <<orders, pc>>
     ELSE /\ orders' = [orders EXCEPT ![order[r].id] = Snapshot(order[r])]
          /\ Goto(r, "publish")
          /\ UNCHANGED idem
  /\ UNCHANGED <<routed, queue, readModel, cmd, order, expected>>

(* First half of Repo.Save, under the shard lock. *)
SaveShard(r) ==
  /\ pc[r] = "save"
  /\ IF orders[order[r].id] = Nil
     THEN /\ orders' = [orders EXCEPT ![order[r].id] = Snapshot(order[r])]
          /\ Goto(r, IF cmd[r].key = NoKey THEN "publish" ELSE "register")
          /\ UNCHANGED <<cmd, order, expected>>
     ELSE /\ Return(r)
          /\ UNCHANGED orders
  /\ UNCHANGED <<idem, routed, queue, readModel>>

(* Second half of Repo.Save, under the lock of the key table: it does not  *)
(* look whether the key is there by now.                                   *)
RegisterKey(r) ==
  /\ pc[r] = "register"
  /\ idem' = [idem EXCEPT ![cmd[r].key] = order[r].id]
  /\ Goto(r, "publish")
  /\ UNCHANGED <<orders, routed, queue, readModel, cmd, order, expected>>

(***************************************************************************)
(* Publisher.Publish(order.PullEvents()...).  order[r].events is the slice *)
(* being published; each send blocks while the channel is full.            *)
(***************************************************************************)
(* A bug to catch: one send too many is let through. *)
HasRoomForOneMore == Len(queue) <= BufferSize

HasRoom == Len(queue) < BufferSize

(* A bug to catch: the newest event is sent in place of the oldest. *)
NewestEvent(r) == order[r].events[Len(order[r].events)]

NextEvent(r) == Head(order[r].events)

Enqueue(r) ==
  /\ pc[r] = "publish"
  /\ HasRoom
  /\ queue' = Append(queue, NextEvent(r))
  /\ IF Len(order[r].events) > 1
     THEN /\ order' = [order EXCEPT ![r].events = Tail(@)]
          /\ UNCHANGED <<pc, cmd, expected>>
     ELSE IF order[r].status = "ACCEPTED"
     THEN /\ order' = [order EXCEPT ![r] = ClearEvents(@)]
          /\ Goto(r, "route")
          /\ UNCHANGED <<cmd, expected>>
     ELSE Return(r)
  /\ UNCHANGED <<repo, routed, readModel>>

(* route: the venue takes the order or all attempts fail; a failure is     *)
(* only logged.  Either way the caller gets the order's id.                *)
Route(r) ==
  /\ pc[r] = "route"
  /\ routed' \in {routed, routed \union {order[r].id}}
  /\ Return(r)
  /\ UNCHANGED <<repo, queue, readModel>>

(***************************************************************************)
(* ApplyFill and CancelOrder: load, change the copy, store it under        *)
(* optimistic concurrency, publish.                                        *)
(***************************************************************************)
Fillable == IF FillsFollowRouting THEN routed ELSE Ids

BeginFill(r) ==
  /\ pc[r] = "idle"
  /\ \E c \in FillCmds : c.id \in Fillable /\ cmd' = [cmd EXCEPT ![r] = c]
  /\ Goto(r, "get")
  /\ UNCHANGED <<repo, routed, queue, readModel, order, expected>>

BeginCancel(r) ==
  /\ pc[r] = "idle"
  /\ \E c \in CancelCmds : cmd' = [cmd EXCEPT ![r] = c]
  /\ Goto(r, "get")
  /\ UNCHANGED <<repo, routed, queue, readModel, order, expected>>

(* What a command does to an order, and when the aggregate lets it. *)
Ops == FillCmds \union CancelCmds

Permits(o, c) == IF c.op = "fill" THEN CanFill(o, c.qty, c.px) ELSE CanCancel(o)

Performed(o, c) == IF c.op = "fill" THEN Fill(o, c.qty, c.px) ELSE Cancel(o)

(* Repo.Get, then the change of the loaded copy. *)
Load(r) ==
  LET id == cmd[r].id
      o  == RehydrateOrder(orders[id])
  IN  /\ pc[r] = "get"
      /\ orders[id] # Nil
      /\ Permits(o, cmd[r])
      /\ order' = [order EXCEPT ![r] = Performed(o, cmd[r])]
      /\ expected' = [expected EXCEPT ![r] = o.version]
      /\ Goto(r, "update")
      /\ UNCHANGED <<repo, routed, queue, readModel, cmd>>

(* Not found, or refused by the aggregate. *)
LoadFails(r) ==
  LET id == cmd[r].id
  IN  /\ pc[r] = "get"
      /\ orders[id] # Nil => ~Permits(RehydrateOrder(orders[id]), cmd[r])
      /\ Return(r)
      /\ UNCHANGED <<repo, routed, queue, readModel>>

(* A bug to catch: Update compares with the version it is about to store. *)
VersionNotOlder(r) == orders[order[r].id].version <= order[r].version

VersionMatches(r) == orders[order[r].id].version = expected[r]

(* Repo.Update, under the shard lock. *)
Update(r) ==
  /\ pc[r] = "update"
  /\ orders[order[r].id] # Nil
  /\ VersionMatches(r)
  /\ orders' = [orders EXCEPT ![order[r].id] = Snapshot(order[r])]
  /\ Goto(r, "publish")
  /\ UNCHANGED <<idem, routed, queue, readModel, cmd, order, expected>>

(* A bug to catch: the events of a fill that was not stored are published. *)
UpdatePublishesAnyway(r) ==
  /\ pc[r] = "update"
  /\ orders[order[r].id] # Nil => ~VersionMatches(r)
  /\ Goto(r, "publish")
  /\ UNCHANGED <<repo, routed, queue, readModel, cmd, order, expected>>

(* ErrNotFound or ErrVersionConflict: the copy and its events are dropped. *)
UpdateFails(r) ==
  /\ pc[r] = "update"
  /\ orders[order[r].id] # Nil => ~VersionMatches(r)
  /\ Return(r)
  /\ UNCHANGED <<repo, routed, queue, readModel>>

(***************************************************************************)
(* The read model's worker: Project on the next event of the channel.  The *)
(* accumulators are plain int64 sums, unlike the rest of the arithmetic.   *)
(***************************************************************************)
Signed(side, qty) == IF side = "SELL" THEN -qty ELSE qty

applyFill(m, e) ==
  LET h        == <<m.account, m.symbol>>
      notional == MulQuantity(e.fillPrice, e.fillQty)
      p        == byAccount[h]
      net      == Wrap(p.netQty + Signed(m.side, e.fillQty))
  IN  [byAccount EXCEPT ![h] =
         IF notional.ok
         THEN [netQty |-> net, totalCost |-> Wrap(p.totalCost + notional.val),
               totalAbs |-> Wrap(p.totalAbs + e.fillQty)]
         ELSE [p EXCEPT !.netQty = net]]

(* A bug to catch: the worker waits for a second event. *)
WorkerWaits == Len(queue) > 1

WorkerReady == queue # <<>>

(* A fill of an order whose OrderPlaced was not seen is dropped. *)
Project ==
  /\ WorkerReady
  /\ queue' = Tail(queue)
  /\ LET e == Head(queue)
     IN  /\ meta' = IF e.name = "OrderPlaced"
                    THEN [meta EXCEPT ![e.orderID] = e.terms] ELSE meta
         /\ byAccount' = IF IsFillEvent(e) /\ meta[e.orderID] # Nil
                         THEN applyFill(meta[e.orderID], e) ELSE byAccount
  /\ UNCHANGED <<repo, routed, local>>

(***************************************************************************)
(* The specification.                                                      *)
(***************************************************************************)
Begin(r) == BeginPlace(r) \/ BeginFill(r) \/ BeginCancel(r)

(* A request that has begun goes on until it returns. *)
Step(r) ==
  \/ PlaceReplay(r)
  \/ PlaceBuild(r)
  \/ BuildFails(r)
  \/ RiskDecide(r)
  \/ SaveShard(r)
  \/ RegisterKey(r)
  \/ Enqueue(r)
  \/ Route(r)
  \/ Load(r)
  \/ LoadFails(r)
  \/ Update(r)
  \/ UpdateFails(r)

Next == Project \/ \E r \in Requests : Begin(r) \/ Step(r)

Spec == Init /\ [][Next]_vars

(* The runtime schedules every goroutine that can run: the worker and each *)
(* request that has begun.  Nothing obliges a client to send a command.    *)
Fairness == WF_vars(Project) /\ \A r \in Requests : WF_vars(Step(r))

FairSpec == Spec /\ Fairness

(***************************************************************************)
(* Safety.                                                                 *)
(***************************************************************************)
Labels == {"idle", "lookup", "risk", "save", "register", "publish", "route",
           "get", "update"}

(* Every variable keeps its type, and the channel never holds more than    *)
(* its capacity.                                                           *)
TypeOK ==
  /\ orders \in [Ids -> OrderSnapshots(Ids, Terms) \union {Nil}]
  /\ idem \in [Keys -> Ids \union {Nil}]
  /\ routed \subseteq Ids
  /\ queue \in Seq(Events(Ids, Terms)) /\ Len(queue) <= BufferSize
  /\ meta \in [Ids -> Terms \union {Nil}]
  /\ byAccount \in [Holdings -> [netQty : Int64, totalCost : Int64, totalAbs : Int64]]
  /\ pc \in [Requests -> Labels]
  /\ cmd \in [Requests -> PlaceCmds \union FillCmds \union CancelCmds \union {Nil}]
  /\ order \in [Requests -> OrderRecords(Ids, Terms) \union {Nil}]
  /\ expected \in [Requests -> Nat]

(* Save stores the order and registers its key under two different locks.  *)
(* Whoever finds a key in between still finds the order it names.          *)
IdemPointsToStored ==
  \A k \in Keys : idem[k] # Nil => orders[idem[k]] # Nil

(* No interleaving of fills and cancels overfills an order or leaves it    *)
(* with a status that disagrees with its fills.                            *)
StoredOrdersConsistent ==
  \A id \in Ids : orders[id] # Nil =>
    orders[id].id = id /\ FillsMatchStatus(orders[id])

(***************************************************************************)
(* The refinement: Get, change and Update of a command, interleaved in any *)
(* way with other commands on the same order, act as one atomic step.      *)
(***************************************************************************)
NewSnapshots(id) ==
  UNION {{Snapshot(Accept(NewOrder(id, t))), Snapshot(Reject(NewOrder(id, t)))} :
           t \in {u \in Terms : ValidTerms(u)}}

Allowed(s, op) == Permits(RehydrateOrder(s), op)

Effect(s, op) == Snapshot(Performed(RehydrateOrder(s), op))

Ledger == INSTANCE OrderLedger WITH ledger <- orders

(* The stored orders change only as OrderLedger allows: an update computed *)
(* from a version that is no longer the stored one is never written        *)
(* (repository.go:84), so no fill and no cancel is lost.                   *)
ImplementsLedger == Ledger!Spec

(***************************************************************************)
(* The read model.                                                         *)
(***************************************************************************)
Outbox(r) == IF pc[r] = "publish" THEN order[r].events ELSE <<>>

(* The sum of f[1] .. f[n], and of f over a finite set. *)
Total(f, n) ==
  LET sum[i \in 0 .. n] == IF i = 0 THEN 0 ELSE sum[i - 1] + f[i]
  IN  sum[n]

SumOver(S, f) == LET s == SetToSeq(S)
                 IN  Total([i \in 1 .. Cardinality(S) |-> f[s[i]]], Cardinality(S))

(* The two quantities of a holding, and what a fill of q adds to each. *)
Measures == {"net", "gross"}

Measured(w, side, q) == IF w = "net" THEN Signed(side, q) ELSE q

Served(h, w) == IF w = "net" THEN byAccount[h].netQty ELSE byAccount[h].totalAbs

(* The order of id, as stored in st, belongs to holding h. *)
HeldIn(st, id, h) == st[id] # Nil /\ <<st[id].terms.account, st[id].terms.symbol>> = h

(* What event e still has to add to h, and what the order of id has filled. *)
Due(st, e, h, w) ==
  IF IsFillEvent(e) /\ HeldIn(st, e.orderID, h)
  THEN Measured(w, st[e.orderID].terms.side, e.fillQty) ELSE 0

Filled(st, id, h, w) ==
  IF HeldIn(st, id, h) THEN Measured(w, st[id].terms.side, st[id].filledQty) ELSE 0

DueOf(st, s, h, w) == Total([i \in 1 .. Len(s) |-> Due(st, s[i], h, w)], Len(s))

(* CQRS reconciliation: the quantities the read model keeps and the fills  *)
(* still on their way to it add up to what the stored orders have filled.  *)
(* No fill is lost, counted twice or attributed to the wrong holding,      *)
(* although fills of one order may be published in another order than they *)
(* were stored.  The sums of readmodel.go:76 are unchecked int64 sums: they *)
(* are right modulo 2^64 even when they have wrapped, so a later fill of   *)
(* the other side repairs them.                                            *)
PositionsReconcile ==
  \A h \in Holdings, w \in Measures :
    Wrap(Served(h, w) + DueOf(orders, queue, h, w)
           + SumOver(Requests, [r \in Requests |-> DueOf(orders, Outbox(r), h, w)]))
      = Wrap(SumOver(Ids, [id \in Ids |-> Filled(orders, id, h, w)]))

(* eventbus.go:23: "OrderPlaced is always projected before the fills that  *)
(* follow it".  Project drops a fill whose order it does not know.         *)
PlacedProjectedBeforeFills ==
  \A i \in DOMAIN queue :
    IsFillEvent(queue[i]) =>
      \/ meta[queue[i].orderID] # Nil
      \/ \E j \in 1 .. i - 1 : /\ queue[j].name = "OrderPlaced"
                               /\ queue[j].orderID = queue[i].orderID

(* ports.go:34: Save registers the key "so a retried create is not         *)
(* double-applied": once a key names an order that the venue was given, it *)
(* never names another order that the venue was given.                     *)
KeyRoutesOneOrder ==
  \A k \in Keys, id \in Ids :
    [](idem[k] = id /\ id \in routed => [](idem[k] \in routed => idem[k] = id))

(***************************************************************************)
(* Liveness, under FairSpec.                                               *)
(***************************************************************************)
(* Every command returns, also when it must wait for room in the channel.  *)
RequestsReturn == \A r \in Requests : pc[r] # "idle" ~> pc[r] = "idle"

(* Every stored order becomes known to the read model, whatever its        *)
(* status and however the requests interleave.                             *)
StoredOrdersReachReadModel ==
  \A id \in Ids : orders[id] # Nil ~> meta[id] # Nil
=============================================================================
