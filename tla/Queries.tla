------------------------------ MODULE Queries ------------------------------
(***************************************************************************)
(* What clients read back: the orders query against concurrent writers,    *)
(* from the text of placeOrder to the text of the view.                    *)
(*                                                                         *)
(*   internal/app/service.go, commands.go      build, ListOrders, views    *)
(*   internal/adapters/memory/repository.go    Save, Update, List          *)
(*   internal/domain/money.go                  parse and format            *)
(*                                                                         *)
(* List locks one shard at a time, so it runs beside Save and Update.      *)
(***************************************************************************)
EXTENDS Order, FixedText, SequencesExt

CONSTANTS Ids,
          RequestedShards,     \* argument of NewOrderRepository
          Hash,                \* id -> its FNV-1a hash
          Submissions,         \* id -> the pairs of price and quantity texts
          Request,             \* the terms of every order, but for those two
          FillQtys,            \* fills by the venue
          Times,               \* readings of the wall clock
          Limits,              \* arguments of the query
          Nil

(* nextPow2 *)
NumShards == CHOOSE n \in {2 ^ k : k \in 0 .. 16} :
               /\ n >= RequestedShards
               /\ \A m \in {2 ^ k : k \in 0 .. 16} : m >= RequestedShards => n <= m

(* The hash is masked with NumShards - 1. *)
shardFor(id) == Hash[id] % NumShards

Texts == UNION {Submissions[id] : id \in Ids}

TermsOf(price, quantity) == [Request EXCEPT !.limitPrice = price, !.quantity = quantity]

ASSUME QueriesAssumption ==
  /\ IsFiniteSet(Ids)
  /\ RequestedShards \in Int /\ RequestedShards <= 2 ^ 16
  /\ Hash \in [Ids -> Nat]
  /\ \A x \in Texts : x.price \in Literals /\ x.quantity \in Literals
  /\ Request \in TermRecords /\ Request.orderType = "LIMIT" /\ ValidTerms(TermsOf(1, 1))
  /\ FillQtys \subseteq Int64
  /\ Times \subseteq Int
  /\ Limits \subseteq Int
  /\ Nil \notin Texts
  /\ Nil \notin [createdAt : Times, snap : OrderSnapshots(Ids, TermRecords)]

VARIABLES
  written,    \* history: id -> the texts it was submitted with, or Nil
  built,      \* id -> the order its request holds between build and Save, or Nil
  refused,    \* ids whose placement was refused
  orders,     \* repository: id -> stored order or Nil
  query,      \* the reader: "idle", "scan" or "done"
  limit,      \* its argument
  shard,      \* the next shard it will lock
  snaps,      \* what it has collected
  page,       \* the views it returns
  atStart     \* history: the stored orders when the scan began

writers == <<written, built, refused>>
reader  == <<query, limit, shard, snaps, page, atStart>>
vars == <<writers, orders, reader>>

Init ==
  /\ orders = [id \in Ids |-> Nil] /\ written = orders /\ built = orders
  /\ refused = {}
  /\ query = "idle" /\ limit = 0 /\ shard = 0 /\ snaps = {}
  /\ page = <<>> /\ atStart = orders

(***************************************************************************)
(* Writers.  A stored order is the snapshot of Order with its creation     *)
(* time.                                                                   *)
(***************************************************************************)
(* build: the texts are parsed, the clock is read, NewOrder validates. *)
Build(id) ==
  /\ written[id] = Nil
  /\ \E x \in Submissions[id], t \in Times :
       LET price    == ParseMoney(x.price)
           quantity == ParseQuantity(x.quantity)
           terms    == TermsOf(price.val, quantity.val)
       IN  /\ written' = [written EXCEPT ![id] = x]
           /\ IF price.ok /\ quantity.ok /\ ValidTerms(terms)
              THEN /\ built' = [built EXCEPT ![id] =
                         [createdAt |-> t, snap |-> Snapshot(Accept(NewOrder(id, terms)))]]
                   /\ UNCHANGED refused
              ELSE refused' = refused \union {id} /\ UNCHANGED built
  /\ UNCHANGED <<orders, reader>>

(* Save, some time later. *)
Save(id) ==
  /\ built[id] # Nil
  /\ orders[id] = Nil
  /\ orders' = [orders EXCEPT ![id] = built[id]]
  /\ UNCHANGED <<writers, reader>>

(* A fill that Update has stored. *)
UpdateFill(id) ==
  /\ orders[id] # Nil
  /\ \E q \in FillQtys :
       LET o  == RehydrateOrder(orders[id].snap)
           px == o.terms.limitPrice
       IN  /\ CanFill(o, q, px)
           /\ orders' = [orders EXCEPT ![id].snap = Snapshot(Fill(o, q, px))]
  /\ UNCHANGED <<writers, reader>>

(***************************************************************************)
(* ListOrders.                                                             *)
(***************************************************************************)
BeginList ==
  /\ query # "scan"
  /\ query' = "scan"
  /\ limit' \in Limits
  /\ shard' = 0
  /\ snaps' = {}
  /\ page' = <<>>
  /\ atStart' = orders
  /\ UNCHANGED <<writers, orders>>

(* A bug to catch: the last shard is skipped. *)
ShardLeftButLast == shard < NumShards - 1

ShardLeft == shard < NumShards

(* A bug to catch: the orders are listed as they were placed. *)
AsPlaced(id) == built[id]

AsStored(id) == orders[id]

InShard == {id \in Ids : shardFor(id) = shard /\ orders[id] # Nil}

(* One shard under its read lock. *)
ScanShard ==
  /\ query = "scan"
  /\ ShardLeft
  /\ snaps' = snaps \union {AsStored(id) : id \in InShard}
  /\ shard' = shard + 1
  /\ UNCHANGED <<writers, orders, query, limit, page, atStart>>

viewFromOrder(s) ==
  [id |-> s.snap.id, status |-> s.snap.status, version |-> s.snap.version,
   createdAt |-> s.createdAt,
   limitPrice |-> MoneyString(s.snap.terms.limitPrice),
   quantity |-> QuantityString(s.snap.terms.quantity),
   filledQty |-> QuantityString(s.snap.filledQty),
   avgFillPrice |-> MoneyString(s.snap.avgFillPx)]

Sorted(rows) == \A i \in 1 .. Len(rows) - 1 : rows[i].createdAt >= rows[i + 1].createdAt

Cut(rows) == IF limit > 0 /\ Len(rows) > limit THEN SubSeq(rows, 1, limit) ELSE rows

(* sort.Slice is not stable and starts from Go's random map order: orders  *)
(* with the same time come in any order.                                   *)
Respond ==
  /\ query = "scan"
  /\ ~ShardLeft
  /\ \E rows \in SetToSeqs(snaps) :
       /\ Sorted(rows)
       /\ page' = [i \in DOMAIN Cut(rows) |-> viewFromOrder(Cut(rows)[i])]
  /\ query' = "done"
  /\ UNCHANGED <<writers, orders, limit, shard, snaps, atStart>>

Next ==
  \/ \E id \in Ids : Build(id) \/ Save(id) \/ UpdateFill(id)
  \/ BeginList
  \/ ScanShard
  \/ Respond

Spec == Init /\ [][Next]_vars

(***************************************************************************)
(* Properties.                                                             *)
(***************************************************************************)
Listed == {page[i].id : i \in DOMAIN page}

(* repository.go:111, "up to limit orders, newest first": although the     *)
(* shards are read one after the other beside Save, an order that was      *)
(* stored when the query began is missing only if limit orders at least as *)
(* new are there; no order is listed twice.                                *)
ListMissesNothing ==
  query = "done" =>
    /\ Cardinality(Listed) = Len(page)
    /\ \A id \in Ids : atStart[id] # Nil /\ id \notin Listed =>
         /\ limit > 0 /\ Len(page) = limit
         /\ \A i \in DOMAIN page : page[i].createdAt >= atStart[id].createdAt

(* A listed order is in a state it had while the query ran: never older    *)
(* than at its beginning, never one that was not stored.                   *)
ListNotStale ==
  query = "done" =>
    \A i \in DOMAIN page :
      LET id == page[i].id
      IN  /\ orders[id] # Nil /\ page[i].version <= orders[id].snap.version
          /\ atStart[id] # Nil => page[i].version >= atStart[id].snap.version

Precision == scaleDigits(moneyScale) + scaleDigits(quantityScale) + 3

SameNumber(l, m) == Meaning(l, Precision) = Meaning(m, Precision)

(* money.go:33 and :51: an order is shown with the price and the quantity  *)
(* its client wrote, to the last digit, after parsing, storing and         *)
(* formatting in two different scales.                                     *)
ShownAsWritten ==
  \A i \in DOMAIN page :
    LET x == written[page[i].id]
    IN  /\ WellFormed(x.price) => SameNumber(page[i].limitPrice, x.price)
        /\ WellFormed(x.quantity) => SameNumber(page[i].quantity, x.quantity)

(* The value of a well-formed literal in minor units, if it has one. *)
Representable(l, scale) ==
  /\ WellFormed(l)
  /\ Len(l.frac.digits) <= scaleDigits(scale)
  /\ Meaning(l, scaleDigits(scale)) \in 1 .. MaxInt

(* Nothing is lost in parsing: a well-formed positive amount is refused    *)
(* exactly when it has too many digits after the point or does not fit     *)
(* int64, also next to the largest amount.                                 *)
RefusedOnlyIfUnrepresentable ==
  \A id \in Ids :
    written[id] # Nil /\ WellFormed(written[id].price) /\ WellFormed(written[id].quantity) =>
      (id \in refused <=> \/ ~Representable(written[id].price, moneyScale)
                          \/ ~Representable(written[id].quantity, quantityScale))
=============================================================================
