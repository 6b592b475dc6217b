----------------------------- MODULE OrderLedger -----------------------------
(***************************************************************************)
(* What the order store promises its callers: every order is created once, *)
(* and every later change is one operation applied, whole and in one step, *)
(* to the order as it is stored at that moment.  No change is ever         *)
(* computed from a stale copy, so no fill and no cancel is lost.           *)
(***************************************************************************)
CONSTANTS Ids,               \* order ids
          Nil,               \* "no such order"
          NewSnapshots(_),   \* the states an order may be created in
          Ops,               \* the operations on a stored order
          Allowed(_, _),     \* Allowed(s, op): op succeeds on snapshot s
          Effect(_, _)       \* Effect(s, op): the snapshot after it

VARIABLE ledger

Init == ledger = [id \in Ids |-> Nil]

Create(id) ==
  /\ ledger[id] = Nil
  /\ \E s \in NewSnapshots(id) : ledger' = [ledger EXCEPT ![id] = s]

Apply(id, op) ==
  /\ ledger[id] # Nil
  /\ Allowed(ledger[id], op)
  /\ ledger' = [ledger EXCEPT ![id] = Effect(ledger[id], op)]

Next == \E id \in Ids : Create(id) \/ \E op \in Ops : Apply(id, op)

Spec == Init /\ [][Next]_ledger
=============================================================================
