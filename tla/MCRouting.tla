----------------------------- MODULE MCRouting -----------------------------
(* TLC instance of Routing. *)
EXTENDS Routing

LimitOrder == [account |-> "acct", symbol |-> "SYM", side |-> "BUY",
               orderType |-> "LIMIT", tif |-> "DAY", limitPrice |-> 2, quantity |-> 2]

MCTerms == {LimitOrder,
            [LimitOrder EXCEPT !.orderType = "MARKET", !.limitPrice = 0]}
=============================================================================
