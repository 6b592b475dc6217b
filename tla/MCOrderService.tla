--------------------------- MODULE MCOrderService ---------------------------
(* TLC instances of OrderService. *)
EXTENDS OrderService

Buy  == [account |-> "acct", symbol |-> "SYM", side |-> "BUY",
         orderType |-> "LIMIT", tif |-> "DAY", limitPrice |-> 2, quantity |-> 2]
Sell == [Buy EXCEPT !.side = "SELL", !.orderType = "MARKET", !.limitPrice = 0]
Invalid == [Buy EXCEPT !.limitPrice = 0]

MCTerms == {Buy, Sell, Invalid}
MCBuyOnly == {Buy}

Symmetry == Permutations(Requests) \union Permutations(Ids)
=============================================================================
