-------------------------- MODULE MCOrderLifecycle --------------------------
(* TLC instances of OrderLifecycle. *)
EXTENDS OrderLifecycle

BaseTerms == [account |-> "acct", symbol |-> "SYM", side |-> "BUY",
              orderType |-> "LIMIT", tif |-> "DAY", limitPrice |-> 3,
              quantity |-> 5]

(* A working order of every kind NewOrder tells apart, and arguments it *)
(* refuses.                                                             *)
MCTerms ==
  {BaseTerms,
   [BaseTerms EXCEPT !.orderType = "MARKET", !.limitPrice = 0, !.quantity = 4],
   [BaseTerms EXCEPT !.side = "SELL", !.quantity = 6],
   [BaseTerms EXCEPT !.quantity = 0],
   [BaseTerms EXCEPT !.limitPrice = 0],
   [BaseTerms EXCEPT !.orderType = "MARKET"]}

(* Fractional and whole fills, refused arguments, and a price whose notional *)
(* overflows for more than half a share.                                     *)
MCFillQtys == {-1, 0, 1, 2, 3, 4, 5}
MCFillPrices == {0, 1, 2, 7, MaxInt}
=============================================================================
