----------------------------- MODULE MCRiskGate -----------------------------
(* TLC instances of RiskGate. *)
EXTENDS RiskGate

Quantities == {1, 2, 5, 6, 9}
Prices == {1, 3, 4, 7, MaxInt}

(* Orders of every type and time in force around both limits. *)
MCTerms ==
  [account : {"acct"}, symbol : {"SYM"}, side : {"BUY"}, orderType : {"LIMIT"},
   tif : {"DAY", "GTC", "IOC", "FOK"}, limitPrice : Prices, quantity : Quantities]
  \union
  [account : {"acct"}, symbol : {"SYM"}, side : {"BUY"}, orderType : {"MARKET"},
   tif : {"DAY", "GTC", "IOC", "FOK"}, limitPrice : {0}, quantity : Quantities]

(* Prices whose notional fits int64. *)
MCRepresentable ==
  {t \in MCTerms : t.orderType = "LIMIT" => MulQuantity(t.limitPrice, t.quantity).ok}

MCAnswers == {-1, 0, 5, 15, 60, 79, 80, 100, 101}
=============================================================================
