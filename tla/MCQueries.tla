----------------------------- MODULE MCQueries -----------------------------
(* TLC instance of Queries.  The first order is submitted with each of the *)
(* texts below, the others with one text.                                  *)
EXTENDS Queries, TLC

CONSTANTS a, b, c

Signed(s, d) == [sign |-> s, digits |-> d]

(* With scales of 100 and 10 and MaxInt = 1023: zero, the largest amount,  *)
(* one more, a product that wraps to a small number, missing parts, short  *)
(* and overlong fractions, signs in front and inside.                      *)
Prices == {Literal("none", <<0>>, <<>>), Literal("none", <<1, 0>>, <<2, 3>>),
           Literal("none", <<1, 0>>, <<2, 4>>), Literal("none", <<2, 1>>, <<>>),
           Literal("none", <<>>, <<5>>), Literal("+", <<0, 3>>, <<0, 7>>),
           Literal("none", <<1>>, <<0, 0, 0>>), Literal("-", <<1>>, <<5>>),
           Literal("none", <<>>, <<>>),
           [sign |-> "-", int |-> Signed("-", <<5>>), frac |-> NoText],
           [sign |-> "none", int |-> Plain(<<1>>), frac |-> Signed("-", <<5>>)],
           [sign |-> "none", int |-> Plain(<<1>>), frac |-> Signed("-", <<>>)]}

Quantities == {Literal("none", <<2>>, <<>>), Literal("none", <<1, 0, 2>>, <<3>>),
               Literal("none", <<1, 0, 2>>, <<4>>), Literal("none", <<2, 0, 5>>, <<>>),
               Literal("none", <<>>, <<4>>), Literal("-", <<0>>, <<4>>)}

Largest == Literal("none", <<1, 0>>, <<2, 3>>)

Some(q) == [price |-> Literal("none", <<1>>, <<2>>), quantity |-> Literal("none", <<>>, <<q>>)]

MCSubmissions ==
  a :> ({[Some(4) EXCEPT !.price = p] : p \in Prices}
          \union {[price |-> Largest, quantity |-> q] : q \in Quantities}) @@
  b :> {Some(5)} @@ c :> {Some(4)}

MCRequest ==
  [account |-> "acct", symbol |-> "SYM", side |-> "BUY", orderType |-> "LIMIT",
   tif |-> "DAY", limitPrice |-> 0, quantity |-> 0]

MCHash == a :> 4 @@ b :> 7 @@ c :> 8
=============================================================================
