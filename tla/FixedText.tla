----------------------------- MODULE FixedText -----------------------------
(***************************************************************************)
(* The text form of Money and Quantity: parseFixed and formatFixed of      *)
(* internal/domain/money.go.                                               *)
(*                                                                         *)
(* A literal is its leading sign and the parts before and after the point. *)
(* A part may carry a sign of its own, because parseFixed hands it to      *)
(* strconv.ParseInt, which takes one: "--5" and "1.-5" are such literals.  *)
(* Text with other characters is refused by ParseInt and not represented;  *)
(* surrounding spaces are trimmed first and make no difference.            *)
(***************************************************************************)
EXTENDS Money, Sequences

CONSTANT moneyScale   \* minor units of one dollar

Signs == {"none", "+", "-"}

Parts == [sign : Signs, digits : Seq(0 .. 9)]

Literals == [sign : Signs, int : Parts, frac : Parts]

NoText == [sign |-> "none", digits |-> <<>>]

(* A part of digits d and a literal with leading sign s. *)
Plain(d) == [sign |-> "none", digits |-> d]
Literal(s, i, f) == [sign |-> s, int |-> Plain(i), frac |-> Plain(f)]

Zeros(n) == [i \in 1 .. n |-> 0]

(* The number a sequence of decimal digits stands for. *)
Number(d) ==
  LET upTo[i \in 0 .. Len(d)] == IF i = 0 THEN 0 ELSE 10 * upTo[i - 1] + d[i]
  IN  upTo[Len(d)]

(* strconv.ParseInt and FormatInt. *)
ParseInt(p) ==
  LET n == IF p.sign = "-" THEN -Number(p.digits) ELSE Number(p.digits)
  IN  IF p.digits # <<>> /\ n \in Int64 THEN Value(n) ELSE Overflow

Digits[n \in Nat] == IF n < 10 THEN <<n>> ELSE Append(Digits[n \div 10], n % 10)

FormatInt(n) == [sign |-> IF n < 0 THEN "-" ELSE "none", digits |-> Digits[Abs(n)]]

(* A bug to catch: the product with the scale is not checked. *)
mulI64Unchecked(a, b) == Value(Wrap(a * b))

(* p / b # a on the wrapped product. *)
mulI64(a, b) ==
  LET p == Wrap(a * b)
  IN  IF a = 0 \/ b = 0 THEN Value(0)
      ELSE IF Quo(p, b) # a THEN Overflow ELSE Value(p)

(* The number of fractional digits: how often 10 divides the scale. *)
DivisionsByTen[t \in Nat] == IF t <= 1 THEN 0 ELSE 1 + DivisionsByTen[t \div 10]

scaleDigits(scale) == DivisionsByTen[scale]

Pow10[n \in Nat] == IF n = 0 THEN 1 ELSE 10 * Pow10[n - 1]

(* The scales are powers of ten: 10000 and 1000 in the code. *)
ASSUME ScaleAssumption ==
  /\ moneyScale \in 1 .. MaxInt
  /\ \A s \in {moneyScale, quantityScale} : s = Pow10[scaleDigits(s)]

Length(p) == Len(p.digits) + IF p.sign = "none" THEN 0 ELSE 1

(* A bug to catch: the fraction is padded on the left. *)
PaddedLeft(p, n) == [p EXCEPT !.digits = Zeros(n - Length(p)) \o @]

(* The fraction is padded on the right to n characters. *)
Padded(p, n) == [p EXCEPT !.digits = @ \o Zeros(n - Length(p))]

(* A missing part counts as 0. *)
PartValue(p) == IF p = NoText THEN Value(0) ELSE ParseInt(p)

(* whole * scale + frac, both steps checked. *)
Scaled(whole, frac, scale) ==
  LET prod == mulI64(whole, scale)
  IN  IF prod.ok THEN addI64(prod.val, frac) ELSE Overflow

parseFixed(l, scale) ==
  LET n     == scaleDigits(scale)
      whole == PartValue(l.int)
      frac  == PartValue(Padded(l.frac, n))
      sum   == Scaled(whole.val, frac.val, scale)
  IN  IF \/ l.int = NoText /\ l.frac = NoText
         \/ Length(l.frac) > n
         \/ ~whole.ok \/ ~frac.ok \/ ~sum.ok
      THEN Overflow
      ELSE Value(IF l.sign = "-" THEN Wrap(-sum.val) ELSE sum.val)

ParseMoney(l) == parseFixed(l, moneyScale)

ParseQuantity(l) == parseFixed(l, quantityScale)

(* Of a negative number -v is formatted behind a sign; -MinInt is MinInt   *)
(* again, whose text no parser takes.                                      *)
formatFixed(v, scale) ==
  LET n    == scaleDigits(scale)
      u    == IF v < 0 THEN Wrap(-v) ELSE v
      frac == FormatInt(u - Quo(u, scale) * scale)
  IN  [sign |-> IF v < 0 THEN "-" ELSE "none",
       int  |-> FormatInt(Quo(u, scale)),
       frac |-> IF n = 0 THEN NoText
                ELSE [frac EXCEPT !.digits = Zeros(n - Length(frac)) \o @]]

MoneyString(v) == formatFixed(v, moneyScale)

QuantityString(v) == formatFixed(v, quantityScale)

(***************************************************************************)
(* The reference: what a decimal literal means.                            *)
(***************************************************************************)
(* An optional sign, digits, and perhaps a point and digits. *)
WellFormed(l) ==
  /\ l.int.sign = "none" /\ l.frac.sign = "none"
  /\ l.int.digits \o l.frac.digits # <<>>

(* Its value as a numerator over 10^n, for n no less than its fraction. *)
Meaning(l, n) ==
  (IF l.sign = "-" THEN -1 ELSE 1)
    * Number(l.int.digits \o l.frac.digits \o Zeros(n - Len(l.frac.digits)))
=============================================================================
