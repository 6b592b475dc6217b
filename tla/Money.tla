------------------------------- MODULE Money -------------------------------
(***************************************************************************)
(* Fixed-point arithmetic of internal/domain/money.go.  Money and Quantity *)
(* are int64 counts of minor units; a Quantity of quantityScale is one     *)
(* share.  The width of the integers and the scale are parameters: the     *)
(* code has MaxInt = 2^63 - 1 and quantityScale = 1000, the runs use small *)
(* values so that the overflow checks are reached.                         *)
(*                                                                         *)
(* A Go result pair (value, ok) or (value, error) is a record [ok, val].   *)
(***************************************************************************)
EXTENDS Integers

CONSTANTS MaxInt,          \* largest int64
          quantityScale    \* minor units of one share

ASSUME MoneyAssumption ==
  /\ MaxInt \in Nat
  /\ quantityScale \in Nat \ {0}
  /\ quantityScale <= MaxInt

MinInt == -MaxInt - 1

Int64 == MinInt .. MaxInt

Result == [ok : BOOLEAN, val : Int64]

Overflow == [ok |-> FALSE, val |-> 0]

Value(v) == [ok |-> TRUE, val |-> v]

(* Two's complement wrap-around of a Go int64 operation. *)
Wrap(x) == ((x - MinInt) % (2 * (MaxInt + 1))) + MinInt

(* addI64: the test looks only at strict signs, on the wrapped sum. *)
addI64(a, b) ==
  LET s == Wrap(a + b)
  IN  IF (a > 0 /\ b > 0 /\ s < 0) \/ (a < 0 /\ b < 0 /\ s > 0)
      THEN Overflow
      ELSE Value(s)

Abs(x) == IF x < 0 THEN -x ELSE x

Sign(x) == IF x < 0 THEN -1 ELSE IF x > 0 THEN 1 ELSE 0

(* big.Int.QuoRem divides with truncation towards zero. *)
Quo(x, d) == Sign(x) * Sign(d) * (Abs(x) \div Abs(d))

TwoAbsRem(x, d) == 2 * (Abs(x) % Abs(d))

(* A bug to catch: the remainder is dropped instead of rounded. *)
TruncateQuo(x, d) == Quo(x, d)

(* Half-away-from-zero rounding of x / d. *)
RoundQuo(x, d) ==
  IF TwoAbsRem(x, d) >= Abs(d)
  THEN IF Sign(x) * Sign(d) < 0 THEN Quo(x, d) - 1 ELSE Quo(x, d) + 1
  ELSE Quo(x, d)

(* A bug to catch: the result is cut to 64 bits without the range test. *)
mulDivRoundUnchecked(a, b, d) ==
  IF d = 0 THEN Overflow ELSE Value(Wrap(RoundQuo(a * b, d)))

(* The product is a big.Int: it cannot overflow before the division. *)
mulDivRound(a, b, d) ==
  IF d = 0 THEN Overflow
  ELSE LET q == RoundQuo(a * b, d)
       IN  IF q \in Int64 THEN Value(q) ELSE Overflow

(* Notional of q shares at price m, and the price implied by a notional. *)
MulQuantity(m, q) == mulDivRound(m, q, quantityScale)

DivByQuantity(m, q) == IF q = 0 THEN Overflow
                                ELSE mulDivRound(m, quantityScale, q)
=============================================================================
