----------------------------- MODULE OrderProofs -----------------------------
(***************************************************************************)
(* What the other proofs rest on: induction and recursion, the arithmetic, *)
(* and the methods of one order, for any set of ids and terms.             *)
(***************************************************************************)
EXTENDS Order, FiniteSetTheorems, TLAPS

(***************************************************************************)
(* Induction and recursion.  The induction theorems of the library take a  *)
(* predicate as parameter; these take sets and functions, and follow from  *)
(* the facts about finite sets.                                            *)
(***************************************************************************)
(* Induction, for a set instead of a predicate.  If n were missing, adding *)
(* 1 would map the members up to n one to one to those without 0, which    *)
(* are fewer.                                                              *)
LEMMA SetInduction ==
  ASSUME NEW S, 0 \in S, \A n \in Nat : n \in S => n + 1 \in S
  PROVE  \A n \in Nat : n \in S
<1> SUFFICES ASSUME NEW n \in Nat, n \notin S PROVE FALSE
  OBVIOUS
<1> DEFINE A == {m \in 0 .. n : m \in S}
           B == A \ {0}
           f == [m \in A |-> m + 1]
<1>1. IsFiniteSet(A) /\ IsFiniteSet(B)
  <2>1. IsFiniteSet(0 .. n)
    BY FS_Interval
  <2> QED BY <2>1, FS_Subset
<1>2. 0 \in A
  OBVIOUS
<1>3. Cardinality(B) = Cardinality(A) - 1
  BY <1>1, <1>2, FS_RemoveElement
<1>4. f \in Injection(A, B)
  <2>1. \A m \in A : m + 1 \in B
    OBVIOUS
  <2>2. \A m, k \in A : f[m] = f[k] => m = k
    OBVIOUS
  <2> QED BY <2>1, <2>2 DEF Injection, IsInjective
<1>5. Cardinality(A) <= Cardinality(B)
  BY <1>1, <1>4, FS_Injection
<1>6. Cardinality(A) \in Nat
  BY <1>1, FS_CardinalityType
<1> QED BY <1>3, <1>5, <1>6

(* f follows the recursion that starts at a and takes step g[n] at n. *)
Follows(f, X, a, g, N) ==
  /\ f \in [0 .. N -> X]
  /\ f[0] = a
  /\ \A n \in 1 .. N : f[n] = g[n][f[n - 1]]

(* A definition by recursion up to N has a solution. *)
LEMMA Recursion ==
  ASSUME NEW X, NEW a \in X, NEW N \in Nat, NEW g \in [1 .. N -> [X -> X]]
  PROVE  \E f : Follows(f, X, a, g, N)
<1> DEFINE Good(f, m) == Follows(f, X, a, g, m)
           S == {m \in Nat : m <= N => \E f : Good(f, m)}
<1>1. 0 \in S
  <2>1. Good([n \in 0 .. 0 |-> a], 0)
    BY DEF Follows
  <2> QED BY <2>1
<1>2. ASSUME NEW m \in Nat, m \in S PROVE m + 1 \in S
  <2> SUFFICES ASSUME m + 1 <= N PROVE \E f : Good(f, m + 1)
    OBVIOUS
  <2>1. PICK f : Good(f, m)
    BY <1>2
  <2> DEFINE h == [n \in 0 .. m + 1 |-> IF n <= m THEN f[n] ELSE g[m + 1][f[m]]]
  <2>2. f[m] \in X /\ m + 1 \in 1 .. N /\ g[m + 1][f[m]] \in X
    BY <2>1 DEF Follows
  <2>3. h \in [0 .. m + 1 -> X] /\ h[0] = a
    BY <2>1, <2>2 DEF Follows
  <2>4. ASSUME NEW n \in 1 .. m + 1 PROVE h[n] = g[n][h[n - 1]]
    <3>1. CASE n <= m
      BY <2>1, <3>1 DEF Follows
    <3>2. CASE n = m + 1
      <4>1. h[n] = g[m + 1][f[m]] /\ n - 1 = m /\ h[m] = f[m]
        BY <3>2
      <4> QED BY <3>2, <4>1
    <3> QED BY <3>1, <3>2
  <2>5. Good(h, m + 1)
    BY <2>3, <2>4 DEF Follows
  <2> QED BY <2>5
<1>3. N \in S
  <2> HIDE DEF S
  <2> QED BY <1>1, <1>2, SetInduction
<1>4. PICK f : Good(f, N)
  BY <1>3
<1> QED BY <1>4

(* Two solutions of one recursion agree as far as both go. *)
StepAlike(f, h, N) ==
  f[0] = h[0] /\ \A n \in 1 .. N : f[n - 1] = h[n - 1] => f[n] = h[n]

LEMMA RecursionUnique ==
  ASSUME NEW N \in Nat, NEW f, NEW h, StepAlike(f, h, N)
  PROVE  \A n \in 0 .. N : f[n] = h[n]
<1> USE DEF StepAlike
<1> DEFINE S == {m \in Nat : m <= N => f[m] = h[m]}
<1>1. 0 \in S
  OBVIOUS
<1>2. ASSUME NEW m \in Nat, m \in S PROVE m + 1 \in S
  <2>1. CASE m + 1 <= N
    <3>1. m + 1 \in 1 .. N /\ (m + 1) - 1 = m /\ m <= N
      BY <2>1
    <3> QED BY <1>2, <3>1
  <2>2. CASE ~(m + 1 <= N)
    BY <2>2
  <2> QED BY <2>1, <2>2
<1>3. \A n \in Nat : n \in S
  <2> HIDE DEF S
  <2> QED BY <1>1, <1>2, SetInduction
<1> QED BY <1>3

(* Induction from all smaller numbers. *)
LEMMA StrongInduction ==
  ASSUME NEW S, \A n \in Nat : (\A m \in 0 .. n - 1 : m \in S) => n \in S
  PROVE  \A n \in Nat : n \in S
<1> DEFINE T == {n \in Nat : \A m \in 0 .. n - 1 : m \in S}
<1>1. 0 \in T
  OBVIOUS
<1>2. ASSUME NEW n \in Nat, n \in T PROVE n + 1 \in T
  <2>1. n \in S
    BY <1>2
  <2>2. \A m \in 0 .. (n + 1) - 1 : m = n \/ m \in 0 .. n - 1
    OBVIOUS
  <2> QED BY <1>2, <2>1, <2>2
<1>3. \A n \in Nat : n \in T
  <2> HIDE DEF T
  <2> QED BY <1>1, <1>2, SetInduction
<1> QED BY <1>3

(* A set of numbers has a least one. *)
LEMMA LeastMember ==
  ASSUME NEW S, S \subseteq Nat, S # {}
  PROVE  \E n \in S : \A m \in S : n <= m
<1> SUFFICES ASSUME \A n \in S : \E m \in S : m < n PROVE FALSE
  OBVIOUS
<1> DEFINE T == Nat \ S
<1>1. ASSUME NEW n \in Nat, \A m \in 0 .. n - 1 : m \in T PROVE n \in T
  BY <1>1
<1>2. \A n \in Nat : n \in T
  <2> HIDE DEF T
  <2> QED BY <1>1, StrongInduction
<1> QED BY <1>2

(* The value at m of the recursion that is a on B and elsewhere takes step *)
(* g from the value at the smaller number d[m].                            *)
Descends(h, m, a, d, g, B) == IF m \in B THEN a[m] ELSE g[m][h[d[m]]]

Solves(f, X, a, d, g, B) ==
  f \in [Nat -> X] /\ \A n \in Nat : f[n] = Descends(f, n, a, d, g, B)

(* A definition by recursion from smaller numbers has a solution. *)
LEMMA Descent ==
  ASSUME NEW X, NEW a \in [Nat -> X], NEW d \in [Nat -> Nat],
         NEW g \in [Nat -> [X -> X]], NEW B, \A n \in Nat \ B : d[n] < n
  PROVE  \E f : Solves(f, X, a, d, g, B)
<1> DEFINE Val(h, m)  == Descends(h, m, a, d, g, B)
           Good(h, n) == h \in [0 .. n -> X] /\ \A m \in 0 .. n : h[m] = Val(h, m)
<1>1. ASSUME NEW n \in Nat, NEW k \in Nat, NEW h, NEW i, Good(h, n), Good(i, k)
      PROVE  \A m \in Nat : m <= n /\ m <= k => h[m] = i[m]
  <2> DEFINE S == {m \in Nat : m <= n /\ m <= k => h[m] = i[m]}
  <2>1. ASSUME NEW m \in Nat, \A j \in 0 .. m - 1 : j \in S PROVE m \in S
    <3> SUFFICES ASSUME m <= n, m <= k PROVE h[m] = i[m]
      OBVIOUS
    <3>1. h[m] = Val(h, m) /\ i[m] = Val(i, m)
      BY <1>1
    <3>2. m \notin B => h[d[m]] = i[d[m]]
      BY <2>1
    <3> QED BY <3>1, <3>2 DEF Descends
  <2>2. \A m \in Nat : m \in S
    <3> HIDE DEF S
    <3> QED BY <2>1, StrongInduction
  <2> QED BY <2>2
<1>2. ASSUME NEW n \in Nat PROVE \E h : Good(h, n)
  <2> DEFINE S == {m \in Nat : \E h : Good(h, m)}
  <2>1. 0 \in S
    <3>1. 0 \in B
      OBVIOUS
    <3>2. Good([m \in 0 .. 0 |-> a[0]], 0)
      BY <3>1 DEF Descends
    <3> QED BY <3>2
  <2>2. ASSUME NEW m \in Nat, m \in S PROVE m + 1 \in S
    <3>1. PICK h : Good(h, m)
      BY <2>2
    <3> DEFINE i == [j \in 0 .. m + 1 |-> IF j <= m THEN h[j] ELSE Val(h, m + 1)]
    <3>2. Val(h, m + 1) \in X
      BY <3>1 DEF Descends
    <3>3. i \in [0 .. m + 1 -> X]
      BY <3>1, <3>2
    <3>4. ASSUME NEW j \in 0 .. m + 1 PROVE i[j] = Val(i, j)
      <4>1. i[j] = Val(h, j)
        <5>1. CASE j <= m
          BY <3>1, <5>1
        <5>2. CASE j = m + 1
          BY <5>2
        <5> QED BY <5>1, <5>2
      <4>2. j \notin B => d[j] \in 0 .. m /\ i[d[j]] = h[d[j]]
        OBVIOUS
      <4> HIDE DEF i
      <4> QED BY <4>1, <4>2 DEF Descends
    <3>5. Good(i, m + 1)
      BY <3>3, <3>4
    <3> HIDE DEF Good, i
    <3> QED BY <3>5
  <2> HIDE DEF S
  <2>3. n \in S
    BY <2>1, <2>2, SetInduction
  <2> QED BY <2>3 DEF S
<1> DEFINE H(n) == CHOOSE h : Good(h, n)
           f    == [n \in Nat |-> H(n)[n]]
<1>3. ASSUME NEW n \in Nat PROVE Good(H(n), n)
  BY <1>2, Zenon
<1> HIDE DEF H
<1>4. f \in [Nat -> X]
  BY <1>3
<1>5. ASSUME NEW n \in Nat PROVE f[n] = Val(f, n)
  <2>1. f[n] = Val(H(n), n)
    <3>1. n \in 0 .. n /\ f[n] = H(n)[n]
      OBVIOUS
    <3> HIDE DEF f
    <3> QED BY <1>3, <3>1
  <2>2. ASSUME n \notin B PROVE f[d[n]] = H(n)[d[n]]
    <3>1. d[n] \in Nat /\ d[n] <= n
      BY <2>2
    <3>2. Good(H(n), n) /\ Good(H(d[n]), d[n])
      BY <1>3, <3>1
    <3>3. H(n)[d[n]] = H(d[n])[d[n]]
      <4> HIDE DEF Good
      <4> QED BY <1>1, <3>1, <3>2
    <3> QED BY <3>1, <3>3
  <2> HIDE DEF f
  <2> QED BY <2>1, <2>2 DEF Descends
<1> HIDE DEF f
<1> QED BY <1>4, <1>5 DEF Solves

(***************************************************************************)
(* Arithmetic.                                                             *)
(***************************************************************************)
(* The set of subsets of 1 .. n has 2 ^ n members. *)
LEMMA PowerOfTwo == ASSUME NEW n \in Nat PROVE 2 ^ n \in Nat /\ 2 ^ n > 0
<1> DEFINE P == SUBSET (1 .. n)
<1>1. IsFiniteSet(1 .. n) /\ Cardinality(1 .. n) = n
  <2>1. 1 \in Int /\ n \in Int
    OBVIOUS
  <2>2. IsFiniteSet(1 .. n) /\ Cardinality(1 .. n) = IF 1 > n THEN 0 ELSE n - 1 + 1
    BY <2>1, FS_Interval
  <2> QED BY <2>2
<1>2. IsFiniteSet(P) /\ Cardinality(P) = 2 ^ n
  BY <1>1, FS_SUBSET
<1>3. P # {}
  OBVIOUS
<1> HIDE DEF P
<1> QED BY <1>2, <1>3, FS_CardinalityType, FS_EmptySet

(* The bounds of int64, as plain facts. *)
LEMMA Int64Facts ==
  /\ MaxInt \in Nat /\ MaxInt >= 1
  /\ MinInt \in Int /\ MinInt = -MaxInt - 1
  /\ \A x : x \in Int64 <=> x \in Int /\ MinInt <= x /\ x <= MaxInt
BY MoneyAssumption DEF Int64, MinInt

(* The remainder of a dividend below the divisor is the dividend. *)
LEMMA SmallMod ==
  ASSUME NEW n \in Nat, n > 0, NEW x \in Int, 0 <= x, x < n
  PROVE  /\ x % n = x
         /\ (x + n) % n = x
OBVIOUS

(* Wrap is the identity on int64 and subtracts 2^w once above it. *)
LEMMA WrapValue ==
  ASSUME NEW x \in Int
  PROVE  /\ x \in Int64 => Wrap(x) = x
         /\ MaxInt < x /\ x <= 2 * MaxInt => Wrap(x) = x - 2 * (MaxInt + 1)
<1> DEFINE n == 2 * (MaxInt + 1)
<1>1. n \in Nat /\ n > 0 /\ n = 2 * MaxInt + 2
  BY Int64Facts
<1>2. ASSUME x \in Int64 PROVE Wrap(x) = x
  <2>1. x - MinInt \in Int /\ 0 <= x - MinInt /\ x - MinInt < n
    BY <1>1, <1>2, Int64Facts
  <2>2. (x - MinInt) % n = x - MinInt
    BY <1>1, <2>1, SmallMod
  <2> QED BY <2>2, Int64Facts DEF Wrap
<1>3. ASSUME MaxInt < x, x <= 2 * MaxInt PROVE Wrap(x) = x - 2 * (MaxInt + 1)
  <2> DEFINE y == x - MinInt - n
  <2>1. y \in Int /\ 0 <= y /\ y < n /\ x - MinInt = y + n
    BY <1>1, <1>3, Int64Facts
  <2> HIDE DEF y
  <2>2. (y + n) % n = y
    BY <1>1, <2>1, SmallMod
  <2>3. (x - MinInt) % n = x - MinInt - n
    BY <2>1, <2>2 DEF y
  <2> QED BY <2>3, <1>1, Int64Facts DEF Wrap
<1> QED BY <1>2, <1>3

(* A wrapped value is an int64. *)
LEMMA WrapType ==
  ASSUME NEW x \in Int
  PROVE  Wrap(x) \in Int64
<1> DEFINE n == 2 * (MaxInt + 1)
           y == (x - MinInt) % n
<1>1. n \in Nat /\ n > 0 /\ n = 2 * MaxInt + 2 /\ x - MinInt \in Int
  BY Int64Facts
<1> HIDE DEF n
<1>2. y \in Int /\ 0 <= y /\ y < n
  BY <1>1
<1>3. Wrap(x) = y + MinInt
  BY DEF Wrap, n
<1> HIDE DEF y
<1> QED BY <1>1, <1>2, <1>3, Int64Facts

(* Adding a positive amount to a non-negative one: addI64 reports an       *)
(* overflow exactly when the sum does not fit.                             *)
LEMMA AddNonNegative ==
  ASSUME NEW a \in Int64, a >= 0, NEW b \in Int64, b > 0, addI64(a, b).ok
  PROVE  addI64(a, b).val = a + b /\ a + b \in Int64
<1>1. a \in Int /\ b \in Int /\ a <= MaxInt /\ b <= MaxInt /\ MaxInt \in Nat
      /\ a + b \in Int
  BY Int64Facts
<1>2. CASE a + b <= MaxInt
  <2>1. a + b \in Int64
    BY <1>1, <1>2, Int64Facts
  <2>2. Wrap(a + b) = a + b
    BY <1>1, <2>1, WrapValue
  <2> QED BY <2>1, <2>2, <1>1 DEF addI64, Overflow, Value
<1>3. CASE a + b > MaxInt
  <2>1. Wrap(a + b) = a + b - 2 * (MaxInt + 1)
    BY <1>1, <1>3, WrapValue
  <2>2. a > 0 /\ Wrap(a + b) < 0
    BY <2>1, <1>1, <1>3
  <2> QED BY <2>2 DEF addI64, Overflow
<1> QED BY <1>1, <1>2, <1>3

(* addI64 of two amounts that are not negative is their sum. *)
LEMMA AddAmountsValue ==
  ASSUME NEW a \in 0 .. MaxInt, NEW b \in 0 .. MaxInt, addI64(a, b).ok
  PROVE  addI64(a, b).val = a + b /\ a + b \in 0 .. MaxInt
<1>1. a \in Int64 /\ b \in Int64 /\ a >= 0 /\ b >= 0 /\ a \in Int /\ b \in Int
  BY Int64Facts
<1>2. CASE b > 0
  BY <1>1, <1>2, AddNonNegative, Int64Facts
<1>3. CASE b = 0
  <2>1. Wrap(a + b) = a
    BY <1>1, <1>3, WrapValue
  <2> QED BY <1>3, <2>1 DEF addI64, Value, Overflow
<1> QED BY <1>1, <1>2, <1>3

(* It is not negative. *)
LEMMA AddAmounts ==
  ASSUME NEW a \in 0 .. MaxInt, NEW b \in 0 .. MaxInt, addI64(a, b).ok
  PROVE  addI64(a, b).val \in 0 .. MaxInt
BY AddAmountsValue

(* mulDivRound of amounts that are not negative is not negative. *)
LEMMA MulDivRoundAmounts ==
  ASSUME NEW a \in 0 .. MaxInt, NEW b \in 0 .. MaxInt, NEW d \in 1 .. MaxInt,
         mulDivRound(a, b, d).ok
  PROVE  mulDivRound(a, b, d).val \in 0 .. MaxInt
<1>1. a \in Nat /\ b \in Nat /\ d \in Nat /\ d > 0
  BY Int64Facts
<1>2. a * b \in Nat
  BY <1>1
<1> DEFINE x == a * b
<1> HIDE DEF x
<1>3. x \in Nat
  BY <1>2 DEF x
<1>4. x \div d \in Nat /\ x % d \in Nat
  BY <1>1, <1>3
<1>5. Abs(x) = x /\ Abs(d) = d /\ Sign(d) = 1 /\ Sign(x) \in {0, 1}
  BY <1>1, <1>3 DEF Abs, Sign
<1>6. Quo(x, d) \in Nat
  <2>1. Quo(x, d) = Sign(x) * 1 * (x \div d)
    BY <1>5 DEF Quo
  <2>2. CASE Sign(x) = 0
    BY <1>4, <2>1, <2>2
  <2>3. CASE Sign(x) = 1
    BY <1>4, <2>1, <2>3
  <2> QED BY <1>5, <2>2, <2>3
<1>7. RoundQuo(x, d) \in Nat
  <2>1. ~(Sign(x) * Sign(d) < 0)
    BY <1>5
  <2> QED BY <1>6, <2>1 DEF RoundQuo
<1>8. RoundQuo(x, d) \in Int64 => RoundQuo(x, d) \in 0 .. MaxInt
  BY <1>7, Int64Facts
<1> QED BY <1>1, <1>8 DEF mulDivRound, Value, Overflow, x

(* An average price that Fill computes without an error fits an int64 and  *)
(* is not negative.                                                        *)
LEMMA FillAvgType ==
  ASSUME NEW o, NEW q \in 1 .. MaxInt, NEW p \in 1 .. MaxInt,
         o.avgFillPx \in 0 .. MaxInt, o.filledQty \in 0 .. MaxInt,
         addI64(o.filledQty, q).ok, FillAvg(o, q, p).ok
  PROVE  FillAvg(o, q, p).val \in 0 .. MaxInt
<1> DEFINE old == MulQuantity(o.avgFillPx, o.filledQty)
           add == MulQuantity(p, q)
           total == FillNotional(o, q, p)
           filled == addI64(o.filledQty, q).val
<1>1. /\ quantityScale \in 1 .. MaxInt /\ quantityScale \in 0 .. MaxInt
      /\ p \in 0 .. MaxInt /\ q \in 0 .. MaxInt
  BY MoneyAssumption
<1>2. filled \in 1 .. MaxInt
  <2>1. o.filledQty \in Int64 /\ o.filledQty >= 0 /\ q \in Int64 /\ q > 0
    BY Int64Facts
  <2>2. filled = o.filledQty + q /\ o.filledQty + q \in Int64
    BY <2>1, AddNonNegative
  <2> QED BY <2>1, <2>2, Int64Facts
<1>3. old.ok => old.val \in 0 .. MaxInt
  BY <1>1, MulDivRoundAmounts DEF MulQuantity
<1>4. add.ok => add.val \in 0 .. MaxInt
  BY <1>1, MulDivRoundAmounts DEF MulQuantity
<1> HIDE DEF old, add
<1>5. total = IF old.ok /\ add.ok THEN addI64(old.val, add.val) ELSE Overflow
  BY DEF FillNotional, old, add
<1>6. total.ok => total.val \in 0 .. MaxInt
  BY <1>3, <1>4, <1>5, AddAmounts DEF Overflow
<1> HIDE DEF total, filled
<1>7. FillAvg(o, q, p) = IF total.ok THEN DivByQuantity(total.val, filled) ELSE Overflow
  BY DEF FillAvg, total, filled
<1>8. total.ok /\ FillAvg(o, q, p) = mulDivRound(total.val, quantityScale, filled)
  BY <1>2, <1>7 DEF DivByQuantity, Overflow
<1> QED BY <1>1, <1>2, <1>6, <1>8, MulDivRoundAmounts

(* Multiplying by a positive number keeps the order, both ways. *)
LEMMA ScaleOrder ==
  ASSUME NEW a \in Int, NEW b \in Int, NEW d \in Nat, d > 0
  PROVE  /\ a <= b => a * d <= b * d
         /\ a * d < b * d => a < b
<1>1. ASSUME NEW k \in Nat PROVE k * d \in Nat
  OBVIOUS
<1>2. ASSUME NEW x \in Int, NEW y \in Int, x <= y PROVE x * d <= y * d
  <2> DEFINE k == y - x
  <2>1. k \in Nat /\ y = x + k
    BY <1>2
  <2> HIDE DEF k
  <2>2. y * d = x * d + k * d
    BY <2>1
  <2>3. x * d \in Int /\ k * d \in Nat
    BY <1>1, <2>1
  <2> QED BY <2>2, <2>3
<1>3. a * d \in Int /\ b * d \in Int
  OBVIOUS
<1> QED BY <1>2, <1>3

(* The remainder is the only number below the divisor that differs from    *)
(* the dividend by a multiple.                                             *)
LEMMA ModUnique ==
  ASSUME NEW n \in Nat, n > 0, NEW x \in Int, NEW k \in Int, NEW r \in Int,
         0 <= r, r < n, x = k * n + r
  PROVE  x % n = r
<1> DEFINE q == x \div n
           m == x % n
<1>1. q \in Int /\ m \in Int /\ 0 <= m /\ m < n /\ x = n * q + m
  OBVIOUS
<1> HIDE DEF q, m
<1>2. x = q * n + m /\ q * n \in Int /\ k * n \in Int
  BY <1>1
<1>3. (q + 1) * n = q * n + n /\ (k + 1) * n = k * n + n
  BY <1>1
<1>4. k < q + 1
  <2>1. k * n < (q + 1) * n /\ q + 1 \in Int
    BY <1>1, <1>2, <1>3
  <2> QED BY <2>1, ScaleOrder
<1>5. q < k + 1
  <2>1. q * n < (k + 1) * n /\ k + 1 \in Int
    BY <1>1, <1>2, <1>3
  <2> QED BY <1>1, <2>1, ScaleOrder
<1>6. q = k
  BY <1>1, <1>4, <1>5
<1>7. m = r
  BY <1>1, <1>2, <1>6
<1> QED BY <1>7 DEF m

(* Two sums that wrap to the same number still do after adding the same to *)
(* both, and a wrapped sum may be added to as if it were the sum.          *)
LEMMA WrapAdds ==
  ASSUME NEW a \in Int, NEW b \in Int, NEW x \in Int
  PROVE  /\ Wrap(a) = Wrap(b) => Wrap(a + x) = Wrap(b + x)
         /\ Wrap(Wrap(a) + x) = Wrap(a + x)
<1> DEFINE n == 2 * (MaxInt + 1)
<1>1. n \in Nat /\ n > 0 /\ MinInt \in Int
  BY Int64Facts
<1>2. \A y : Wrap(y) = ((y - MinInt) % n) + MinInt
  BY DEF Wrap
<1> HIDE DEF n
<1>3. ASSUME NEW y \in Int
      PROVE  \E k \in Int : Wrap(y) = y + k * n
  <2> DEFINE z == y - MinInt
             q == z \div n
  <2>1. q \in Int /\ z % n \in Int /\ z = n * q + (z % n)
    BY <1>1
  <2> HIDE DEF q
  <2>2. n * q = q * n /\ q * n \in Int /\ (-q) * n = -(q * n) /\ -q \in Int
    BY <1>1, <2>1
  <2>3. z % n = z + (-q) * n
    BY <1>1, <2>1, <2>2
  <2> DEFINE p == (-q) * n
  <2>4. p \in Int /\ Wrap(y) = (z + p) + MinInt
    BY <1>2, <2>2, <2>3
  <2> HIDE DEF p
  <2>5. Wrap(y) = y + p
    BY <1>1, <2>4
  <2> QED BY <2>2, <2>5 DEF p
<1>4. ASSUME NEW y \in Int, NEW k \in Int
      PROVE  Wrap(y + k * n) = Wrap(y)
  <2> DEFINE z == y - MinInt
             q == z \div n
             r == z % n
  <2>1. q \in Int /\ r \in Int /\ 0 <= r /\ r < n /\ z = n * q + r /\ z \in Int
    BY <1>1
  <2>2. k * n \in Int
    BY <1>1
  <2> HIDE DEF q, r
  <2>3. (y + k * n) - MinInt = z + k * n /\ z + k * n \in Int
    BY <1>1, <2>2
  <2> HIDE DEF z
  <2>4. z + k * n = (q + k) * n + r /\ q + k \in Int
    BY <1>1, <2>1
  <2>5. (z + k * n) % n = r
    BY <1>1, <2>1, <2>3, <2>4, ModUnique
  <2>6. Wrap(y + k * n) = r + MinInt
    BY <1>2, <2>3, <2>5
  <2> QED BY <1>2, <2>6 DEF r, z
<1>5. ASSUME Wrap(a) = Wrap(b) PROVE Wrap(a + x) = Wrap(b + x)
  <2>1. PICK j \in Int : Wrap(a) = a + j * n
    BY <1>3
  <2>2. PICK k \in Int : Wrap(b) = b + k * n
    BY <1>3
  <2>3. j * n \in Int /\ k * n \in Int /\ (k - j) * n = k * n - j * n /\ k - j \in Int
    BY <1>1
  <2> DEFINE u == j * n
             v == k * n
             w == (k - j) * n
  <2>4. u \in Int /\ v \in Int /\ w = v - u /\ a + u = b + v
    BY <1>5, <2>1, <2>2, <2>3
  <2> HIDE DEF u, v, w
  <2>5. a + x = (b + x) + w /\ b + x \in Int
    BY <2>4
  <2> QED BY <1>4, <2>3, <2>5 DEF w
<1>6. Wrap(Wrap(a) + x) = Wrap(a + x)
  <2>1. PICK k \in Int : Wrap(a) = a + k * n
    BY <1>3
  <2>2. k * n \in Int /\ Wrap(a) + x = (a + x) + k * n
    BY <1>1, <2>1
  <2> QED BY <1>4, <2>2
<1> QED BY <1>5, <1>6

(* Multiples add up to a multiple. *)
LEMMA WholeSum ==
  ASSUME NEW d \in Nat, d > 0, NEW x \in Nat, NEW y \in Nat, x % d = 0, y % d = 0
  PROVE  (x + y) % d = 0
<1> DEFINE i == x \div d
           j == y \div d
           q == (x + y) \div d
           r == (x + y) % d
<1>1. /\ i \in Nat /\ x = d * i + (x % d) /\ d * i \in Nat
      /\ j \in Nat /\ y = d * j + (y % d) /\ d * j \in Nat
  OBVIOUS
<1>2. q \in Nat /\ r \in Nat /\ r < d /\ x + y = d * q + r /\ d * q \in Nat
  OBVIOUS
<1> HIDE DEF i, j, q, r
<1>3. x = i * d /\ y = j * d
  BY <1>1
<1>4. x + y = (i + j) * d /\ x + y = q * d + r /\ q * d \in Int
  BY <1>1, <1>2, <1>3
<1>5. (q + 1) * d = q * d + d
  BY <1>2
<1>6. i + j \in Int /\ q \in Int /\ q + 1 \in Int
  BY <1>1, <1>2
<1>7. i + j < q + 1
  <2>1. (i + j) * d < (q + 1) * d
    BY <1>2, <1>4, <1>5
  <2> QED BY <1>6, <2>1, ScaleOrder
<1>8. q <= i + j
  <2>1. (q - 1) * d < (i + j) * d
    BY <1>2, <1>4
  <2>2. q - 1 < i + j
    BY <1>6, <2>1, ScaleOrder
  <2> QED BY <1>6, <2>2
<1>9. q = i + j
  BY <1>6, <1>7, <1>8
<1>10. r = 0
  BY <1>2, <1>4, <1>9
<1> QED BY <1>10 DEF r

(* RoundQuo of an amount is one of the two numbers around the quotient,    *)
(* the nearer one.                                                         *)
LEMMA RoundNear ==
  ASSUME NEW x \in Nat, NEW d \in Nat, d > 0
  PROVE  /\ RoundQuo(x, d) \in Nat
         /\ 2 * (RoundQuo(x, d) * d) <= 2 * x + d
         /\ 2 * x <= 2 * (RoundQuo(x, d) * d) + d
         /\ \A k \in Nat : k * d <= x => k <= RoundQuo(x, d)
         /\ \A k \in Nat : x <= k * d => RoundQuo(x, d) <= k
<1> DEFINE q == x \div d
           r == x % d
           m == q * d
<1>1. q \in Nat /\ r \in Nat /\ r < d
  OBVIOUS
<1>2. x = d * (x \div d) + (x % d)
  OBVIOUS
<1>3. x = m + r
  BY <1>1, <1>2
<1>4. RoundQuo(x, d) = IF 2 * r >= d THEN q + 1 ELSE q
  <2>1. Abs(x) = x /\ Abs(d) = d /\ Sign(d) = 1 /\ Sign(x) = (IF x > 0 THEN 1 ELSE 0)
    BY DEF Abs, Sign
  <2>2. TwoAbsRem(x, d) = 2 * r
    BY <2>1 DEF TwoAbsRem
  <2>3. CASE x > 0
    <3>1. Quo(x, d) = q
      BY <1>1, <2>1, <2>3 DEF Quo
    <3> QED BY <2>1, <2>2, <2>3, <3>1 DEF RoundQuo
  <2>4. CASE x = 0
    <3>1. q = 0 /\ r = 0
      BY <1>1, <2>4
    <3>2. Quo(x, d) = 0
      BY <1>1, <2>1, <2>4 DEF Quo
    <3> QED BY <2>1, <2>2, <3>1, <3>2 DEF RoundQuo
  <2> QED BY <2>3, <2>4
<1> DEFINE R == RoundQuo(x, d)
<1> HIDE DEF q, r, R
<1>5. m \in Int /\ (q + 1) * d = m + d
  BY <1>1
<1>6. ASSUME NEW k \in Nat, k * d <= x PROVE k <= q
  <2>1. k * d \in Int /\ k * d < (q + 1) * d
    BY <1>1, <1>3, <1>5, <1>6
  <2>2. k < q + 1
    BY <1>1, <2>1, ScaleOrder
  <2> QED BY <1>1, <2>2
<1>7. ASSUME NEW k \in Nat, x <= k * d PROVE q < k \/ (q = k /\ r = 0)
  <2>1. k * d \in Int /\ m <= k * d
    BY <1>1, <1>3, <1>5, <1>7
  <2>2. ~(k < q)
    <3> SUFFICES ASSUME k < q PROVE FALSE
      OBVIOUS
    <3>1. (k + 1) * d <= m /\ (k + 1) * d = k * d + d
      BY <1>1, ScaleOrder
    <3> QED BY <1>1, <1>3, <1>5, <1>7, <2>1, <3>1
  <2>3. q = k => r = 0
    BY <1>1, <1>3, <1>5, <1>7
  <2> QED BY <1>1, <2>2, <2>3
<1>8. CASE 2 * r >= d
  <2>1. R = q + 1 /\ R * d = m + d
    BY <1>4, <1>5, <1>8 DEF R
  <2> HIDE DEF m
  <2>2. R \in Nat /\ 2 * (R * d) <= 2 * x + d /\ 2 * x <= 2 * (R * d) + d
    BY <1>1, <1>3, <1>5, <1>8, <2>1
  <2>3. \A k \in Nat : (k * d <= x => k <= R) /\ (x <= k * d => R <= k)
    BY <1>1, <1>6, <1>7, <1>8, <2>1
  <2> QED BY <2>2, <2>3 DEF R
<1>9. CASE ~(2 * r >= d)
  <2>1. R = q /\ R * d = m
    BY <1>4, <1>5, <1>9 DEF R
  <2> HIDE DEF m
  <2>2. R \in Nat /\ 2 * (R * d) <= 2 * x + d /\ 2 * x <= 2 * (R * d) + d
    BY <1>1, <1>3, <1>5, <1>9, <2>1
  <2>3. \A k \in Nat : (k * d <= x => k <= R) /\ (x <= k * d => R <= k)
    BY <1>1, <1>6, <1>7, <2>1
  <2> QED BY <2>2, <2>3 DEF R
<1> QED BY <1>8, <1>9

(* A whole multiple of the divisor is not rounded. *)
LEMMA RoundExact ==
  ASSUME NEW k \in Nat, NEW d \in Nat, d > 0
  PROVE  RoundQuo(k * d, d) = k
<1> DEFINE x == k * d
<1>1. x \in Nat /\ k * d <= x /\ x <= k * d
  OBVIOUS
<1>2. x = k * d
  OBVIOUS
<1> HIDE DEF x
<1>3. RoundQuo(x, d) \in Nat /\ k <= RoundQuo(x, d) /\ RoundQuo(x, d) <= k
  BY <1>1, RoundNear
<1>4. RoundQuo(x, d) = k
  BY <1>3
<1> QED BY <1>2, <1>4

(* What Fill computes: both notionals rounded, their sum divided and       *)
(* rounded again, with nothing wrapped.                                    *)
LEMMA FillAvgValue ==
  ASSUME NEW o, NEW q \in 1 .. MaxInt, NEW p \in 1 .. MaxInt,
         o.avgFillPx \in 0 .. MaxInt, o.filledQty \in 0 .. MaxInt,
         addI64(o.filledQty, q).ok, FillAvg(o, q, p).ok
  PROVE  LET old == RoundQuo(o.avgFillPx * o.filledQty, quantityScale)
             add == RoundQuo(p * q, quantityScale)
         IN  FillAvg(o, q, p).val
               = RoundQuo((old + add) * quantityScale, o.filledQty + q)
<1> DEFINE S == quantityScale
           oldR == MulQuantity(o.avgFillPx, o.filledQty)
           addR == MulQuantity(p, q)
           total == FillNotional(o, q, p)
           filled == addI64(o.filledQty, q).val
<1>1. /\ S \in 1 .. MaxInt /\ S \in 0 .. MaxInt /\ S # 0
      /\ p \in 0 .. MaxInt /\ q \in 0 .. MaxInt
  BY MoneyAssumption
<1>2. filled = o.filledQty + q /\ filled # 0
  <2>1. o.filledQty \in Int64 /\ o.filledQty >= 0 /\ q \in Int64 /\ q > 0
    BY Int64Facts
  <2>2. filled = o.filledQty + q /\ o.filledQty + q \in Int64
    BY <2>1, AddNonNegative
  <2> QED BY <2>1, <2>2, Int64Facts
<1>3. oldR.ok => /\ oldR.val \in 0 .. MaxInt
                 /\ oldR.val = RoundQuo(o.avgFillPx * o.filledQty, S)
  BY <1>1, MulDivRoundAmounts DEF MulQuantity, mulDivRound, Value, Overflow
<1>4. addR.ok => addR.val \in 0 .. MaxInt /\ addR.val = RoundQuo(p * q, S)
  BY <1>1, MulDivRoundAmounts DEF MulQuantity, mulDivRound, Value, Overflow
<1> HIDE DEF oldR, addR
<1>5. total = IF oldR.ok /\ addR.ok THEN addI64(oldR.val, addR.val) ELSE Overflow
  BY DEF FillNotional, oldR, addR
<1>6. total.ok => oldR.ok /\ addR.ok /\ total.val = oldR.val + addR.val
  BY <1>3, <1>4, <1>5, AddAmountsValue DEF Overflow
<1> HIDE DEF total, filled
<1>7. FillAvg(o, q, p) = IF total.ok THEN DivByQuantity(total.val, filled) ELSE Overflow
  BY DEF FillAvg, total, filled
<1>8. total.ok /\ FillAvg(o, q, p) = mulDivRound(total.val, S, filled)
  BY <1>2, <1>7 DEF DivByQuantity, Overflow
<1>9. FillAvg(o, q, p).val = RoundQuo(total.val * S, filled)
  BY <1>2, <1>8 DEF mulDivRound, Value, Overflow
<1> QED BY <1>2, <1>3, <1>4, <1>6, <1>8, <1>9

(* One fill: the new average times the new quantity misses the exact cost  *)
(* by what the two notionals and the quotient are rounded.                 *)
LEMMA FillDrift ==
  ASSUME NEW o, NEW q \in 1 .. MaxInt, NEW p \in 1 .. MaxInt,
         o.avgFillPx \in 0 .. MaxInt, o.filledQty \in 0 .. MaxInt,
         addI64(o.filledQty, q).ok, FillAvg(o, q, p).ok
  PROVE  LET got  == FillAvg(o, q, p).val * (o.filledQty + q)
             cost == o.avgFillPx * o.filledQty + p * q
             err  == 2 * quantityScale + o.filledQty + q
         IN  2 * got <= 2 * cost + err /\ 2 * cost <= 2 * got + err
<1> DEFINE S == quantityScale
           F == o.filledQty + q
           x == o.avgFillPx * o.filledQty
           y == p * q
           old == RoundQuo(x, S)
           add == RoundQuo(y, S)
           z == (old + add) * S
           n == RoundQuo(z, F)
<1>1. /\ S \in Nat /\ S > 0 /\ F \in Nat /\ F > 0
      /\ o.avgFillPx \in Nat /\ o.filledQty \in Nat /\ p \in Nat /\ q \in Nat
  BY MoneyAssumption
<1>2. x \in Nat /\ y \in Nat
  BY <1>1
<1>3. FillAvg(o, q, p).val = n
  BY FillAvgValue
<1> HIDE DEF S, F, x, y, n, old, add, z
<1>4. old \in Nat /\ 2 * (old * S) <= 2 * x + S /\ 2 * x <= 2 * (old * S) + S
  BY <1>1, <1>2, RoundNear DEF old
<1>5. add \in Nat /\ 2 * (add * S) <= 2 * y + S /\ 2 * y <= 2 * (add * S) + S
  BY <1>1, <1>2, RoundNear DEF add
<1>6. z \in Nat /\ z = old * S + add * S /\ old * S \in Int /\ add * S \in Int
  BY <1>1, <1>4, <1>5 DEF z
<1>7. n \in Nat /\ 2 * (n * F) <= 2 * z + F /\ 2 * z <= 2 * (n * F) + F
  BY <1>1, <1>6, RoundNear DEF n
<1>8. n * F \in Int
  BY <1>1, <1>7
<1> DEFINE u == old * S
           v == add * S
           w == n * F
<1>9. u \in Int /\ v \in Int /\ w \in Int
  BY <1>6, <1>8
<1>10. /\ 2 * u <= 2 * x + S /\ 2 * x <= 2 * u + S
       /\ 2 * v <= 2 * y + S /\ 2 * y <= 2 * v + S
       /\ 2 * w <= 2 * z + F /\ 2 * z <= 2 * w + F /\ z = u + v
  BY <1>4, <1>5, <1>6, <1>7
<1> HIDE DEF u, v, w
<1>11. 2 * w <= 2 * (x + y) + (2 * S + F) /\ 2 * (x + y) <= 2 * w + (2 * S + F)
  BY <1>1, <1>2, <1>9, <1>10
<1>12. 2 * S + F = 2 * quantityScale + o.filledQty + q
  BY <1>1 DEF S, F
<1> QED BY <1>3, <1>11, <1>12 DEF w, x, y, F, S

(* A fill of whole shares of an order filled in whole shares: the new      *)
(* average lies between the old one, if there is one, and the price.       *)
LEMMA FillBetween ==
  ASSUME NEW o, NEW q \in 1 .. MaxInt, NEW p \in 1 .. MaxInt,
         o.avgFillPx \in 0 .. MaxInt, o.filledQty \in 0 .. MaxInt,
         addI64(o.filledQty, q).ok, FillAvg(o, q, p).ok,
         o.filledQty % quantityScale = 0, q % quantityScale = 0
  PROVE  \A k \in Nat :
           /\ k <= p /\ (o.filledQty > 0 => k <= o.avgFillPx) => k <= FillAvg(o, q, p).val
           /\ p <= k /\ (o.filledQty > 0 => o.avgFillPx <= k) => FillAvg(o, q, p).val <= k
<1> DEFINE S == quantityScale
           G == o.filledQty
           A == o.avgFillPx
           i == G \div S
           j == q \div S
           n == FillAvg(o, q, p).val
<1>1. S \in Nat /\ S > 0 /\ G \in Nat /\ A \in Nat /\ p \in Nat /\ q \in Nat /\ q > 0
  BY MoneyAssumption
<1>2. n = RoundQuo((RoundQuo(A * G, S) + RoundQuo(p * q, S)) * S, G + q)
  BY FillAvgValue
<1>3. G % S = 0 /\ q % S = 0
  OBVIOUS
<1> HIDE DEF S, G, A, n
<1>4. \A x \in Nat : x % S = 0 => x \div S \in Nat /\ x = (x \div S) * S
  <2> SUFFICES ASSUME NEW x \in Nat, x % S = 0 PROVE x \div S \in Nat /\ x = (x \div S) * S
    OBVIOUS
  <2>1. x \div S \in Nat /\ x = S * (x \div S) + (x % S)
    BY <1>1
  <2>2. S * (x \div S) = (x \div S) * S /\ S * (x \div S) \in Int
    BY <1>1, <2>1
  <2> QED BY <2>1, <2>2
<1>5. i \in Nat /\ j \in Nat /\ G = i * S /\ q = j * S
  BY <1>1, <1>3, <1>4
<1> HIDE DEF i, j
<1>6. A * G = (A * i) * S /\ p * q = (p * j) * S /\ A * i \in Nat /\ p * j \in Nat
  <2>1. \A a, b, c \in Nat : a * (b * c) = (a * b) * c /\ a * b \in Nat
    OBVIOUS
  <2> QED BY <1>1, <1>5, <2>1
<1>7. RoundQuo(A * G, S) = A * i /\ RoundQuo(p * q, S) = p * j
  BY <1>1, <1>6, RoundExact
<1> DEFINE x == A * G + p * q
           F == G + q
<1>8. (A * i + p * j) * S = x
  <2>1. \A a, b, c \in Nat : (a + b) * c = a * c + b * c
    OBVIOUS
  <2> QED BY <1>1, <1>6, <2>1
<1>9. n = RoundQuo(x, F)
  BY <1>2, <1>7, <1>8
<1>10. A * G \in Nat /\ p * q \in Nat /\ x \in Nat /\ F \in Nat /\ F > 0
       /\ x = A * G + p * q /\ F = G + q
  BY <1>1
<1> HIDE DEF x, F
<1>11. ASSUME NEW k \in Nat, k <= p, G > 0 => k <= A PROVE k <= n
  <2>1. k * q <= p * q
    BY <1>1, <1>11, ScaleOrder
  <2>2. k * G <= A * G
    <3>1. CASE G > 0
      BY <1>1, <1>11, <3>1, ScaleOrder
    <3>2. CASE G = 0
      BY <1>1, <3>2
    <3> QED BY <1>1, <3>1, <3>2
  <2>3. k * F = k * G + k * q /\ k * G \in Nat /\ k * q \in Nat
    BY <1>1, <1>10
  <2>4. k * F <= x
    BY <1>10, <2>1, <2>2, <2>3
  <2> QED BY <1>9, <1>10, <2>4, RoundNear
<1>12. ASSUME NEW k \in Nat, p <= k, G > 0 => A <= k PROVE n <= k
  <2>1. p * q <= k * q
    BY <1>1, <1>12, ScaleOrder
  <2>2. A * G <= k * G
    <3>1. CASE G > 0
      BY <1>1, <1>12, <3>1, ScaleOrder
    <3>2. CASE G = 0
      BY <1>1, <3>2
    <3> QED BY <1>1, <3>1, <3>2
  <2>3. k * F = k * G + k * q /\ k * G \in Nat /\ k * q \in Nat
    BY <1>1, <1>10
  <2>4. x <= k * F
    BY <1>10, <2>1, <2>2, <2>3
  <2> QED BY <1>9, <1>10, <2>4, RoundNear
<1> QED BY <1>11, <1>12 DEF G, A, n

(***************************************************************************)
(* Methods of one order.                                                   *)
(***************************************************************************)
(* The fields of an order, one by one. *)
LEMMA OrderFields ==
  ASSUME NEW ids, NEW terms, terms \subseteq TermRecords,
         NEW o \in OrderRecords(ids, terms)
  PROVE  /\ o.id \in ids /\ o.terms \in terms
         /\ o.filledQty \in Int64 /\ o.avgFillPx \in 0 .. MaxInt
         /\ o.status \in Statuses /\ o.version \in Nat
         /\ o.events \in Seq(Events(ids, terms))
         /\ o.terms.quantity \in Int64
BY DEF OrderRecords, TermRecords

(* A status-only method, taken when legal: the status and the version      *)
(* change, one event is appended, the order stays well typed.              *)
LEMMA StatusMethod ==
  ASSUME NEW ids, NEW terms, terms \subseteq TermRecords,
         NEW o \in OrderRecords(ids, terms),
         NEW to \in Statuses, NEW n \in PlainEventNames,
         canTransitionTo(o.status, to)
  PROVE  LET p == raise(Transition(o, to), StatusEvent(n, o.id))
         IN  /\ p \in OrderRecords(ids, terms)
             /\ p.id = o.id
             /\ p.terms = o.terms
             /\ p.filledQty = o.filledQty
             /\ p.avgFillPx = o.avgFillPx
             /\ p.status = to
             /\ p.version = o.version + 1
             /\ p.events = Append(o.events, StatusEvent(n, o.id))
<1> DEFINE p == raise(Transition(o, to), StatusEvent(n, o.id))
           e == StatusEvent(n, o.id)
<1>1. e \in Events(ids, terms)
  BY OrderFields DEF StatusEvent, Events
<1>2. p = [o EXCEPT !.status = to, !.version = o.version + 1,
                    !.events = Append(o.events, e)]
  BY DEF raise, Transition, OrderRecords
<1> HIDE DEF e, p
<1>3. Append(o.events, e) \in Seq(Events(ids, terms)) /\ o.version + 1 \in Nat
  BY <1>1, OrderFields
<1>4. /\ p \in OrderRecords(ids, terms)
      /\ p.id = o.id /\ p.terms = o.terms /\ p.filledQty = o.filledQty
      /\ p.avgFillPx = o.avgFillPx
      /\ p.status = to /\ p.version = o.version + 1
      /\ p.events = Append(o.events, e)
  BY <1>2, <1>3 DEF OrderRecords
<1> QED BY <1>4 DEF e, p

(* e is the event of a fill of qty at px that has led to order p. *)
Tells(e, p, qty, px) ==
  /\ e.orderID = p.id
  /\ e.name = IF p.status = "FILLED" THEN "OrderFilled" ELSE "OrderPartiallyFilled"
  /\ e.fillQty = qty /\ e.fillPrice = px
  /\ e.avgFillPrice = p.avgFillPx
  /\ e.name = "OrderPartiallyFilled" => e.cumulativeQty = p.filledQty

(* A fill that succeeds adds exactly qty, stays within the order's         *)
(* quantity, moves to the status that says so and appends one event.       *)
LEMMA FillMethod ==
  ASSUME NEW ids, NEW terms, terms \subseteq TermRecords,
         NEW o \in OrderRecords(ids, terms), FillsMatchStatus(o),
         NEW qty \in Int64, NEW px \in Int64, CanFill(o, qty, px)
  PROVE  LET p == Fill(o, qty, px)
         IN  /\ p \in OrderRecords(ids, terms)
             /\ p.id = o.id
             /\ p.terms = o.terms
             /\ p.filledQty = o.filledQty + qty
             /\ p.filledQty \in 1 .. o.terms.quantity
             /\ p.status = IF p.filledQty = o.terms.quantity
                           THEN "FILLED" ELSE "PARTIALLY_FILLED"
             /\ p.version = o.version + 1
             /\ p.avgFillPx = FillAvg(o, qty, px).val
             /\ \E e \in Events(ids, terms) :
                  p.events = Append(o.events, e) /\ Tells(e, p, qty, px)
<1> DEFINE p   == Fill(o, qty, px)
           sum == o.filledQty + qty
           avg == FillAvg(o, qty, px).val
           to  == IF sum = o.terms.quantity THEN "FILLED" ELSE "PARTIALLY_FILLED"
           e   == IF sum = o.terms.quantity
                  THEN OrderFilled(o.id, qty, px, avg)
                  ELSE OrderPartiallyFilled(o.id, qty, px, sum, avg)
<1>1. /\ qty > 0
      /\ o.filledQty \in Int64 /\ o.filledQty >= 0
      /\ addI64(o.filledQty, qty).ok
      /\ FillAvg(o, qty, px).ok
      /\ o.status \in {"ACCEPTED", "PARTIALLY_FILLED"}
  BY OrderFields, Int64Facts DEF FillsMatchStatus, CanFill
<1>2. addI64(o.filledQty, qty).val = sum /\ sum \in Int64
  BY <1>1, AddNonNegative
<1>3. sum \in 1 .. o.terms.quantity
  BY <1>1, <1>2, OrderFields, Int64Facts DEF CanFill
<1>4. avg \in 0 .. MaxInt /\ avg \in Int64
  <2>1. /\ qty \in 1 .. MaxInt /\ px \in 1 .. MaxInt
        /\ o.filledQty \in 0 .. MaxInt /\ o.avgFillPx \in 0 .. MaxInt
    BY <1>1, OrderFields, Int64Facts DEF CanFill
  <2>2. avg \in 0 .. MaxInt
    BY <1>1, <2>1, FillAvgType
  <2> QED BY <2>2, Int64Facts
<1>5. e \in Events(ids, terms)
  <2>1. OrderFilled(o.id, qty, px, avg) \in Events(ids, terms)
    BY <1>4, OrderFields DEF OrderFilled, Events
  <2>2. OrderPartiallyFilled(o.id, qty, px, sum, avg) \in Events(ids, terms)
    BY <1>2, <1>4, OrderFields DEF OrderPartiallyFilled, Events
  <2> QED BY <2>1, <2>2
<1>6. canTransitionTo(o.status, to) /\ to \in Statuses
  BY <1>1 DEF canTransitionTo, legalTransitions, Statuses
<1>7. p = [o EXCEPT !.filledQty = sum, !.avgFillPx = avg, !.status = to,
                    !.version = o.version + 1, !.events = Append(o.events, e)]
  <2>1. CASE sum = o.terms.quantity
    BY <1>2, <1>6, <2>1 DEF Fill, raise, Transition, OrderRecords
  <2>2. CASE sum # o.terms.quantity
    BY <1>2, <1>6, <2>2 DEF Fill, raise, Transition, OrderRecords
  <2> QED BY <2>1, <2>2
<1> HIDE DEF e, avg, to, p
<1>8. Append(o.events, e) \in Seq(Events(ids, terms)) /\ o.version + 1 \in Nat
  BY <1>5, OrderFields
<1>9. /\ p \in OrderRecords(ids, terms)
      /\ p.id = o.id /\ p.terms = o.terms
      /\ p.filledQty = sum
      /\ p.avgFillPx = avg
      /\ p.status = to
      /\ p.version = o.version + 1
      /\ p.events = Append(o.events, e)
  BY <1>2, <1>4, <1>6, <1>7, <1>8 DEF OrderRecords
<1>10. Tells(e, p, qty, px)
  BY <1>9 DEF e, to, OrderFilled, OrderPartiallyFilled, Tells
<1> QED BY <1>3, <1>5, <1>9, <1>10 DEF to, p, avg

(* A method is legal only on an order that is not finished. *)
LEMMA WorkingStatus ==
  ASSUME NEW s \in Statuses, NEW to \in Statuses, canTransitionTo(s, to)
  PROVE  /\ s \in {"NEW", "ACCEPTED", "PARTIALLY_FILLED"}
         /\ to \in {"ACCEPTED", "REJECTED"} => s = "NEW"
         /\ to \in {"CANCELED", "EXPIRED"} => s \in {"ACCEPTED", "PARTIALLY_FILLED"}
BY DEF canTransitionTo, legalTransitions, Statuses

(* A new order: typed, nothing filled, OrderPlaced buffered. *)
LEMMA NewOrderFacts ==
  ASSUME NEW ids, NEW terms, terms \subseteq TermRecords,
         NEW id \in ids, NEW t \in terms, ValidTerms(t)
  PROVE  /\ NewOrder(id, t) \in OrderRecords(ids, terms)
         /\ NewOrder(id, t).id = id
         /\ NewOrder(id, t).terms = t
         /\ NewOrder(id, t).status = "NEW"
         /\ FillsMatchStatus(NewOrder(id, t))
         /\ Len(NewOrder(id, t).events) = 1
<1> DEFINE e == OrderPlaced(id, t)
           o == NewOrder(id, t)
<1>1. e \in Events(ids, terms)
  BY DEF OrderPlaced, Events
<1>2. o = [id |-> id, terms |-> t, filledQty |-> 0, avgFillPx |-> 0,
           status |-> "NEW", version |-> 0, events |-> <<e>>]
  BY DEF NewOrder, raise
<1> HIDE DEF e, o
<1>3. 0 \in Int64 /\ 0 \in 0 .. MaxInt /\ "NEW" \in Statuses /\ <<e>> \in Seq(Events(ids, terms))
      /\ Len(<<e>>) = 1
  BY <1>1, Int64Facts DEF Statuses
<1>4. o \in OrderRecords(ids, terms)
  BY <1>2, <1>3 DEF OrderRecords
<1>5. t.quantity \in Int /\ t.quantity > 0
  BY Int64Facts DEF ValidTerms, TermRecords
<1>6. FillsMatchStatus(o)
  BY <1>2, <1>5 DEF FillsMatchStatus
<1> QED BY <1>2, <1>3, <1>4, <1>6 DEF o

(* The one event a new order has buffered. *)
LEMMA NewOrderEvent ==
  ASSUME NEW id, NEW t
  PROVE  NewOrder(id, t).events[1] = OrderPlaced(id, t)
BY DEF NewOrder, raise

(* A snapshot keeps everything but the event buffer. *)
LEMMA SnapshotFacts ==
  ASSUME NEW ids, NEW terms, NEW o \in OrderRecords(ids, terms)
  PROVE  /\ Snapshot(o) \in OrderSnapshots(ids, terms)
         /\ Snapshot(o).id = o.id
         /\ Snapshot(o).version = o.version
         /\ FillsMatchStatus(o) => FillsMatchStatus(Snapshot(o))
BY DEF Snapshot, OrderSnapshots, OrderRecords, FillsMatchStatus

(* A rehydrated order is the stored one with no event buffered. *)
LEMMA RehydrateFacts ==
  ASSUME NEW ids, NEW terms, NEW s \in OrderSnapshots(ids, terms)
  PROVE  /\ RehydrateOrder(s) \in OrderRecords(ids, terms)
         /\ RehydrateOrder(s).id = s.id
         /\ RehydrateOrder(s).version = s.version
         /\ RehydrateOrder(s).events = <<>>
         /\ FillsMatchStatus(s) => FillsMatchStatus(RehydrateOrder(s))
<1>1. <<>> \in Seq(Events(ids, terms))
  OBVIOUS
<1> QED BY <1>1 DEF RehydrateOrder, OrderSnapshots, OrderRecords, FillsMatchStatus

(* Appending an event makes its buffer longer. *)
LEMMA AppendLength ==
  ASSUME NEW S, NEW s \in Seq(S), NEW e \in S
  PROVE  Len(Append(s, e)) = Len(s) + 1 /\ Len(Append(s, e)) > 0
OBVIOUS
=============================================================================
