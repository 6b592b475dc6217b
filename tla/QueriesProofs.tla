---------------------------- MODULE QueriesProofs ----------------------------
(***************************************************************************)
(* Proofs about Queries, for any orders, shards, hash, scales, texts and   *)
(* limits.  First the texts: parsing and formatting are exact.  Then the   *)
(* invariant: what is stored is what was written (StoreInv), what a scan   *)
(* has collected lies between the beginning of the query and now           *)
(* (ScanInv), and an answer is a sorted and cut arrangement of it          *)
(* (PageInv).                                                              *)
(***************************************************************************)
EXTENDS Queries, OrderProofs

(***************************************************************************)
(* Numbers and digits.                                                     *)
(***************************************************************************)
Decimals == Seq(0 .. 9)

LEMMA OneDigit == ASSUME NEW x \in 0 .. 9 PROVE <<x>> \in Decimals
BY DEF Decimals

LEMMA MoreDigits ==
  ASSUME NEW s \in Decimals, NEW x \in 0 .. 9
  PROVE  Append(s, x) \in Decimals
BY DEF Decimals

(* The powers of ten. *)
LEMMA Pow10Defined ==
  /\ Pow10 \in [Nat -> Nat \ {0}]
  /\ Pow10[0] = 1
  /\ \A n \in Nat : Pow10[n + 1] = 10 * Pow10[n]
<1> DEFINE X == Nat \ {0}
           B == {0}
           a == [n \in Nat |-> 1]
           d == [n \in Nat |-> IF n = 0 THEN 0 ELSE n - 1]
           g == [n \in Nat |-> [x \in X |-> 10 * x]]
           Equation(f) == f = [n \in Nat |-> IF n = 0 THEN 1 ELSE 10 * f[n - 1]]
<1>1. /\ a \in [Nat -> X] /\ d \in [Nat -> Nat] /\ g \in [Nat -> [X -> X]]
      /\ \A n \in Nat \ B : d[n] < n
  OBVIOUS
<1>2. PICK f : Solves(f, X, a, d, g, B)
  <2> HIDE DEF X, a, d, g, B
  <2> QED BY <1>1, Descent
<1>3. f \in [Nat -> X] /\ \A n \in Nat : f[n] = Descends(f, n, a, d, g, B)
  BY <1>2 DEF Solves
<1>4. ASSUME NEW n \in Nat PROVE f[n] = IF n = 0 THEN 1 ELSE 10 * f[n - 1]
  <2>1. f[n] = Descends(f, n, a, d, g, B)
    BY <1>3
  <2>2. n # 0 => n - 1 \in Nat /\ f[n - 1] \in X
    BY <1>3
  <2> QED BY <2>1, <2>2 DEF Descends
<1>5. Equation(f)
  BY <1>3, <1>4
<1>6. Equation(Pow10)
  BY <1>5, Zenon DEF Pow10
<1>7. ASSUME NEW n \in Nat PROVE Pow10[n] = IF n = 0 THEN 1 ELSE 10 * Pow10[n - 1]
  BY <1>6, Zenon
<1>8. Pow10[0] = 1 /\ \A n \in Nat : Pow10[n + 1] = 10 * Pow10[n]
  <2>1. ASSUME NEW n \in Nat PROVE n + 1 \in Nat /\ n + 1 # 0 /\ (n + 1) - 1 = n
    OBVIOUS
  <2> QED BY <1>7, <2>1
<1> DEFINE S == {n \in Nat : Pow10[n] \in X}
<1>9. \A n \in Nat : n \in S
  <2>1. 0 \in S
    BY <1>8
  <2>2. ASSUME NEW n \in Nat, n \in S PROVE n + 1 \in S
    <3>1. Pow10[n + 1] = 10 * Pow10[n]
      BY <1>8
    <3> QED BY <2>2, <3>1
  <2> HIDE DEF S
  <2> QED BY <2>1, <2>2, SetInduction
<1>10. Pow10 \in [Nat -> X]
  <2>1. Pow10 = [n \in Nat |-> Pow10[n]]
    BY <1>6, Zenon
  <2> QED BY <1>9, <2>1
<1> QED BY <1>8, <1>10

(* They turn sums into products. *)
LEMMA Pow10Adds ==
  ASSUME NEW m \in Nat, NEW n \in Nat
  PROVE  Pow10[m + n] = Pow10[m] * Pow10[n]
<1> DEFINE S == {k \in Nat : Pow10[m + k] = Pow10[m] * Pow10[k]}
<1>1. 0 \in S
  BY Pow10Defined
<1>2. ASSUME NEW k \in Nat, k \in S PROVE k + 1 \in S
  <2> DEFINE p == Pow10[m]
             q == Pow10[k]
  <2>1. m + (k + 1) = (m + k) + 1 /\ m + k \in Nat
    OBVIOUS
  <2>2. Pow10[m + (k + 1)] = 10 * (p * q) /\ Pow10[k + 1] = 10 * q
    BY <1>2, <2>1, Pow10Defined
  <2>3. p \in Nat /\ q \in Nat
    BY Pow10Defined
  <2>4. 10 * (p * q) = p * (10 * q)
    <3> HIDE DEF p, q
    <3> QED BY <2>3
  <2> QED BY <2>2, <2>4
<1>3. n \in S
  <2> HIDE DEF S
  <2> QED BY <1>1, <1>2, SetInduction
<1> QED BY <1>3

(* strconv's digits of a number, by its last one. *)
LEMMA DigitsDefined ==
  /\ Digits \in [Nat -> Decimals]
  /\ \A n \in Nat : Digits[n] = IF n < 10 THEN <<n>> ELSE Append(Digits[n \div 10], n % 10)
<1> DEFINE B == 0 .. 9
           a == [n \in Nat |-> IF n < 10 THEN <<n>> ELSE <<>>]
           d == [n \in Nat |-> n \div 10]
           g == [n \in Nat |-> [s \in Decimals |-> Append(s, n % 10)]]
           Equation(f) == f = [n \in Nat |-> IF n < 10 THEN <<n>>
                                             ELSE Append(f[n \div 10], n % 10)]
<1>1. a \in [Nat -> Decimals]
  <2>1. ASSUME NEW n \in Nat PROVE a[n] \in Decimals
    <3>1. CASE n < 10
      <4>1. n \in 0 .. 9 /\ a[n] = <<n>>
        BY <3>1
      <4> QED BY <4>1, OneDigit
    <3>2. CASE ~(n < 10)
      BY <3>2 DEF Decimals
    <3> QED BY <3>1, <3>2
  <2> QED BY <2>1
<1>2. d \in [Nat -> Nat] /\ \A n \in Nat \ B : d[n] < n
  OBVIOUS
<1>3. g \in [Nat -> [Decimals -> Decimals]]
  <2>1. ASSUME NEW n \in Nat, NEW s \in Decimals PROVE Append(s, n % 10) \in Decimals
    <3>1. n % 10 \in 0 .. 9
      OBVIOUS
    <3> QED BY <3>1 DEF Decimals
  <2> QED BY <2>1
<1>4. PICK f : Solves(f, Decimals, a, d, g, B)
  <2> HIDE DEF a, d, g, B
  <2> QED BY <1>1, <1>2, <1>3, Descent
<1>5. f \in [Nat -> Decimals] /\ \A n \in Nat : f[n] = Descends(f, n, a, d, g, B)
  BY <1>4 DEF Solves
<1>6. ASSUME NEW n \in Nat
      PROVE  f[n] = IF n < 10 THEN <<n>> ELSE Append(f[n \div 10], n % 10)
  <2>1. CASE n < 10
    <3>1. n \in B /\ a[n] = <<n>>
      BY <2>1
    <3> QED BY <1>5, <2>1, <3>1 DEF Descends
  <2>2. CASE ~(n < 10)
    <3>1. n \notin B /\ d[n] = n \div 10 /\ n \div 10 \in Nat
      BY <2>2
    <3>2. f[n] = g[n][f[n \div 10]] /\ f[n \div 10] \in Decimals
      <4> HIDE DEF B, g, d
      <4> QED BY <1>5, <3>1 DEF Descends
    <3> QED BY <2>2, <3>2
  <2> QED BY <2>1, <2>2
<1>7. Equation(f)
  <2> DEFINE h == [n \in Nat |-> IF n < 10 THEN <<n>> ELSE Append(f[n \div 10], n % 10)]
  <2>1. \A n \in Nat : f[n] = h[n]
    BY <1>6, Zenon
  <2>2. h = [n \in Nat |-> h[n]] /\ f = [n \in Nat |-> f[n]]
    BY <1>5
  <2>3. f = h
    <3> HIDE DEF h
    <3> QED BY <2>1, <2>2
  <2> QED BY <2>3
<1>8. Equation(Digits)
  BY <1>7, Zenon DEF Digits
<1>9. ASSUME NEW n \in Nat
      PROVE  Digits[n] = IF n < 10 THEN <<n>> ELSE Append(Digits[n \div 10], n % 10)
  BY <1>8, Zenon
<1> DEFINE S == {n \in Nat : Digits[n] \in Decimals}
<1>10. \A n \in Nat : n \in S
  <2>1. ASSUME NEW n \in Nat, \A m \in 0 .. n - 1 : m \in S PROVE n \in S
    <3>1. CASE n < 10
      <4>1. n \in 0 .. 9
        BY <3>1
      <4>2. Digits[n] = <<n>>
        BY <1>9, <3>1, Zenon
      <4> QED BY <4>1, <4>2, OneDigit
    <3>2. CASE ~(n < 10)
      <4>1. n \div 10 \in 0 .. n - 1 /\ n % 10 \in 0 .. 9
        BY <3>2
      <4>2. Digits[n \div 10] \in Decimals /\ Digits[n] = Append(Digits[n \div 10], n % 10)
        <5>1. Digits[n] = Append(Digits[n \div 10], n % 10)
          BY <1>9, <3>2, Zenon
        <5> QED BY <2>1, <4>1, <5>1
      <4> HIDE DEF Equation, a, d, g
      <4> QED BY <4>1, <4>2, MoreDigits
    <3> QED BY <3>1, <3>2
  <2> HIDE DEF S
  <2> QED BY <2>1, StrongInduction
<1>11. Digits \in [Nat -> Decimals]
  <2>1. Digits = [n \in Nat |-> Digits[n]]
    BY <1>8, Zenon
  <2> QED BY <1>10, <2>1
<1> QED BY <1>9, <1>11

(* scaleDigits counts. *)
LEMMA ScaleDigitsType ==
  ASSUME NEW n \in Nat
  PROVE  scaleDigits(n) \in Nat
<1> DEFINE B == 0 .. 1
           a == [t \in Nat |-> 0]
           d == [t \in Nat |-> t \div 10]
           g == [t \in Nat |-> [x \in Nat |-> 1 + x]]
           Equation(f) == f = [t \in Nat |-> IF t <= 1 THEN 0 ELSE 1 + f[t \div 10]]
<1>1. /\ a \in [Nat -> Nat] /\ d \in [Nat -> Nat] /\ g \in [Nat -> [Nat -> Nat]]
      /\ \A t \in Nat \ B : d[t] < t
  OBVIOUS
<1>2. PICK f : Solves(f, Nat, a, d, g, B)
  <2> HIDE DEF a, d, g, B
  <2> QED BY <1>1, Descent
<1>3. f \in [Nat -> Nat] /\ \A t \in Nat : f[t] = Descends(f, t, a, d, g, B)
  BY <1>2 DEF Solves
<1>4. ASSUME NEW t \in Nat PROVE f[t] = IF t <= 1 THEN 0 ELSE 1 + f[t \div 10]
  <2>1. f[t] = Descends(f, t, a, d, g, B)
    BY <1>3
  <2>2. t \div 10 \in Nat /\ f[t \div 10] \in Nat
    BY <1>3
  <2> QED BY <2>1, <2>2 DEF Descends
<1>5. Equation(f)
  BY <1>3, <1>4
<1>6. Equation(DivisionsByTen)
  BY <1>5, Zenon DEF DivisionsByTen
<1>7. ASSUME NEW t \in Nat
      PROVE  DivisionsByTen[t] = IF t <= 1 THEN 0 ELSE 1 + DivisionsByTen[t \div 10]
  BY <1>6, Zenon
<1> DEFINE S == {t \in Nat : DivisionsByTen[t] \in Nat}
<1>8. ASSUME NEW t \in Nat, \A m \in 0 .. t - 1 : m \in S PROVE t \in S
  <2>1. CASE t <= 1
    BY <1>7, <2>1
  <2>2. CASE ~(t <= 1)
    <3>1. t \div 10 \in 0 .. t - 1
      BY <2>2
    <3>2. DivisionsByTen[t \div 10] \in Nat /\ DivisionsByTen[t] = 1 + DivisionsByTen[t \div 10]
      BY <1>7, <1>8, <2>2, <3>1
    <3> QED BY <3>2
  <2> QED BY <2>1, <2>2
<1>9. n \in S
  <2> HIDE DEF S
  <2> QED BY <1>8, StrongInduction
<1> QED BY <1>9 DEF scaleDigits

(* t reads the digits d from the left. *)
Reads(t, d) ==
  /\ t \in [0 .. Len(d) -> Nat]
  /\ t[0] = 0
  /\ \A n \in 1 .. Len(d) : t[n] = 10 * t[n - 1] + d[n]

LEMMA NumberDefined ==
  ASSUME NEW d \in Decimals
  PROVE  \E t : Reads(t, d) /\ Number(d) = t[Len(d)]
<1> DEFINE N == Len(d)
           g == [n \in 1 .. N |-> [x \in Nat |-> 10 * x + d[n]]]
           Equation(t) == t = [n \in 0 .. N |-> IF n = 0 THEN 0 ELSE 10 * t[n - 1] + d[n]]
<1>1. N \in Nat /\ \A n \in 1 .. N : d[n] \in Nat
  BY DEF Decimals
<1> HIDE DEF N
<1>2. g \in [1 .. N -> [Nat -> Nat]] /\ 0 \in Nat
  BY <1>1
<1> HIDE DEF g
<1>3. PICK t : Follows(t, Nat, 0, g, N)
  BY <1>1, <1>2, Recursion
<1>4. t \in [0 .. N -> Nat] /\ t[0] = 0
  BY <1>3 DEF Follows
<1>5. ASSUME NEW n \in 1 .. N PROVE t[n] = 10 * t[n - 1] + d[n]
  <2>1. t[n - 1] \in Nat /\ t[n] = g[n][t[n - 1]]
    BY <1>1, <1>3 DEF Follows
  <2>2. g[n] = [x \in Nat |-> 10 * x + d[n]]
    BY DEF g
  <2> QED BY <2>1, <2>2
<1>6. Equation(t)
  <2> DEFINE h == [n \in 0 .. N |-> IF n = 0 THEN 0 ELSE 10 * t[n - 1] + d[n]]
  <2>1. ASSUME NEW n \in 0 .. N PROVE t[n] = h[n]
    <3>1. CASE n = 0
      BY <1>4, <3>1
    <3>2. CASE n # 0
      <4>1. n \in 1 .. N
        BY <3>2
      <4> QED BY <1>5, <3>2, <4>1
    <3> QED BY <3>1, <3>2
  <2> QED BY <1>4, <2>1
<1> DEFINE k == CHOOSE h : Equation(h)
<1>7. Number(d) = k[N]
  BY Zenon DEF Number, N
<1>8. Equation(k)
  BY <1>6, Zenon
<1> HIDE DEF k
<1>9. k[0] = t[0] /\ \A n \in 1 .. N : k[n - 1] = t[n - 1] => k[n] = t[n]
  <2>1. 0 \in 0 .. N /\ \A n \in 1 .. N : n \in 0 .. N /\ n # 0
    BY <1>1
  <2>2. k[0] = 0 /\ \A n \in 1 .. N : k[n] = 10 * k[n - 1] + d[n]
    BY <1>8, <2>1, Zenon
  <2> QED BY <1>4, <1>5, <2>2
<1>10. N \in 0 .. N
  BY <1>1
<1>11. k[N] = t[N]
  <2>1. StepAlike(k, t, N)
    BY <1>9 DEF StepAlike
  <2>2. \A n \in 0 .. N : k[n] = t[n]
    BY <1>1, <2>1, RecursionUnique
  <2> QED BY <1>10, <2>2
<1> QED BY <1>4, <1>5, <1>7, <1>11 DEF Reads, N

LEMMA NumberType ==
  ASSUME NEW d \in Decimals
  PROVE  Number(d) \in Nat
<1>1. PICK t : Reads(t, d) /\ Number(d) = t[Len(d)]
  BY NumberDefined
<1>2. Len(d) \in Nat
  BY DEF Decimals
<1> QED BY <1>1, <1>2 DEF Reads

LEMMA NumberEmpty == Number(<<>>) = 0
<1>1. <<>> \in Decimals /\ Len(<<>>) = 0
  BY DEF Decimals
<1>2. PICK t : Reads(t, <<>>) /\ Number(<<>>) = t[Len(<<>>)]
  BY <1>1, NumberDefined
<1> QED BY <1>1, <1>2 DEF Reads

(* One more digit. *)
LEMMA NumberAppend ==
  ASSUME NEW s \in Decimals, NEW x \in 0 .. 9
  PROVE  Number(Append(s, x)) = 10 * Number(s) + x
<1> DEFINE b == Append(s, x)
           N == Len(s)
<1>1. /\ b \in Decimals /\ N \in Nat /\ Len(b) = N + 1 /\ b[N + 1] = x
      /\ \A n \in 1 .. N : b[n] = s[n]
  BY DEF Decimals
<1> HIDE DEF b, N
<1>2. PICK t : Reads(t, b) /\ Number(b) = t[Len(b)]
  BY <1>1, NumberDefined
<1>3. PICK u : Reads(u, s) /\ Number(s) = u[Len(s)]
  BY NumberDefined
<1>4. t[0] = u[0] /\ \A n \in 1 .. N : t[n - 1] = u[n - 1] => t[n] = u[n]
  BY <1>1, <1>2, <1>3 DEF Reads, N
<1>5. t[N] = u[N]
  <2>1. N \in Nat /\ N \in 0 .. N
    BY <1>1
  <2>2. StepAlike(t, u, N)
    BY <1>4 DEF StepAlike
  <2>3. \A n \in 0 .. N : t[n] = u[n]
    BY <2>1, <2>2, RecursionUnique
  <2> QED BY <2>1, <2>3
<1>6. t[N + 1] = 10 * t[N] + x
  <2>1. N + 1 \in 1 .. Len(b) /\ (N + 1) - 1 = N
    BY <1>1
  <2> QED BY <1>1, <1>2, <2>1 DEF Reads
<1> QED BY <1>1, <1>2, <1>3, <1>5, <1>6 DEF b, N

(* A number without its last digit. *)
LEMMA LastDigit ==
  ASSUME NEW b \in Decimals, NEW n \in Nat, Len(b) = n + 1
  PROVE  \E c \in Decimals : \E x \in 0 .. 9 : b = Append(c, x) /\ Len(c) = n
<1> DEFINE c == [i \in 1 .. n |-> b[i]]
<1>1. c \in Decimals /\ Len(c) = n /\ b[n + 1] \in 0 .. 9
  BY DEF Decimals
<1>2. b = Append(c, b[n + 1])
  BY <1>1 DEF Decimals
<1> QED BY <1>1, <1>2

(* Two numbers written one after the other. *)
LEMMA NumberConcat ==
  ASSUME NEW a \in Decimals, NEW b \in Decimals
  PROVE  /\ a \o b \in Decimals /\ Len(b) \in Nat /\ Len(a \o b) = Len(a) + Len(b)
         /\ Number(a \o b) = Number(a) * Pow10[Len(b)] + Number(b)
         /\ Number(b) < Pow10[Len(b)]
<1> DEFINE A == Number(a)
           Good(c) == /\ Number(a \o c) = A * Pow10[Len(c)] + Number(c)
                      /\ Number(c) < Pow10[Len(c)]
           S == {n \in Nat : \A c \in Decimals : Len(c) = n => Good(c)}
<1>1. A \in Nat
  BY NumberType
<1>2. 0 \in S
  <2> SUFFICES ASSUME NEW c \in Decimals, Len(c) = 0 PROVE Good(c)
    OBVIOUS
  <2>1. c = <<>> /\ a \o <<>> = a
    BY DEF Decimals
  <2> HIDE DEF A
  <2>2. A * 1 + 0 = A
    BY <1>1
  <2> QED BY <2>1, <2>2, NumberEmpty, Pow10Defined DEF A
<1>3. ASSUME NEW n \in Nat, n \in S PROVE n + 1 \in S
  <2> SUFFICES ASSUME NEW c \in Decimals, Len(c) = n + 1 PROVE Good(c)
    OBVIOUS
  <2>1. PICK e \in Decimals, x \in 0 .. 9 : c = Append(e, x) /\ Len(e) = n
    BY LastDigit
  <2>2. a \o c = Append(a \o e, x) /\ a \o e \in Decimals
    BY <2>1 DEF Decimals
  <2>3. Good(e)
    BY <1>3, <2>1
  <2> DEFINE p == Pow10[n]
             E == Number(e)
  <2>4. p \in Nat /\ E \in Nat /\ Pow10[n + 1] = 10 * p
    BY NumberType, Pow10Defined
  <2>5. Number(a \o c) = 10 * (A * p + E) + x /\ Number(c) = 10 * E + x /\ E < p
    BY <2>1, <2>2, <2>3, NumberAppend
  <2> HIDE DEF A, p, E
  <2>6. 10 * (A * p + E) + x = A * (10 * p) + (10 * E + x)
    <3> DEFINE q == A * p
    <3>1. q \in Nat /\ A * (10 * p) = 10 * q
      BY <1>1, <2>4
    <3> HIDE DEF q
    <3>2. 10 * (q + E) + x = 10 * q + (10 * E + x)
      BY <2>4, <3>1
    <3> QED BY <3>1, <3>2 DEF q
  <2>7. 10 * E + x < 10 * p
    BY <2>4, <2>5
  <2>8. Number(a \o c) = A * Pow10[n + 1] + Number(c) /\ Number(c) < Pow10[n + 1]
    BY <2>4, <2>5, <2>6, <2>7
  <2> QED BY <2>8
<1>4. Len(b) \in Nat /\ a \o b \in Decimals /\ Len(a \o b) = Len(a) + Len(b)
  BY DEF Decimals
<1>5. Len(b) \in S
  <2> HIDE DEF S
  <2> QED BY <1>2, <1>3, <1>4, SetInduction
<1> QED BY <1>4, <1>5

(* Zeros on the right multiply, zeros on the left change nothing. *)
LEMMA ZerosFacts ==
  ASSUME NEW n \in Nat
  PROVE  Zeros(n) \in Decimals /\ Len(Zeros(n)) = n /\ Number(Zeros(n)) = 0
<1> DEFINE S == {k \in Nat : Number(Zeros(k)) = 0}
<1>1. ASSUME NEW k \in Nat PROVE Zeros(k) \in Decimals /\ Len(Zeros(k)) = k
  BY DEF Zeros, Decimals
<1>2. 0 \in S
  <2>1. Zeros(0) = <<>>
    BY <1>1 DEF Decimals
  <2> QED BY <2>1, NumberEmpty
<1>3. ASSUME NEW k \in Nat, k \in S PROVE k + 1 \in S
  <2>1. Zeros(k + 1) = Append(Zeros(k), 0)
    BY DEF Zeros
  <2>2. Number(Zeros(k + 1)) = 10 * 0 + 0
    <3>1. 0 \in 0 .. 9 /\ Zeros(k) \in Decimals /\ Number(Zeros(k)) = 0
      BY <1>1, <1>3
    <3>2. \A d \in Decimals : Number(Append(d, 0)) = 10 * Number(d) + 0
      BY <3>1, NumberAppend
    <3> QED BY <2>1, <3>1, <3>2
  <2> QED BY <2>2
<1>4. n \in S
  <2> HIDE DEF S
  <2> QED BY <1>2, <1>3, SetInduction
<1> QED BY <1>1, <1>4

LEMMA ZerosAppended ==
  ASSUME NEW d \in Decimals, NEW n \in Nat
  PROVE  /\ d \o Zeros(n) \in Decimals /\ Len(d \o Zeros(n)) = Len(d) + n
         /\ Number(d \o Zeros(n)) = Number(d) * Pow10[n]
<1>1. /\ d \o Zeros(n) \in Decimals /\ Len(d \o Zeros(n)) = Len(d) + n
      /\ Number(d \o Zeros(n)) = Number(d) * Pow10[n] + 0
  BY ZerosFacts, NumberConcat
<1>2. Number(d) * Pow10[n] \in Nat
  BY NumberType, Pow10Defined
<1> QED BY <1>1, <1>2

LEMMA ZerosPrefixed ==
  ASSUME NEW d \in Decimals, NEW n \in Nat
  PROVE  /\ Zeros(n) \o d \in Decimals /\ Len(Zeros(n) \o d) = n + Len(d)
         /\ Number(Zeros(n) \o d) = Number(d)
<1>1. /\ Zeros(n) \o d \in Decimals /\ Len(Zeros(n) \o d) = n + Len(d) /\ Len(d) \in Nat
      /\ Number(Zeros(n) \o d) = Number(Zeros(n)) * Pow10[Len(d)] + Number(d)
      /\ Number(Zeros(n)) = 0
  <2>1. Zeros(n) \in Decimals /\ Len(Zeros(n)) = n /\ Number(Zeros(n)) = 0
    BY ZerosFacts
  <2> QED BY <2>1, NumberConcat
<1>2. Pow10[Len(d)] \in Nat /\ Number(d) \in Nat
  BY <1>1, NumberType, Pow10Defined
<1> QED BY <1>1, <1>2

(* FormatInt writes the number it is given, and needs as many digits as    *)
(* the number has.                                                         *)
LEMMA DigitsNumber ==
  ASSUME NEW n \in Nat
  PROVE  Number(Digits[n]) = n
<1> DEFINE S == {k \in Nat : Number(Digits[k]) = k}
<1>1. ASSUME NEW k \in Nat, \A m \in 0 .. k - 1 : m \in S PROVE k \in S
  <2>1. CASE k < 10
    <3>1. k \in 0 .. 9 /\ Digits[k] = <<k>> /\ <<k>> = Append(<<>>, k) /\ <<>> \in Decimals
      BY <2>1, DigitsDefined DEF Decimals
    <3>2. Number(<<k>>) = 10 * 0 + k
      BY <3>1, NumberAppend, NumberEmpty
    <3> QED BY <3>1, <3>2
  <2>2. CASE ~(k < 10)
    <3> DEFINE q == k \div 10
               r == k % 10
    <3>1. q \in 0 .. k - 1 /\ r \in 0 .. 9 /\ k = 10 * q + r
      BY <2>2
    <3>2. Digits[k] = Append(Digits[q], r) /\ Digits[q] \in Decimals
      BY <2>2, <3>1, DigitsDefined
    <3> HIDE DEF q, r
    <3>3. Number(Digits[q]) = q
      BY <1>1, <3>1
    <3>4. Number(Digits[k]) = 10 * q + r
      BY <3>1, <3>2, <3>3, NumberAppend
    <3> QED BY <3>1, <3>4
  <2> QED BY <2>1, <2>2
<1>2. n \in S
  <2> HIDE DEF S
  <2> QED BY <1>1, StrongInduction
<1> QED BY <1>2

LEMMA DigitsLength ==
  ASSUME NEW m \in Nat, m >= 1, NEW n \in Nat, n < Pow10[m]
  PROVE  Len(Digits[n]) <= m
<1> DEFINE S == {k \in Nat : \A i \in Nat : i < Pow10[k + 1] => Len(Digits[i]) <= k + 1}
<1>1. ASSUME NEW i \in Nat, i < 10 PROVE Len(Digits[i]) = 1
  BY <1>1, DigitsDefined
<1>2. 0 \in S
  <2> SUFFICES ASSUME NEW i \in Nat, i < Pow10[0 + 1] PROVE Len(Digits[i]) <= 0 + 1
    OBVIOUS
  <2>1. Pow10[0 + 1] = 10
    BY Pow10Defined
  <2>2. Len(Digits[i]) = 1
    <3>1. i < 10
      BY <2>1
    <3> QED BY <1>1, <3>1
  <2> QED BY <2>2
<1>3. ASSUME NEW k \in Nat, k \in S PROVE k + 1 \in S
  <2> SUFFICES ASSUME NEW i \in Nat, i < Pow10[(k + 1) + 1]
               PROVE  Len(Digits[i]) <= (k + 1) + 1
    OBVIOUS
  <2>1. CASE i < 10
    BY <1>1, <2>1
  <2>2. CASE ~(i < 10)
    <3> DEFINE q == i \div 10
               p == Pow10[k + 1]
    <3>1. p \in Nat /\ i < 10 * p
      BY Pow10Defined
    <3> HIDE DEF p
    <3>2. q \in Nat /\ q < p /\ i % 10 \in 0 .. 9
      BY <3>1
    <3>3. Digits[i] = Append(Digits[q], i % 10) /\ Digits[q] \in Decimals
      BY <2>2, <3>2, DigitsDefined
    <3> HIDE DEF q
    <3>4. Len(Digits[q]) <= k + 1
      BY <1>3, <3>2 DEF p
    <3>5. Len(Digits[i]) = Len(Digits[q]) + 1 /\ Len(Digits[q]) \in Nat
      BY <3>2, <3>3 DEF Decimals
    <3> QED BY <3>4, <3>5
  <2> QED BY <2>1, <2>2
<1>4. m - 1 \in S
  <2> HIDE DEF S
  <2>1. m - 1 \in Nat
    OBVIOUS
  <2> QED BY <1>2, <1>3, <2>1, SetInduction
<1>5. (m - 1) + 1 = m
  OBVIOUS
<1> QED BY <1>4, <1>5

(***************************************************************************)
(* Parsing and formatting.                                                 *)
(***************************************************************************)
Scales == {moneyScale, quantityScale}

LEMMA ScaleFacts ==
  ASSUME NEW scale \in Scales
  PROVE  /\ scale \in 1 .. MaxInt
         /\ scaleDigits(scale) \in Nat
         /\ scale = Pow10[scaleDigits(scale)]
BY MoneyAssumption, ScaleAssumption, ScaleDigitsType DEF Scales

(* mulI64 of an amount and a scale: the division finds every overflow. *)
LEMMA MulExact ==
  ASSUME NEW a \in 0 .. MaxInt, NEW b \in 1 .. MaxInt
  PROVE  mulI64(a, b) = IF a * b <= MaxInt THEN Value(a * b) ELSE Overflow
<1> DEFINE x == a * b
           p == Wrap(x)
<1>1. MaxInt \in Nat /\ x \in Nat
  BY Int64Facts
<1>2. CASE a = 0
  BY <1>1, <1>2 DEF mulI64
<1>3. CASE a # 0 /\ x <= MaxInt
  <2>1. p = x
    BY <1>1, <1>3, Int64Facts, WrapValue
  <2>2. x \div b = a
    BY <1>1
  <2>3. x > 0
    BY <1>3, <1>1
  <2>4. Quo(x, b) = a
    <3> HIDE DEF x
    <3> QED BY <1>1, <2>2, <2>3 DEF Quo, Sign, Abs
  <2> QED BY <1>3, <2>1, <2>4 DEF mulI64
<1>4. CASE a # 0 /\ x > MaxInt
  <2>1. p \in Int64 /\ p \in Int /\ p <= MaxInt
    BY <1>1, WrapType, Int64Facts
  <2>2. p >= 0 => p \div b < a
    <3> SUFFICES ASSUME p >= 0 PROVE p \div b < a
      OBVIOUS
    <3> HIDE DEF p
    <3> DEFINE q == p \div b
    <3>1. q \in Int /\ b * q <= p
      BY <2>1
    <3> HIDE DEF q
    <3>2. b * q = q * b /\ q * b \in Int
      BY <3>1
    <3>3. q * b < a * b
      BY <1>1, <1>4, <2>1, <3>1, <3>2
    <3>4. q < a
      BY <3>1, <3>3, ScaleOrder
    <3> QED BY <3>4 DEF q
  <2>3. Quo(p, b) # a
    <3> HIDE DEF p
    <3>1. CASE p > 0
      <4>1. Quo(p, b) = 1 * 1 * (p \div b)
        BY <2>1, <3>1 DEF Quo, Sign, Abs
      <4>2. p \div b \in Int
        BY <2>1
      <4> QED BY <2>1, <2>2, <3>1, <4>1, <4>2
    <3>2. CASE p = 0
      <4>1. Quo(p, b) = 0 * 1 * (0 \div b) /\ 0 \div b \in Int
        BY <3>2 DEF Quo, Sign, Abs
      <4> QED BY <1>4, <4>1
    <3>3. CASE p < 0
      <4> DEFINE q == (-p) \div b
      <4>1. Quo(p, b) = (-1) * 1 * q
        BY <2>1, <3>3 DEF Quo, Sign, Abs
      <4>2. q \in Nat
        BY <2>1, <3>3
      <4> HIDE DEF q
      <4> QED BY <1>4, <4>1, <4>2
    <3> QED BY <2>1, <3>1, <3>2, <3>3
  <2> QED BY <1>1, <1>4, <2>3 DEF mulI64
<1> QED BY <1>1, <1>2, <1>3, <1>4

LEMMA AddExact ==
  ASSUME NEW a \in 0 .. MaxInt, NEW b \in 0 .. MaxInt
  PROVE  addI64(a, b) = IF a + b <= MaxInt THEN Value(a + b) ELSE Overflow
<1>1. MaxInt \in Nat /\ a + b \in Nat
  BY Int64Facts
<1>2. CASE a + b <= MaxInt
  <2>1. Wrap(a + b) = a + b
    BY <1>1, <1>2, Int64Facts, WrapValue
  <2> QED BY <1>1, <1>2, <2>1 DEF addI64
<1>3. CASE a + b > MaxInt
  <2>1. Wrap(a + b) = a + b - 2 * (MaxInt + 1)
    BY <1>1, <1>3, WrapValue
  <2>2. a > 0 /\ b > 0 /\ Wrap(a + b) < 0
    BY <1>1, <1>3, <2>1
  <2> QED BY <1>1, <1>3, <2>2 DEF addI64
<1> QED BY <1>1, <1>2, <1>3

(* Whatever the text, the result of a parse is an int64. *)
LEMMA PartType == ASSUME NEW p PROVE PartValue(p).val \in Int64
<1>1. 0 \in Int64
  BY Int64Facts
<1> QED BY <1>1 DEF PartValue, ParseInt, Value, Overflow

LEMMA ScaledType ==
  ASSUME NEW a \in Int64, NEW b \in Int64, NEW scale \in Scales
  PROVE  Scaled(a, b, scale).val \in Int64
<1>1. a \in Int /\ b \in Int /\ scale \in Int /\ 0 \in Int64 /\ a * scale \in Int
  BY ScaleFacts, Int64Facts
<1> DEFINE p == mulI64(a, scale).val
<1>2. p \in Int64
  <2>1. Wrap(a * scale) \in Int64
    BY <1>1, WrapType
  <2> QED BY <1>1, <2>1 DEF mulI64, Value, Overflow
<1>3. Wrap(p + b) \in Int64
  <2> HIDE DEF p
  <2>1. p + b \in Int
    BY <1>1, <1>2, Int64Facts
  <2> QED BY <2>1, WrapType
<1>4. addI64(p, b).val \in Int64
  BY <1>1, <1>3 DEF addI64, Value, Overflow
<1> QED BY <1>1, <1>4 DEF Scaled, Overflow

LEMMA ParseType ==
  ASSUME NEW l, NEW scale \in Scales
  PROVE  parseFixed(l, scale).val \in Int64
<1> DEFINE whole == PartValue(l.int)
           frac  == PartValue(Padded(l.frac, scaleDigits(scale)))
           sum   == Scaled(whole.val, frac.val, scale)
           v     == IF l.sign = "-" THEN Wrap(-sum.val) ELSE sum.val
<1>1. whole.val \in Int64 /\ frac.val \in Int64
  BY PartType
<1>2. sum.val \in Int64
  <2> HIDE DEF whole, frac
  <2> QED BY <1>1, ScaledType
<1>3. v \in Int64 /\ 0 \in Int64
  <2> HIDE DEF sum
  <2>1. -sum.val \in Int
    BY <1>2, Int64Facts
  <2> QED BY <1>2, <2>1, WrapType, Int64Facts
<1>4. parseFixed(l, scale) = Overflow \/ parseFixed(l, scale) = Value(v)
  BY DEF parseFixed
<1> HIDE DEF v
<1> QED BY <1>3, <1>4 DEF Value, Overflow

(***************************************************************************)
(* The number of minor units a literal stands for, without its sign.       *)
(***************************************************************************)
Minor(l, n) ==
  Number(l.int.digits) * Pow10[n]
    + Number(l.frac.digits) * Pow10[n - Len(l.frac.digits)]

SignOf(l) == IF l.sign = "-" THEN -1 ELSE 1

LEMMA LiteralFields ==
  ASSUME NEW l \in Literals
  PROVE  /\ l.sign \in Signs /\ l.int \in Parts /\ l.frac \in Parts
         /\ l.int.digits \in Decimals /\ l.frac.digits \in Decimals
         /\ Len(l.frac.digits) \in Nat
BY DEF Literals, Parts, Decimals

(* The reference in these terms; with more digits it only has more zeros. *)
LEMMA MeaningMinor ==
  ASSUME NEW l \in Literals, NEW n \in Nat, Len(l.frac.digits) <= n
  PROVE  /\ Minor(l, n) \in Nat
         /\ Meaning(l, n) = SignOf(l) * Minor(l, n)
<1> DEFINE i == l.int.digits
           f == l.frac.digits
           k == n - Len(f)
<1>1. i \in Decimals /\ f \in Decimals /\ k \in Nat /\ Len(f) \in Nat
  BY LiteralFields
<1> HIDE DEF k, i, f
<1> DEFINE z == f \o Zeros(k)
<1>2. z \in Decimals /\ Len(z) = Len(f) + k /\ Number(z) = Number(f) * Pow10[k]
  BY <1>1, ZerosAppended
<1>3. Len(z) = n
  BY <1>1, <1>2 DEF k
<1>4. i \o f \o Zeros(k) = i \o z
  <2>1. Zeros(k) \in Decimals
    BY <1>1, ZerosFacts
  <2> QED BY <1>1, <2>1 DEF Decimals
<1> HIDE DEF z
<1>5. Number(i \o z) = Number(i) * Pow10[n] + Number(z)
  BY <1>1, <1>2, <1>3, NumberConcat
<1>6. Number(i \o f \o Zeros(k)) = Minor(l, n)
  BY <1>2, <1>4, <1>5 DEF Minor, i, f, k
<1>7. Number(i) \in Nat /\ Number(f) \in Nat /\ Pow10[n] \in Nat /\ Pow10[k] \in Nat
  BY <1>1, NumberType, Pow10Defined
<1>8. Minor(l, n) \in Nat
  <2>1. Minor(l, n) = Number(i) * Pow10[n] + Number(f) * Pow10[k]
    BY DEF Minor, i, f, k
  <2> QED BY <1>7, <2>1
<1> QED BY <1>6, <1>8 DEF Meaning, SignOf, i, f, k

LEMMA MinorScales ==
  ASSUME NEW l \in Literals, NEW n \in Nat, Len(l.frac.digits) <= n,
         NEW m \in Nat
  PROVE  Minor(l, n + m) = Minor(l, n) * Pow10[m]
<1> DEFINE i == Number(l.int.digits)
           f == Number(l.frac.digits)
           k == n - Len(l.frac.digits)
           p == Pow10[n]
           q == Pow10[k]
           r == Pow10[m]
<1>1. i \in Nat /\ f \in Nat /\ k \in Nat /\ (n + m) - Len(l.frac.digits) = k + m
  BY LiteralFields, NumberType
<1>2. p \in Nat /\ q \in Nat /\ r \in Nat
  BY <1>1, Pow10Defined
<1>3. Pow10[n + m] = p * r /\ Pow10[k + m] = q * r
  BY <1>1, Pow10Adds
<1>4. Minor(l, n + m) = i * (p * r) + f * (q * r) /\ Minor(l, n) = i * p + f * q
  BY <1>1, <1>3 DEF Minor
<1> HIDE DEF i, f, p, q, r
<1>5. i * (p * r) = (i * p) * r /\ f * (q * r) = (f * q) * r
  BY <1>1, <1>2
<1> DEFINE u == i * p
           w == f * q
<1>6. u \in Nat /\ w \in Nat
  BY <1>1, <1>2
<1>7. (u + w) * r = u * r + w * r
  <2> HIDE DEF u, w
  <2> QED BY <1>2, <1>6
<1> QED BY <1>4, <1>5, <1>7 DEF r

(* A part without a sign of its own is its number, if that fits. *)
LEMMA ParsePart ==
  ASSUME NEW p \in Parts, p.sign = "none"
  PROVE  PartValue(p) = IF Number(p.digits) <= MaxInt THEN Value(Number(p.digits))
                                                      ELSE Overflow
<1> DEFINE v == Number(p.digits)
<1>1. v \in Nat
  BY NumberType DEF Parts, Decimals
<1>2. v \in Int64 <=> v <= MaxInt
  BY <1>1, Int64Facts
<1>3. CASE p.digits = <<>>
  <2>1. p = NoText
    BY <1>3 DEF NoText, Parts
  <2>2. v = 0
    BY <1>3, NumberEmpty
  <2> QED BY <2>1, <2>2, Int64Facts DEF PartValue
<1>4. CASE p.digits # <<>>
  <2>1. p # NoText
    BY <1>4 DEF NoText
  <2>2. ParseInt(p) = IF v \in Int64 THEN Value(v) ELSE Overflow
    BY <1>4 DEF ParseInt
  <2> QED BY <1>2, <2>1, <2>2 DEF PartValue
<1> QED BY <1>3, <1>4

LEMMA ProductGrows ==
  ASSUME NEW a \in Nat, NEW b \in Nat, b >= 1
  PROVE  a * b \in Nat /\ a <= a * b
<1>1. a * b \in Nat /\ b * a = a * b /\ 1 * a = a
  OBVIOUS
<1>2. CASE a > 0
  <2>1. 1 * a <= b * a
    BY <1>2, ScaleOrder
  <2> QED BY <1>1, <2>1
<1>3. CASE a = 0
  BY <1>1, <1>3
<1> QED BY <1>1, <1>2, <1>3

(* whole * scale + frac overflows exactly when it does not fit. *)
LEMMA ScaledExact ==
  ASSUME NEW a \in 0 .. MaxInt, NEW b \in 0 .. MaxInt, NEW scale \in 1 .. MaxInt
  PROVE  Scaled(a, b, scale) = IF a * scale + b <= MaxInt THEN Value(a * scale + b)
                                                          ELSE Overflow
<1> DEFINE x == a * scale
           m == mulI64(a, scale)
<1>1. x \in Nat /\ MaxInt \in Nat
  BY Int64Facts
<1>2. m = IF x <= MaxInt THEN Value(x) ELSE Overflow
  BY MulExact
<1> HIDE DEF x, m
<1>3. Scaled(a, b, scale) = IF m.ok THEN addI64(m.val, b) ELSE Overflow
  BY DEF Scaled, m
<1>4. CASE x <= MaxInt
  <2>1. m.ok /\ m.val = x /\ x \in 0 .. MaxInt
    BY <1>1, <1>2, <1>4 DEF Value
  <2>2. addI64(x, b) = IF x + b <= MaxInt THEN Value(x + b) ELSE Overflow
    BY <2>1, AddExact
  <2> QED BY <1>3, <2>1, <2>2 DEF x
<1>5. CASE ~(x <= MaxInt)
  <2>1. ~m.ok /\ ~(x + b <= MaxInt)
    BY <1>1, <1>2, <1>5 DEF Overflow
  <2> QED BY <1>3, <2>1 DEF x
<1> QED BY <1>4, <1>5

(* The fraction is smaller than the scale and always fits. *)
LEMMA ParseFrac ==
  ASSUME NEW p \in Parts, p.sign = "none", NEW scale \in Scales,
         Len(p.digits) <= scaleDigits(scale)
  PROVE  LET n == scaleDigits(scale)
             F == Number(p.digits) * Pow10[n - Len(p.digits)]
         IN  F \in 0 .. MaxInt /\ PartValue(Padded(p, n)) = Value(F)
<1> DEFINE n == scaleDigits(scale)
           f == p.digits
           k == n - Len(f)
           F == Number(f) * Pow10[k]
           z == f \o Zeros(k)
           r == [sign |-> "none", digits |-> z]
<1>1. n \in Nat /\ scale = Pow10[n] /\ scale \in 1 .. MaxInt /\ MaxInt \in Nat
  BY ScaleFacts, Int64Facts
<1>2. f \in Decimals /\ Len(f) \in Nat
  BY DEF Parts, Decimals
<1>3. k \in Nat /\ Len(f) + k = n
  BY <1>1, <1>2
<1>4. Padded(p, n) = r
  <2>1. Length(p) = Len(f)
    BY <1>2 DEF Length
  <2>2. p = [sign |-> "none", digits |-> f]
    BY DEF Parts
  <2>3. Padded(p, n) = [p EXCEPT !.digits = f \o Zeros(k)]
    BY <2>1 DEF Padded
  <2> HIDE DEF f, k
  <2> QED BY <2>2, <2>3
<1> HIDE DEF n, k
<1>5. z \in Decimals /\ Len(z) = n /\ Number(z) = F
  BY <1>2, <1>3, ZerosAppended
<1>6. Number(z) \in Nat /\ Number(z) < Pow10[n]
  BY <1>5, NumberConcat, NumberType
<1>7. F \in 0 .. MaxInt
  <2> HIDE DEF z, F
  <2> QED BY <1>1, <1>5, <1>6
<1>8. r \in Parts /\ r.sign = "none" /\ r.digits = z
  BY <1>5 DEF Parts, Signs, Decimals
<1> HIDE DEF r, z, F
<1>9. PartValue(r) = Value(F)
  <2>1. Number(r.digits) <= MaxInt /\ Number(r.digits) = F
    BY <1>1, <1>5, <1>7, <1>8
  <2> QED BY <1>8, <2>1, ParsePart
<1> QED BY <1>4, <1>7, <1>9 DEF n, k, F

(* parseFixed refuses a well-formed literal exactly when it has too many   *)
(* digits after the point or does not fit, and is exact otherwise.         *)
LEMMA ParseExact ==
  ASSUME NEW l \in Literals, WellFormed(l), NEW scale \in Scales
  PROVE  LET n == scaleDigits(scale)
         IN  parseFixed(l, scale) =
               IF Len(l.frac.digits) <= n /\ Minor(l, n) <= MaxInt
               THEN Value(SignOf(l) * Minor(l, n))
               ELSE Overflow
<1> DEFINE n == scaleDigits(scale)
           len == Len(l.frac.digits)
           I == Number(l.int.digits)
           F == Number(l.frac.digits) * Pow10[n - len]
           M == Minor(l, n)
           whole == PartValue(l.int)
           frac  == PartValue(Padded(l.frac, n))
           sum   == Scaled(whole.val, frac.val, scale)
<1>1. l.int \in Parts /\ l.frac \in Parts /\ l.int.sign = "none" /\ l.frac.sign = "none"
  BY LiteralFields DEF WellFormed
<1>2. I \in Nat /\ len \in Nat
  BY LiteralFields, NumberType
<1>3. n \in Nat /\ scale = Pow10[n] /\ scale \in 1 .. MaxInt /\ MaxInt \in Nat
  BY ScaleFacts, Int64Facts
<1>4. parseFixed(l, scale) =
        IF len > n \/ ~whole.ok \/ ~frac.ok \/ ~sum.ok THEN Overflow
        ELSE Value(IF l.sign = "-" THEN Wrap(-sum.val) ELSE sum.val)
  <2>1. ~(l.int = NoText /\ l.frac = NoText)
    BY DEF WellFormed, NoText
  <2>2. Length(l.frac) = len
    BY <1>1, <1>2 DEF Length
  <2> QED BY <2>1, <2>2 DEF parseFixed
<1>5. whole = IF I <= MaxInt THEN Value(I) ELSE Overflow
  BY <1>1, ParsePart
<1>6. len <= n => F \in 0 .. MaxInt /\ frac = Value(F)
  BY <1>1, ParseFrac
<1>7. M = I * scale + F
  BY <1>3 DEF Minor
<1>8. I * scale \in Nat /\ I <= I * scale
  BY <1>2, <1>3, ProductGrows
<1>9. \A v : Value(v).ok /\ Value(v).val = v /\ ~Overflow.ok
  BY DEF Value, Overflow
<1>10. I <= MaxInt /\ len <= n => sum = IF M <= MaxInt THEN Value(M) ELSE Overflow
  <2> SUFFICES ASSUME I <= MaxInt, len <= n
               PROVE  sum = IF M <= MaxInt THEN Value(M) ELSE Overflow
    OBVIOUS
  <2> HIDE DEF I, F, len, n, whole, frac, M
  <2>1. whole.val = I /\ frac.val = F
    BY <1>5, <1>6, <1>9
  <2>2. I \in 0 .. MaxInt /\ F \in 0 .. MaxInt
    BY <1>2, <1>3, <1>6
  <2> QED BY <1>3, <1>7, <2>1, <2>2, ScaledExact
<1> DEFINE X == I * scale
<1> HIDE DEF I, F, len, n, whole, frac, M, sum, X
<1>11. M = X + F /\ X \in Nat /\ I <= X
  BY <1>7, <1>8 DEF X
<1>12. CASE len <= n /\ M <= MaxInt
  <2>1. F \in 0 .. MaxInt /\ frac.ok
    BY <1>6, <1>9, <1>12
  <2>2. I <= MaxInt /\ M \in 0 .. MaxInt
    BY <1>2, <1>3, <1>11, <1>12, <2>1
  <2>3. whole.ok
    BY <1>5, <1>9, <2>2
  <2>4. sum.ok /\ sum.val = M
    BY <1>9, <1>10, <1>12, <2>2
  <2>5. Wrap(-M) = -M
    <3>1. -M \in Int64 /\ -M \in Int
      BY <2>2, Int64Facts
    <3> QED BY <3>1, WrapValue
  <2>6. (IF l.sign = "-" THEN Wrap(-sum.val) ELSE sum.val) = SignOf(l) * M
    BY <2>2, <2>4, <2>5 DEF SignOf
  <2>7. ~(len > n)
    BY <1>2, <1>3, <1>12
  <2>8. parseFixed(l, scale) = Value(SignOf(l) * M)
    BY <1>4, <2>1, <2>3, <2>4, <2>6, <2>7
  <2> QED BY <1>12, <2>8 DEF len, n, M
<1>13. CASE ~(len <= n /\ M <= MaxInt)
  <2>1. CASE len > n
    BY <1>4, <1>13, <2>1 DEF len, n, M
  <2>2. CASE len <= n /\ I > MaxInt
    <3>1. ~whole.ok
      BY <1>2, <1>3, <1>5, <1>9, <2>2
    <3> QED BY <1>4, <1>13, <3>1 DEF len, n, M
  <2>3. CASE len <= n /\ I <= MaxInt
    <3>1. ~sum.ok
      BY <1>9, <1>10, <1>13, <2>3
    <3> QED BY <1>4, <1>13, <3>1 DEF len, n, M
  <2> QED BY <1>2, <1>3, <2>1, <2>2, <2>3
<1> QED BY <1>12, <1>13

(* formatFixed of an amount: a literal with all its fractional digits that *)
(* stands for that amount.                                                 *)
LEMMA FormatExact ==
  ASSUME NEW v \in 0 .. MaxInt, NEW scale \in Scales
  PROVE  LET n == scaleDigits(scale)
             l == formatFixed(v, scale)
         IN  /\ l \in Literals /\ l.sign = "none"
             /\ Len(l.frac.digits) = n
             /\ Minor(l, n) = v
<1> DEFINE n == scaleDigits(scale)
           q == v \div scale
           r == v % scale
           l == formatFixed(v, scale)
           d == Digits[r]
           k == n - Len(d)
<1>1. n \in Nat /\ scale = Pow10[n] /\ scale \in 1 .. MaxInt /\ MaxInt \in Nat
  BY ScaleFacts, Int64Facts
<1>2. q \in Nat /\ r \in Nat /\ r < scale /\ v = q * scale + r
  BY <1>1
<1>3. Quo(v, scale) = q
  <2>1. CASE v > 0
    BY <1>1, <1>2, <2>1 DEF Quo, Sign, Abs
  <2>2. CASE v = 0
    <3>1. q = 0
      BY <1>1, <2>2
    <3> QED BY <1>1, <2>2, <3>1 DEF Quo, Sign, Abs
  <2> QED BY <2>1, <2>2
<1> HIDE DEF q, r, n
<1>4. v - q * scale = r
  BY <1>1, <1>2
<1>5. FormatInt(q) = Plain(Digits[q]) /\ FormatInt(r) = Plain(d)
  <2>1. ~(q < 0) /\ ~(r < 0) /\ Abs(q) = q /\ Abs(r) = r
    BY <1>2 DEF Abs
  <2> QED BY <2>1 DEF FormatInt, Plain
<1>6. /\ l.sign = "none" /\ l.int = Plain(Digits[q])
      /\ l.frac = IF n = 0 THEN NoText
                  ELSE [Plain(d) EXCEPT !.digits = Zeros(n - Length(Plain(d))) \o @]
  <2>1. ~(v < 0)
    BY <1>1
  <2> QED BY <1>3, <1>4, <1>5, <2>1 DEF formatFixed, n
<1>7. Digits[q] \in Decimals /\ d \in Decimals /\ Number(Digits[q]) = q /\ Number(d) = r
  BY <1>2, DigitsDefined, DigitsNumber
<1>8. l.frac \in Parts /\ Len(l.frac.digits) = n /\ Number(l.frac.digits) = r
  <2>1. CASE n = 0
    <3>1. l.frac = [sign |-> "none", digits |-> <<>>]
      BY <1>6, <2>1 DEF NoText
    <3>2. r = 0
      BY <1>1, <1>2, <2>1, Pow10Defined
    <3> QED BY <2>1, <3>1, <3>2, NumberEmpty DEF Parts, Signs
  <2>2. CASE n # 0
    <3>1. Len(d) <= n /\ Len(d) \in Nat
      BY <1>1, <1>2, <1>7, <2>2, DigitsLength DEF Decimals
    <3> HIDE DEF d
    <3>2. k \in Nat /\ Length(Plain(d)) = Len(d)
      BY <1>1, <3>1 DEF Length, Plain
    <3>3. l.frac = [sign |-> "none", digits |-> Zeros(k) \o d]
      BY <1>6, <2>2, <3>2 DEF Plain
    <3>4. /\ Zeros(k) \o d \in Decimals /\ Len(Zeros(k) \o d) = k + Len(d)
          /\ Number(Zeros(k) \o d) = r
      <4> HIDE DEF k
      <4> QED BY <1>7, <3>2, ZerosPrefixed
    <3>5. k + Len(d) = n
      BY <1>1, <3>1
    <3> QED BY <3>3, <3>4, <3>5 DEF Parts, Signs, Decimals
  <2> QED BY <2>1, <2>2
<1>9. l \in Literals
  <2>1. Plain(Digits[q]) \in Parts
    BY <1>7 DEF Plain, Parts, Signs, Decimals
  <2>2. l = [sign |-> l.sign, int |-> l.int, frac |-> l.frac]
    BY DEF formatFixed
  <2> HIDE DEF l
  <2> QED BY <1>6, <1>8, <2>1, <2>2 DEF Literals, Signs
<1>10. Minor(l, n) = v
  <2>1. l.int.digits = Digits[q]
    BY <1>6 DEF Plain
  <2> HIDE DEF l, d
  <2>2. Minor(l, n) = q * Pow10[n] + r * Pow10[n - n]
    BY <1>7, <1>8, <2>1 DEF Minor
  <2>3. Pow10[n - n] = 1
    BY <1>1, Pow10Defined
  <2> QED BY <1>1, <1>2, <2>2, <2>3
<1> QED BY <1>6, <1>8, <1>9, <1>10 DEF n

(***************************************************************************)
(* The invariant.                                                          *)
(***************************************************************************)
(* What parsing makes of the two texts of a submission. *)
Terms(x) == TermsOf(ParseMoney(x.price).val, ParseQuantity(x.quantity).val)

Accepted(x) ==
  ParseMoney(x.price).ok /\ ParseQuantity(x.quantity).ok /\ ValidTerms(Terms(x))

Stored == [createdAt : Times, snap : OrderSnapshots(Ids, TermRecords)]

(* s is order id in one of its states, with the terms of its texts. *)
StateOf(id, s) ==
  /\ s \in Stored
  /\ s.snap.id = id
  /\ FillsMatchStatus(s.snap)
  /\ written[id] # Nil
  /\ Accepted(written[id])
  /\ s.snap.terms = Terms(written[id])

(* Two states of one order, the first no later. *)
Before(s, t) == s.createdAt = t.createdAt /\ s.snap.version <= t.snap.version

StoreInv ==
  /\ written \in [Ids -> Texts \union {Nil}]
  /\ built \in [Ids -> Stored \union {Nil}]
  /\ orders \in [Ids -> Stored \union {Nil}]
  /\ refused \subseteq Ids
  /\ \A id \in Ids :
       /\ built[id] # Nil => StateOf(id, built[id])
       /\ orders[id] # Nil => StateOf(id, orders[id])
       /\ written[id] = Nil => id \notin refused
       /\ written[id] # Nil => (id \in refused <=> ~Accepted(written[id]))

Collected(s) ==
  LET id == s.snap.id
  IN  /\ id \in Ids /\ shardFor(id) < shard
      /\ StateOf(id, s)
      /\ orders[id] # Nil /\ Before(s, orders[id])
      /\ atStart[id] # Nil => Before(atStart[id], s)

ScanInv ==
  /\ atStart \in [Ids -> Stored \union {Nil}]
  /\ shard \in Nat /\ limit \in Int
  /\ \A id \in Ids : atStart[id] # Nil => orders[id] # Nil /\ Before(atStart[id], orders[id])
  /\ \A s \in snaps : Collected(s)
  /\ \A s, t \in snaps : s.snap.id = t.snap.id => s = t
  /\ \A id \in Ids : atStart[id] # Nil /\ shardFor(id) < shard =>
                       \E s \in snaps : s.snap.id = id

PageInv ==
  IF query = "done"
  THEN /\ ~ShardLeft
       /\ \E rows \in SetToSeqs(snaps) :
            /\ Sorted(rows)
            /\ page = [i \in DOMAIN Cut(rows) |-> viewFromOrder(Cut(rows)[i])]
  ELSE page = <<>>

IInv == StoreInv /\ ScanInv /\ PageInv

(***************************************************************************)
(* What texts and terms have to do with each other.                        *)
(***************************************************************************)
(* A client reads back the amount it wrote. *)
LEMMA RoundTrip ==
  ASSUME NEW l \in Literals, WellFormed(l), NEW scale \in Scales,
         parseFixed(l, scale).ok, parseFixed(l, scale).val > 0
  PROVE  SameNumber(formatFixed(parseFixed(l, scale).val, scale), l)
<1> DEFINE n == scaleDigits(scale)
           m == Precision - n
           v == parseFixed(l, scale).val
           F == formatFixed(v, scale)
           M == Minor(l, n)
<1>1. n \in Nat /\ MaxInt \in Nat
  BY ScaleFacts, Int64Facts
<1>2. m \in Nat /\ Precision = n + m /\ Precision \in Nat
  <2>1. moneyScale \in Scales /\ quantityScale \in Scales
    BY DEF Scales
  <2>2. scaleDigits(moneyScale) \in Nat /\ scaleDigits(quantityScale) \in Nat
    BY <2>1, ScaleFacts
  <2> QED BY <2>2 DEF Precision, Scales
<1>3. Len(l.frac.digits) <= n /\ M <= MaxInt /\ v = SignOf(l) * M
  BY ParseExact DEF Value, Overflow
<1>4. M \in Nat
  BY <1>1, <1>3, MeaningMinor
<1>5. v = M /\ SignOf(l) = 1 /\ v \in 0 .. MaxInt
  <2> HIDE DEF v, M
  <2> QED BY <1>1, <1>3, <1>4 DEF SignOf, v
<1>6. F \in Literals /\ F.sign = "none" /\ Len(F.frac.digits) = n /\ Minor(F, n) = v
  <2> HIDE DEF v
  <2> QED BY <1>5, FormatExact
<1>7. SignOf(F) = 1
  BY <1>6 DEF SignOf
<1> HIDE DEF n, m, v, F, M
<1>8. Minor(F, n + m) = v * Pow10[m]
  BY <1>1, <1>2, <1>6, MinorScales
<1>9. Minor(l, n + m) = M * Pow10[m]
  BY <1>1, <1>2, <1>3, MinorScales DEF M
<1>10. Len(F.frac.digits) <= n + m /\ Len(l.frac.digits) <= n + m
  <2>1. Len(l.frac.digits) \in Nat
    BY LiteralFields
  <2> QED BY <1>1, <1>2, <1>3, <1>6, <2>1
<1>11. Meaning(F, n + m) = 1 * Minor(F, n + m) /\ Meaning(l, n + m) = 1 * Minor(l, n + m)
  BY <1>2, <1>5, <1>6, <1>7, <1>10, MeaningMinor
<1> QED BY <1>2, <1>5, <1>8, <1>9, <1>11 DEF SameNumber, F, v

(* A positive amount is what parses, and nothing that has one is refused. *)
LEMMA ParsesPositive ==
  ASSUME NEW l \in Literals, WellFormed(l), NEW scale \in Scales
  PROVE  parseFixed(l, scale).ok /\ parseFixed(l, scale).val > 0
           <=> Representable(l, scale)
<1> DEFINE n == scaleDigits(scale)
           len == Len(l.frac.digits)
           M == Minor(l, n)
           r == parseFixed(l, scale)
<1>1. n \in Nat /\ MaxInt \in Nat /\ len \in Nat
  BY ScaleFacts, Int64Facts, LiteralFields
<1>2. r = IF len <= n /\ M <= MaxInt THEN Value(SignOf(l) * M) ELSE Overflow
  BY ParseExact
<1>3. len <= n => M \in Nat /\ Meaning(l, n) = SignOf(l) * M
  BY <1>1, MeaningMinor
<1>4. Representable(l, scale) <=> len <= n /\ Meaning(l, n) \in 1 .. MaxInt
  BY DEF Representable
<1> HIDE DEF n, len, M, r
<1>5. SignOf(l) = 1 \/ SignOf(l) = -1
  BY DEF SignOf
<1>6. CASE len <= n /\ M <= MaxInt
  <2>1. r.ok /\ r.val = SignOf(l) * M
    BY <1>2, <1>6 DEF Value
  <2> QED BY <1>1, <1>3, <1>4, <1>5, <1>6, <2>1 DEF r
<1>7. CASE ~(len <= n /\ M <= MaxInt)
  <2>1. ~r.ok
    BY <1>2, <1>7 DEF Overflow
  <2>2. ~(len <= n /\ Meaning(l, n) \in 1 .. MaxInt)
    BY <1>1, <1>3, <1>5, <1>7
  <2> QED BY <1>4, <2>1, <2>2 DEF r
<1> QED BY <1>6, <1>7

(* The terms that build hands to NewOrder. *)
LEMMA TermsFacts ==
  ASSUME NEW x
  PROVE  /\ Terms(x) \in TermRecords
         /\ Terms(x).limitPrice = ParseMoney(x.price).val
         /\ Terms(x).quantity = ParseQuantity(x.quantity).val
<1> DEFINE p == ParseMoney(x.price).val
           q == ParseQuantity(x.quantity).val
<1>1. p \in Int64 /\ q \in Int64
  <2>1. moneyScale \in Scales /\ quantityScale \in Scales
    BY DEF Scales
  <2> QED BY <2>1, ParseType DEF ParseMoney, ParseQuantity
<1> HIDE DEF p, q
<1>2. TermsOf(p, q) \in TermRecords
  BY <1>1, QueriesAssumption DEF TermsOf, TermRecords
<1>3. TermsOf(p, q).limitPrice = p /\ TermsOf(p, q).quantity = q
  BY QueriesAssumption DEF TermsOf, TermRecords
<1> QED BY <1>2, <1>3 DEF Terms, p, q

LEMMA AcceptedTerms ==
  ASSUME NEW x
  PROVE  Accepted(x) <=> /\ ParseMoney(x.price).ok /\ ParseMoney(x.price).val > 0
                         /\ ParseQuantity(x.quantity).ok /\ ParseQuantity(x.quantity).val > 0
<1> DEFINE t == Terms(x)
           u == TermsOf(1, 1)
<1>1. /\ t.account = u.account /\ t.symbol = u.symbol /\ t.side = u.side
      /\ t.orderType = "LIMIT" /\ t.tif = u.tif
  BY QueriesAssumption DEF Terms, TermsOf, TermRecords
<1>2. ValidTerms(u)
  BY QueriesAssumption
<1>3. "LIMIT" # "MARKET"
  OBVIOUS
<1> HIDE DEF t, u
<1>4. ValidTerms(t) <=> t.quantity > 0 /\ t.limitPrice > 0
  <2>1. /\ t.account # "" /\ t.symbol # "" /\ t.side \in {"BUY", "SELL"}
        /\ t.tif \in {"DAY", "GTC", "IOC", "FOK"}
    BY <1>1, <1>2, Zenon DEF ValidTerms
  <2> QED BY <1>1, <1>3, <2>1, Zenon DEF ValidTerms
<1>5. t.limitPrice = ParseMoney(x.price).val /\ t.quantity = ParseQuantity(x.quantity).val
  BY TermsFacts DEF t
<1> QED BY <1>4, <1>5 DEF Accepted, t

(***************************************************************************)
(* The steps of the writers.                                               *)
(***************************************************************************)
(* nextPow2 leaves at least one shard, and every id has its own. *)
LEMMA ShardFacts ==
  /\ NumShards \in Nat \ {0}
  /\ \A id \in Ids : shardFor(id) \in Nat /\ shardFor(id) < NumShards
<1> DEFINE P == {2 ^ k : k \in 0 .. 16}
           S == {n \in P : n >= RequestedShards}
           Least(n) == n >= RequestedShards /\ \A m \in P : m >= RequestedShards => n <= m
<1>1. P \subseteq Nat \ {0} /\ 2 ^ 16 \in P
  <2>1. ASSUME NEW k \in 0 .. 16 PROVE 2 ^ k \in Nat \ {0}
    <3>1. k \in Nat
      OBVIOUS
    <3> QED BY <3>1, PowerOfTwo
  <2>2. 16 \in 0 .. 16
    OBVIOUS
  <2> QED BY <2>1, <2>2
<1> HIDE DEF P
<1>2. 2 ^ 16 \in Int /\ 2 ^ 16 >= RequestedShards
  BY <1>1, QueriesAssumption
<1>3. S # {} /\ S \subseteq Nat
  BY <1>1, <1>2
<1>4. \E n \in P : Least(n)
  <2>1. PICK n \in S : \A m \in S : n <= m
    <3> HIDE DEF S
    <3> QED BY <1>3, LeastMember
  <2> QED BY <2>1
<1>5. NumShards = CHOOSE n \in P : Least(n)
  BY Zenon DEF NumShards, P
<1>6. NumShards \in P
  <2> HIDE DEF Least
  <2> QED BY <1>4, <1>5, Zenon
<1>7. NumShards \in Nat \ {0}
  BY <1>1, <1>6
<1>8. ASSUME NEW id \in Ids PROVE shardFor(id) \in Nat /\ shardFor(id) < NumShards
  <2>1. Hash[id] \in Nat
    BY QueriesAssumption
  <2> QED BY <1>7, <2>1 DEF shardFor
<1> QED BY <1>7, <1>8

LEMMA NilFacts == Nil \notin Stored /\ Nil \notin Texts
BY QueriesAssumption DEF Stored

LEMMA StoredFields ==
  ASSUME NEW s \in Stored
  PROVE  /\ s.createdAt \in Int /\ s.snap \in OrderSnapshots(Ids, TermRecords)
         /\ s.snap.id \in Ids /\ s.snap.version \in Nat
         /\ s.snap.terms \in TermRecords
BY QueriesAssumption DEF Stored, OrderSnapshots

LEMMA BeforeOrder ==
  ASSUME NEW s \in Stored, NEW t \in Stored, NEW u \in Stored
  PROVE  Before(s, s) /\ (Before(s, t) /\ Before(t, u) => Before(s, u))
BY StoredFields DEF Before

(* What build hands to Save. *)
LEMMA NewState ==
  ASSUME NEW id \in Ids, NEW x, Accepted(x), NEW t \in Times
  PROVE  LET s == [createdAt |-> t, snap |-> Snapshot(Accept(NewOrder(id, Terms(x))))]
         IN  /\ s \in Stored /\ s.snap.id = id /\ s.snap.terms = Terms(x)
             /\ FillsMatchStatus(s.snap)
<1> DEFINE o == NewOrder(id, Terms(x))
           p == Accept(o)
           e == Snapshot(p)
<1>1. Terms(x) \in TermRecords /\ ValidTerms(Terms(x))
  BY TermsFacts DEF Accepted
<1>2. o \in OrderRecords(Ids, TermRecords) /\ o.id = id /\ o.terms = Terms(x) /\ o.status = "NEW"
      /\ FillsMatchStatus(o)
  BY <1>1, NewOrderFacts
<1> HIDE DEF o
<1>3. /\ p \in OrderRecords(Ids, TermRecords) /\ p.id = id /\ p.terms = Terms(x)
      /\ p.filledQty = o.filledQty /\ p.status = "ACCEPTED"
  <2>1. canTransitionTo(o.status, "ACCEPTED") /\ "ACCEPTED" \in Statuses
        /\ "OrderAccepted" \in PlainEventNames
    BY <1>2 DEF canTransitionTo, legalTransitions, Statuses, PlainEventNames
  <2> QED BY <1>2, <2>1, StatusMethod DEF Accept
<1> HIDE DEF p
<1>4. FillsMatchStatus(p)
  <2>1. o.filledQty = 0 /\ o.filledQty # o.terms.quantity /\ 0 \in 0 .. o.terms.quantity
    BY <1>2 DEF FillsMatchStatus
  <2> QED BY <1>2, <1>3, <2>1 DEF FillsMatchStatus
<1>5. e \in OrderSnapshots(Ids, TermRecords) /\ e.id = id /\ FillsMatchStatus(e)
  BY <1>3, <1>4, SnapshotFacts
<1>6. e.terms = Terms(x)
  BY <1>3 DEF Snapshot
<1> HIDE DEF e
<1>7. [createdAt |-> t, snap |-> e] \in Stored
  BY <1>5 DEF Stored
<1> QED BY <1>5, <1>6, <1>7 DEF e, p, o

(* What a fill leaves in the store: a later state of the same order. *)
LEMMA FilledState ==
  ASSUME NEW s \in Stored, FillsMatchStatus(s.snap), NEW q \in Int64,
         CanFill(RehydrateOrder(s.snap), q, RehydrateOrder(s.snap).terms.limitPrice)
  PROVE  LET o == RehydrateOrder(s.snap)
             e == Snapshot(Fill(o, q, o.terms.limitPrice))
             t == [s EXCEPT !.snap = e]
         IN  /\ t \in Stored /\ t.snap.id = s.snap.id /\ t.snap.terms = s.snap.terms
             /\ FillsMatchStatus(t.snap) /\ Before(s, t)
<1> DEFINE o == RehydrateOrder(s.snap)
           px == o.terms.limitPrice
           p == Fill(o, q, px)
           e == Snapshot(p)
           t == [s EXCEPT !.snap = e]
<1>1. s.snap \in OrderSnapshots(Ids, TermRecords) /\ s.snap.version \in Nat
  BY StoredFields
<1>2. /\ o \in OrderRecords(Ids, TermRecords) /\ o.id = s.snap.id
      /\ o.version = s.snap.version /\ FillsMatchStatus(o)
  BY <1>1, RehydrateFacts
<1>3. o.terms = s.snap.terms
  BY DEF RehydrateOrder
<1>4. px \in Int64 /\ o.terms \in TermRecords /\ o.terms.quantity \in Int64 /\ o.status \in Statuses
  BY <1>2 DEF OrderRecords, TermRecords
<1> HIDE DEF o, px
<1>5. CanFill(o, q, px)
  BY DEF o, px
<1>6. /\ p \in OrderRecords(Ids, TermRecords) /\ p.id = o.id /\ p.terms = o.terms
      /\ p.filledQty \in 1 .. o.terms.quantity
      /\ p.status = IF p.filledQty = o.terms.quantity THEN "FILLED" ELSE "PARTIALLY_FILLED"
      /\ p.version = o.version + 1
  BY <1>2, <1>4, <1>5, FillMethod
<1> HIDE DEF p
<1>7. FillsMatchStatus(p)
  <2>1. o.terms.quantity \in Int
    BY <1>4, Int64Facts
  <2> QED BY <1>6, <2>1 DEF FillsMatchStatus
<1>8. /\ e \in OrderSnapshots(Ids, TermRecords) /\ e.id = p.id /\ e.version = p.version
      /\ FillsMatchStatus(e)
  BY <1>6, <1>7, SnapshotFacts
<1>9. e.terms = p.terms
  BY DEF Snapshot
<1> HIDE DEF e
<1>10. t \in Stored /\ t.snap = e /\ t.createdAt = s.createdAt
  BY <1>8 DEF Stored
<1> HIDE DEF t
<1>11. Before(s, t)
  BY <1>1, <1>2, <1>6, <1>8, <1>10 DEF Before
<1> QED BY <1>2, <1>3, <1>6, <1>8, <1>9, <1>10, <1>11 DEF t, e, p, px, o

(* What every step of a writer leaves alone: texts once written, and the   *)
(* orders in the store, which only move on.                                *)
MovesOn ==
  \A id \in Ids :
    /\ written[id] # Nil => written'[id] = written[id]
    /\ orders[id] # Nil => orders'[id] # Nil /\ Before(orders[id], orders'[id])

LEMMA StateKept ==
  ASSUME MovesOn, NEW id \in Ids
  PROVE  \A s : StateOf(id, s) => StateOf(id, s)'
BY DEF MovesOn, StateOf

(* What the reader has collected stays between the beginning and now. *)
LEMMA ReaderKept ==
  ASSUME StoreInv, StoreInv', ScanInv, PageInv, MovesOn, UNCHANGED reader
  PROVE  ScanInv' /\ PageInv'
<1>1. /\ query' = query /\ limit' = limit /\ shard' = shard /\ snaps' = snaps
      /\ page' = page /\ atStart' = atStart
  BY DEF reader
<1>2. PageInv'
  BY <1>1 DEF PageInv, ShardLeft, Cut
<1>3. ASSUME NEW id \in Ids, orders[id] # Nil
      PROVE  /\ orders[id] \in Stored /\ orders'[id] \in Stored
             /\ orders'[id] # Nil /\ Before(orders[id], orders'[id])
  BY <1>3 DEF StoreInv, MovesOn
<1>4. ASSUME NEW id \in Ids, atStart[id] # Nil
      PROVE  orders'[id] # Nil /\ Before(atStart[id], orders'[id])
  <2>1. atStart[id] \in Stored /\ orders[id] # Nil /\ Before(atStart[id], orders[id])
    BY <1>4 DEF ScanInv
  <2> QED BY <1>3, <2>1, BeforeOrder
<1>5. ASSUME NEW s \in snaps PROVE Collected(s)'
  <2> DEFINE id == s.snap.id
  <2>1. /\ id \in Ids /\ shardFor(id) < shard /\ StateOf(id, s)
        /\ orders[id] # Nil /\ Before(s, orders[id])
        /\ atStart[id] # Nil => Before(atStart[id], s)
    BY DEF ScanInv, Collected
  <2>2. StateOf(id, s)'
    BY <2>1, StateKept
  <2>3. s \in Stored
    BY <2>1 DEF StateOf
  <2>4. orders'[id] # Nil /\ Before(s, orders'[id])
    BY <1>3, <2>1, <2>3, BeforeOrder
  <2> QED BY <1>1, <2>1, <2>2, <2>4 DEF Collected
<1>6. ScanInv'
  BY <1>1, <1>4, <1>5 DEF ScanInv
<1> QED BY <1>2, <1>6

LEMMA InitInv == Init => IInv
<1> SUFFICES ASSUME Init PROVE IInv
  OBVIOUS
<1>1. /\ \A id \in Ids : orders[id] = Nil /\ written[id] = Nil /\ built[id] = Nil /\ atStart[id] = Nil
      /\ orders \in [Ids -> Stored \union {Nil}] /\ written \in [Ids -> Texts \union {Nil}]
      /\ built \in [Ids -> Stored \union {Nil}] /\ atStart \in [Ids -> Stored \union {Nil}]
  BY DEF Init
<1>2. StoreInv
  BY <1>1 DEF Init, StoreInv
<1>3. ScanInv
  BY <1>1 DEF Init, ScanInv
<1>4. PageInv
  BY DEF Init, PageInv
<1> QED BY <1>2, <1>3, <1>4 DEF IInv

LEMMA BuildInv == ASSUME IInv, NEW id \in Ids, Build(id) PROVE IInv'
<1> DEFINE S == Stored \union {Nil}
<1>1. PICK x \in Submissions[id], t \in Times :
        /\ written' = [written EXCEPT ![id] = x]
        /\ IF Accepted(x)
           THEN /\ built' = [built EXCEPT ![id] =
                      [createdAt |-> t, snap |-> Snapshot(Accept(NewOrder(id, Terms(x))))]]
                /\ UNCHANGED refused
           ELSE refused' = refused \union {id} /\ UNCHANGED built
  BY DEF Build, Accepted, Terms
<1>2. written[id] = Nil /\ orders' = orders /\ UNCHANGED reader
  BY DEF Build
<1>3. x \in Texts /\ x # Nil
  BY NilFacts DEF Texts
<1>4. /\ written \in [Ids -> Texts \union {Nil}] /\ built \in [Ids -> S] /\ orders \in [Ids -> S]
      /\ refused \subseteq Ids /\ id \notin refused
      /\ ~StateOf(id, built[id]) /\ ~StateOf(id, orders[id])
      /\ built[id] = Nil /\ orders[id] = Nil
  BY <1>2 DEF IInv, StoreInv, StateOf
<1>5. /\ written'[id] = x
      /\ \A i \in Ids : i # id => written'[i] = written[i]
      /\ written' \in [Ids -> Texts \union {Nil}]
  BY <1>1, <1>3, <1>4
<1>6. MovesOn
  <2>1. ASSUME NEW i \in Ids, orders[i] # Nil PROVE Before(orders[i], orders[i])
    BY <1>4, <2>1, BeforeOrder
  <2> QED BY <1>2, <1>5, <2>1 DEF MovesOn
<1>7. ASSUME NEW i \in Ids, i # id
      PROVE  /\ built[i] # Nil => StateOf(i, built[i])'
             /\ orders[i] # Nil => StateOf(i, orders[i])'
  <2>1. /\ built[i] # Nil => StateOf(i, built[i])
        /\ orders[i] # Nil => StateOf(i, orders[i])
    BY DEF IInv, StoreInv
  <2>2. written'[i] = written[i] /\ orders'[i] = orders[i] /\ built'[i] = built[i]
    BY <1>1, <1>2, <1>4, <1>5, <1>7
  <2> QED BY <2>1, <2>2 DEF StateOf
<1>8. CASE Accepted(x)
  <2> DEFINE s == [createdAt |-> t, snap |-> Snapshot(Accept(NewOrder(id, Terms(x))))]
  <2>1. s \in Stored /\ s.snap.id = id /\ s.snap.terms = Terms(x) /\ FillsMatchStatus(s.snap)
    BY <1>8, NewState
  <2>2. built' = [built EXCEPT ![id] = s] /\ refused' = refused
    BY <1>1, <1>8
  <2> HIDE DEF s
  <2>3. built'[id] = s /\ built' \in [Ids -> S] /\ \A i \in Ids : i # id => built'[i] = built[i]
    BY <1>4, <2>1, <2>2
  <2>4. StateOf(id, built[id])'
    BY <1>3, <1>5, <1>8, <2>1, <2>3 DEF StateOf
  <2>5. ASSUME NEW i \in Ids
        PROVE  /\ built'[i] # Nil => StateOf(i, built[i])'
               /\ orders'[i] # Nil => StateOf(i, orders[i])'
               /\ written'[i] = Nil => i \notin refused'
               /\ written'[i] # Nil => (i \in refused' <=> ~Accepted(written'[i]))
    <3>1. CASE i = id
      BY <1>2, <1>3, <1>4, <1>5, <1>8, <2>2, <2>4, <3>1
    <3>2. CASE i # id
      <4>1. /\ written[i] = Nil => i \notin refused
            /\ written[i] # Nil => (i \in refused <=> ~Accepted(written[i]))
        BY DEF IInv, StoreInv
      <4> QED BY <1>2, <1>5, <1>7, <2>2, <2>3, <3>2, <4>1
    <3> QED BY <3>1, <3>2
  <2> QED BY <1>2, <1>4, <1>5, <1>6, <2>2, <2>3, <2>5, ReaderKept DEF IInv, StoreInv
<1>9. CASE ~Accepted(x)
  <2>1. built' = built /\ refused' = refused \union {id}
    BY <1>1, <1>9
  <2>2. ASSUME NEW i \in Ids
        PROVE  /\ built'[i] # Nil => StateOf(i, built[i])'
               /\ orders'[i] # Nil => StateOf(i, orders[i])'
               /\ written'[i] = Nil => i \notin refused'
               /\ written'[i] # Nil => (i \in refused' <=> ~Accepted(written'[i]))
    <3>1. CASE i = id
      BY <1>2, <1>3, <1>4, <1>5, <1>9, <2>1, <3>1
    <3>2. CASE i # id
      <4>1. /\ written[i] = Nil => i \notin refused
            /\ written[i] # Nil => (i \in refused <=> ~Accepted(written[i]))
        BY DEF IInv, StoreInv
      <4> QED BY <1>2, <1>5, <1>7, <2>1, <3>2, <4>1
    <3> QED BY <3>1, <3>2
  <2> QED BY <1>2, <1>4, <1>5, <1>6, <2>1, <2>2, ReaderKept DEF IInv, StoreInv
<1> QED BY <1>8, <1>9

(* Save and Update put a state of the order in the place of an earlier     *)
(* state or of none.                                                       *)
LEMMA StoreInvKept ==
  ASSUME IInv, NEW id \in Ids, NEW s, StateOf(id, s),
         orders[id] # Nil => Before(orders[id], s),
         orders' = [orders EXCEPT ![id] = s], UNCHANGED <<writers, reader>>
  PROVE  IInv'
<1>1. /\ written' = written /\ built' = built /\ refused' = refused
      /\ UNCHANGED reader
  BY DEF writers
<1>2. s \in Stored /\ s # Nil
  BY NilFacts DEF StateOf
<1>3. orders \in [Ids -> Stored \union {Nil}]
  BY DEF IInv, StoreInv
<1>4. /\ orders' \in [Ids -> Stored \union {Nil}] /\ orders'[id] = s
      /\ \A i \in Ids : i # id => orders'[i] = orders[i]
  BY <1>2, <1>3
<1>5. MovesOn
  <2>1. ASSUME NEW i \in Ids, orders[i] # Nil
        PROVE  orders'[i] # Nil /\ Before(orders[i], orders'[i])
    <3>1. CASE i = id
      BY <1>2, <1>4, <2>1, <3>1
    <3>2. CASE i # id
      BY <1>3, <1>4, <2>1, <3>2, BeforeOrder
    <3> QED BY <3>1, <3>2
  <2> QED BY <1>1, <2>1 DEF MovesOn
<1>6. ASSUME NEW i \in Ids
      PROVE  /\ built'[i] # Nil => StateOf(i, built[i])'
             /\ orders'[i] # Nil => StateOf(i, orders[i])'
  <2>1. /\ built[i] # Nil => StateOf(i, built[i])
        /\ orders[i] # Nil => StateOf(i, orders[i])
    BY DEF IInv, StoreInv
  <2>2. CASE i = id
    BY <1>1, <1>4, <2>1, <2>2 DEF StateOf
  <2>3. CASE i # id
    BY <1>1, <1>4, <2>1, <2>3 DEF StateOf
  <2> QED BY <2>2, <2>3
<1>7. StoreInv'
  BY <1>1, <1>4, <1>6 DEF IInv, StoreInv
<1> QED BY <1>1, <1>5, <1>7, ReaderKept DEF IInv

LEMMA SaveInv == ASSUME IInv, NEW id \in Ids, Save(id) PROVE IInv'
<1>1. StateOf(id, built[id])
  BY DEF Save, IInv, StoreInv
<1> QED BY <1>1, StoreInvKept DEF Save

LEMMA UpdateFillInv == ASSUME IInv, NEW id \in Ids, UpdateFill(id) PROVE IInv'
<1> DEFINE s == orders[id]
           o == RehydrateOrder(s.snap)
<1>1. PICK q \in FillQtys :
        /\ CanFill(o, q, o.terms.limitPrice)
        /\ orders' = [orders EXCEPT ![id].snap = Snapshot(Fill(o, q, o.terms.limitPrice))]
  BY DEF UpdateFill
<1>2. orders[id] # Nil /\ UNCHANGED <<writers, reader>>
  BY DEF UpdateFill
<1>3. StateOf(id, s) /\ s \in Stored /\ FillsMatchStatus(s.snap)
  BY <1>2 DEF IInv, StoreInv, StateOf
<1> DEFINE e == Snapshot(Fill(o, q, o.terms.limitPrice))
           t == [s EXCEPT !.snap = e]
<1>4. /\ t \in Stored /\ t.snap.id = s.snap.id /\ t.snap.terms = s.snap.terms
      /\ FillsMatchStatus(t.snap) /\ Before(s, t)
  <2>1. q \in Int64
    BY QueriesAssumption
  <2> QED BY <1>1, <1>3, <2>1, FilledState
<1>5. orders' = [orders EXCEPT ![id] = t]
  BY <1>1
<1> HIDE DEF t
<1>6. StateOf(id, t)
  BY <1>3, <1>4 DEF StateOf
<1> QED BY <1>2, <1>4, <1>5, <1>6, StoreInvKept

(***************************************************************************)
(* The steps of the reader.                                                *)
(***************************************************************************)
(* They leave what is stored alone. *)
LEMMA StoreKept ==
  ASSUME StoreInv, UNCHANGED <<writers, orders>>
  PROVE  StoreInv' /\ \A id, s : StateOf(id, s) => StateOf(id, s)'
<1>1. written' = written /\ built' = built /\ refused' = refused /\ orders' = orders
  BY DEF writers
<1>2. \A id, s : StateOf(id, s) => StateOf(id, s)'
  BY <1>1 DEF StateOf
<1>3. StoreInv'
  BY <1>1, <1>2 DEF StoreInv
<1> QED BY <1>2, <1>3

LEMMA BeginListInv == ASSUME IInv, BeginList PROVE IInv'
<1>1. /\ query' = "scan" /\ limit' \in Int /\ shard' = 0 /\ snaps' = {} /\ page' = <<>>
      /\ atStart' = orders /\ orders' = orders /\ UNCHANGED <<writers, orders>>
  BY QueriesAssumption DEF BeginList
<1>2. StoreInv'
  BY <1>1, StoreKept DEF IInv
<1>3. orders \in [Ids -> Stored \union {Nil}]
  BY DEF IInv, StoreInv
<1>4. \A id \in Ids : orders[id] # Nil => Before(orders[id], orders[id])
  BY <1>3, BeforeOrder
<1>5. \A id \in Ids : ~(shardFor(id) < 0)
  BY ShardFacts
<1>6. ScanInv'
  BY <1>1, <1>3, <1>4, <1>5 DEF ScanInv
<1>7. PageInv'
  BY <1>1 DEF PageInv
<1> QED BY <1>2, <1>6, <1>7 DEF IInv

LEMMA ScanShardInv == ASSUME IInv, ScanShard PROVE IInv'
<1> DEFINE new == {orders[id] : id \in InShard}
<1>1. /\ snaps' = snaps \union new /\ shard' = shard + 1 /\ UNCHANGED <<writers, orders>>
      /\ orders' = orders /\ atStart' = atStart /\ limit' = limit
      /\ query = "scan" /\ query' = query /\ page' = page
  BY DEF ScanShard, AsStored
<1>2. StoreInv' /\ \A id, s : StateOf(id, s) => StateOf(id, s)'
  BY <1>1, StoreKept DEF IInv
<1>3. /\ shard \in Nat /\ atStart \in [Ids -> Stored \union {Nil}] /\ limit \in Int
      /\ orders \in [Ids -> Stored \union {Nil}]
  BY DEF IInv, ScanInv, StoreInv
<1>4. ASSUME NEW s \in snaps
      PROVE  /\ s.snap.id \in Ids /\ shardFor(s.snap.id) < shard /\ Collected(s)'
  <2> DEFINE id == s.snap.id
  <2>1. /\ id \in Ids /\ shardFor(id) < shard /\ StateOf(id, s)
        /\ orders[id] # Nil /\ Before(s, orders[id])
        /\ atStart[id] # Nil => Before(atStart[id], s)
    BY DEF IInv, ScanInv, Collected
  <2>2. shardFor(id) < shard + 1
    BY <1>3, <2>1, ShardFacts
  <2> QED BY <1>1, <1>2, <2>1, <2>2 DEF Collected
<1>5. ASSUME NEW id \in InShard
      PROVE  /\ id \in Ids /\ shardFor(id) = shard /\ orders[id].snap.id = id
             /\ Collected(orders[id])'
  <2>1. id \in Ids /\ shardFor(id) = shard /\ orders[id] # Nil
    BY DEF InShard
  <2>2. StateOf(id, orders[id]) /\ orders[id].snap.id = id /\ orders[id] \in Stored
    BY <2>1 DEF IInv, StoreInv, StateOf
  <2>3. Before(orders[id], orders[id])
    BY <2>2, BeforeOrder
  <2>4. atStart[id] # Nil => Before(atStart[id], orders[id])
    BY <2>1 DEF IInv, ScanInv
  <2>5. shardFor(id) < shard + 1
    BY <1>3, <2>1
  <2> QED BY <1>1, <1>2, <2>1, <2>2, <2>3, <2>4, <2>5 DEF Collected
<1> DEFINE Same(s, t) == s.snap.id = t.snap.id => s = t
<1>6. ASSUME NEW s \in snaps', NEW t \in snaps' PROVE Same(s, t)
  <2>1. CASE s \in snaps /\ t \in snaps
    BY <2>1 DEF IInv, ScanInv
  <2>2. CASE s \in new /\ t \in new
    BY <1>5, <2>2
  <2>3. CASE s \in snaps /\ t \in new
    BY <1>3, <1>4, <1>5, <2>3
  <2>4. CASE s \in new /\ t \in snaps
    BY <1>3, <1>4, <1>5, <2>4
  <2> QED BY <1>1, <2>1, <2>2, <2>3, <2>4
<1>7. ASSUME NEW id \in Ids, atStart[id] # Nil, shardFor(id) < shard + 1
      PROVE  \E s \in snaps' : s.snap.id = id
  <2>1. CASE shardFor(id) < shard
    <3>1. PICK s \in snaps : s.snap.id = id
      BY <1>7, <2>1 DEF IInv, ScanInv
    <3> QED BY <1>1, <3>1
  <2>2. CASE shardFor(id) = shard
    <3>1. orders[id] # Nil
      BY <1>7 DEF IInv, ScanInv
    <3>2. id \in InShard
      BY <2>2, <3>1 DEF InShard
    <3>3. orders[id] \in snaps' /\ orders[id].snap.id = id
      BY <1>1, <1>5, <3>2
    <3> QED BY <3>3
  <2> QED BY <1>3, <1>7, <2>1, <2>2, ShardFacts
<1>8. ScanInv'
  <2>1. \A s \in snaps' : Collected(s)'
    BY <1>1, <1>4, <1>5
  <2>2. shard' \in Nat
    BY <1>1, <1>3
  <2>3. \A id \in Ids : atStart[id] # Nil => orders[id] # Nil /\ Before(atStart[id], orders[id])
    BY DEF IInv, ScanInv
  <2> HIDE DEF new
  <2> QED BY <1>1, <1>3, <1>6, <1>7, <2>1, <2>2, <2>3 DEF ScanInv
<1>9. PageInv'
  BY <1>1 DEF IInv, PageInv
<1> QED BY <1>2, <1>8, <1>9 DEF IInv

LEMMA RespondInv == ASSUME IInv, Respond PROVE IInv'
<1>1. /\ query' = "done" /\ limit' = limit /\ shard' = shard /\ snaps' = snaps
      /\ atStart' = atStart /\ orders' = orders /\ UNCHANGED <<writers, orders>>
      /\ ~ShardLeft
  BY DEF Respond
<1>2. StoreInv' /\ \A id, s : StateOf(id, s) => StateOf(id, s)'
  BY <1>1, StoreKept DEF IInv
<1>3. \A s \in snaps : Collected(s) => Collected(s)'
  BY <1>1, <1>2 DEF Collected
<1>4. ScanInv'
  BY <1>1, <1>3 DEF IInv, ScanInv
<1>5. PageInv'
  BY <1>1 DEF Respond, PageInv, ShardLeft, Cut
<1> QED BY <1>2, <1>4, <1>5 DEF IInv

LEMMA InvHolds == Spec => []IInv
<1>1. IInv /\ [Next]_vars => IInv'
  <2> SUFFICES ASSUME IInv, [Next]_vars PROVE IInv'
    OBVIOUS
  <2>1. CASE UNCHANGED vars
    <3>1. UNCHANGED <<writers, orders>> /\ UNCHANGED reader /\ orders' = orders /\ written' = written
      BY <2>1 DEF vars, writers
    <3>2. StoreInv'
      BY <3>1, StoreKept DEF IInv
    <3>3. MovesOn
      <4>1. orders \in [Ids -> Stored \union {Nil}]
        BY DEF IInv, StoreInv
      <4> QED BY <3>1, <4>1, BeforeOrder DEF MovesOn
    <3> QED BY <3>1, <3>2, <3>3, ReaderKept DEF IInv
  <2> QED BY <2>1, BuildInv, SaveInv, UpdateFillInv, BeginListInv, ScanShardInv, RespondInv
          DEF Next
<1> QED BY <1>1, InitInv, PTL DEF Spec

(***************************************************************************)
(* The answer.                                                             *)
(***************************************************************************)
(* An id determines what was collected of it, so it is finite. *)
LEMMA SnapsFinite == ASSUME IInv PROVE IsFiniteSet(snaps)
<1> DEFINE f == [s \in snaps |-> s.snap.id]
<1>1. \A s \in snaps : s.snap.id \in Ids
  BY DEF IInv, ScanInv, Collected
<1>2. \A s, t \in snaps : s.snap.id = t.snap.id => s = t
  BY DEF IInv, ScanInv
<1>3. f \in Injection(snaps, Ids)
  BY <1>1, <1>2 DEF Injection, IsInjective
<1> HIDE DEF f
<1> QED BY <1>3, QueriesAssumption, FS_Injection

(* An arrangement of what was collected has all of it, each once. *)
LEMMA RowsFacts ==
  ASSUME IInv, NEW rows \in SetToSeqs(snaps)
  PROVE  /\ Len(rows) \in Nat /\ rows \in Seq(snaps) /\ DOMAIN rows = 1 .. Len(rows)
         /\ \A i \in 1 .. Len(rows) : rows[i] \in snaps
         /\ \A i, j \in 1 .. Len(rows) : rows[i] = rows[j] => i = j
         /\ \A s \in snaps : \E i \in 1 .. Len(rows) : rows[i] = s
<1> DEFINE N == Cardinality(snaps)
<1>1. N \in Nat /\ IsFiniteSet(snaps)
  BY SnapsFinite, FS_CardinalityType
<1>2. rows \in [1 .. N -> snaps] /\ \A i, j \in 1 .. N : i # j => rows[i] # rows[j]
  BY DEF SetToSeqs
<1> HIDE DEF N
<1>3. rows \in Seq(snaps) /\ Len(rows) = N /\ DOMAIN rows = 1 .. N
  BY <1>1, <1>2
<1>4. rows \in Injection(1 .. N, snaps)
  BY <1>2 DEF Injection, IsInjective
<1>5. Cardinality(1 .. N) = N
  <2>1. Cardinality(1 .. N) = IF 1 > N THEN 0 ELSE N - 1 + 1
    BY <1>1, FS_Interval
  <2> QED BY <1>1, <2>1
<1>6. rows \in Surjection(1 .. N, snaps)
  BY <1>1, <1>4, <1>5, FS_Injection DEF N
<1> QED BY <1>1, <1>2, <1>3, <1>6 DEF Surjection

(* Sorting by neighbours sorts the whole. *)
LEMMA SortedAll ==
  ASSUME NEW N \in Nat, NEW f \in [1 .. N -> Int],
         \A i \in 1 .. N - 1 : f[i] >= f[i + 1]
  PROVE  \A i, j \in 1 .. N : i <= j => f[i] >= f[j]
<1> DEFINE S == {k \in Nat : \A i \in 1 .. N : i + k <= N => f[i] >= f[i + k]}
<1>1. 0 \in S
  OBVIOUS
<1>2. ASSUME NEW k \in Nat, k \in S PROVE k + 1 \in S
  <2> SUFFICES ASSUME NEW i \in 1 .. N, i + (k + 1) <= N PROVE f[i] >= f[i + (k + 1)]
    OBVIOUS
  <2>1. i + k \in 1 .. N - 1 /\ i + k \in 1 .. N /\ i + (k + 1) = (i + k) + 1
        /\ i + (k + 1) \in 1 .. N
    OBVIOUS
  <2>2. f[i] >= f[i + k]
    BY <1>2, <2>1
  <2>3. f[i + k] >= f[i + (k + 1)]
    BY <2>1
  <2>4. f[i] \in Int /\ f[i + k] \in Int /\ f[i + (k + 1)] \in Int
    BY <2>1
  <2> QED BY <2>2, <2>3, <2>4
<1>3. \A k \in Nat : k \in S
  <2> HIDE DEF S
  <2> QED BY <1>1, <1>2, SetInduction
<1>4. ASSUME NEW i \in 1 .. N, NEW j \in 1 .. N, i <= j PROVE f[i] >= f[j]
  <2> DEFINE k == j - i
  <2>1. k \in Nat /\ i + k = j
    BY <1>4
  <2> HIDE DEF k
  <2>2. \A h \in 1 .. N : h + k <= N => f[h] >= f[h + k]
    BY <1>3, <2>1
  <2>3. i + k <= N
    BY <2>1
  <2>4. f[i] >= f[i + k]
    BY <2>2, <2>3
  <2> QED BY <2>1, <2>4
<1> QED BY <1>4

(* The page: row by row the view of a collected state, each order once,    *)
(* newest first, and what is cut off is no newer and only there if the     *)
(* page is full.                                                           *)
Arranged(rows, m) ==
  /\ Len(rows) \in Nat /\ m \in 0 .. Len(rows)
  /\ DOMAIN page = 1 .. m /\ Len(page) = m
  /\ \A i \in 1 .. Len(rows) : rows[i] \in snaps
  /\ \A i, j \in 1 .. Len(rows) : rows[i] = rows[j] => i = j
  /\ \A s \in snaps : \E i \in 1 .. Len(rows) : rows[i] = s
  /\ \A i \in 1 .. m : page[i] = viewFromOrder(rows[i])
  /\ \A i, j \in 1 .. Len(rows) : i <= j => rows[i].createdAt >= rows[j].createdAt
  /\ m < Len(rows) => limit > 0 /\ m = limit

LEMMA PageFacts ==
  ASSUME IInv, query = "done"
  PROVE  \E rows, m : Arranged(rows, m)
<1>1. PICK rows \in SetToSeqs(snaps) :
        /\ Sorted(rows)
        /\ page = [i \in DOMAIN Cut(rows) |-> viewFromOrder(Cut(rows)[i])]
  BY DEF IInv, PageInv
<1> DEFINE N == Len(rows)
           m == IF limit > 0 /\ N > limit THEN limit ELSE N
<1>2. /\ N \in Nat /\ rows \in Seq(snaps) /\ DOMAIN rows = 1 .. N
      /\ \A i \in 1 .. N : rows[i] \in snaps
      /\ \A i, j \in 1 .. N : rows[i] = rows[j] => i = j
      /\ \A s \in snaps : \E i \in 1 .. N : rows[i] = s
  BY RowsFacts
<1>3. limit \in Int
  BY DEF IInv, ScanInv
<1>4. m \in 0 .. N /\ (m < N => limit > 0 /\ m = limit)
  <2>1. N \in Nat
    BY <1>2
  <2> HIDE DEF N
  <2>2. CASE limit > 0 /\ N > limit
    BY <1>3, <2>1, <2>2
  <2>3. CASE ~(limit > 0 /\ N > limit)
    BY <1>3, <2>1, <2>3
  <2> QED BY <2>2, <2>3
<1>5. DOMAIN Cut(rows) = 1 .. m /\ \A i \in 1 .. m : Cut(rows)[i] = rows[i]
  <2>1. CASE limit > 0 /\ N > limit
    <3>1. Cut(rows) = SubSeq(rows, 1, limit) /\ m = limit
      BY <2>1 DEF Cut
    <3> HIDE DEF m
    <3> QED BY <1>2, <1>3, <2>1, <3>1
  <2>2. CASE ~(limit > 0 /\ N > limit)
    <3>1. Cut(rows) = rows /\ m = N
      BY <2>2 DEF Cut
    <3> QED BY <1>2, <3>1
  <2> QED BY <2>1, <2>2
<1> HIDE DEF m
<1>6. page = [i \in 1 .. m |-> viewFromOrder(rows[i])]
  BY <1>1, <1>5
<1>7. DOMAIN page = 1 .. m /\ \A i \in 1 .. m : page[i] = viewFromOrder(rows[i])
  BY <1>6
<1>8. Len(page) = m
  <2>1. m \in Nat
    BY <1>2, <1>4
  <2> QED BY <1>6, <2>1
<1>9. \A i, j \in 1 .. N : i <= j => rows[i].createdAt >= rows[j].createdAt
  <2> DEFINE f == [i \in 1 .. N |-> rows[i].createdAt]
  <2>1. f \in [1 .. N -> Int]
    <3>1. \A s \in snaps : s \in Stored
      BY DEF IInv, ScanInv, Collected, StateOf
    <3> QED BY <1>2, <3>1, StoredFields
  <2>2. \A i \in 1 .. N - 1 : f[i] >= f[i + 1]
    <3> SUFFICES ASSUME NEW i \in 1 .. N - 1 PROVE f[i] >= f[i + 1]
      OBVIOUS
    <3>1. i \in 1 .. N /\ i + 1 \in 1 .. N
      BY <1>2
    <3>2. rows[i].createdAt >= rows[i + 1].createdAt
      BY <1>1 DEF Sorted
    <3> QED BY <3>1, <3>2
  <2> HIDE DEF f, N
  <2>3. \A i, j \in 1 .. N : i <= j => f[i] >= f[j]
    BY <1>2, <2>1, <2>2, SortedAll DEF N
  <2> QED BY <2>3 DEF f
<1> HIDE DEF N
<1>10. Arranged(rows, m)
  BY <1>2, <1>4, <1>7, <1>8, <1>9 DEF Arranged, N
<1> QED BY <1>10

(* The view shows the fields of the state. *)
LEMMA ViewFacts ==
  ASSUME NEW s
  PROVE  LET v == viewFromOrder(s)
         IN  /\ v.id = s.snap.id /\ v.version = s.snap.version
             /\ v.createdAt = s.createdAt
             /\ v.limitPrice = MoneyString(s.snap.terms.limitPrice)
             /\ v.quantity = QuantityString(s.snap.terms.quantity)
BY DEF viewFromOrder

LEMMA NotStale == IInv => ListNotStale
<1> SUFFICES ASSUME IInv, query = "done", NEW i \in DOMAIN page
             PROVE  LET id == page[i].id
                    IN  /\ orders[id] # Nil /\ page[i].version <= orders[id].snap.version
                        /\ atStart[id] # Nil => page[i].version >= atStart[id].snap.version
  BY DEF ListNotStale
<1>1. PICK rows, m : Arranged(rows, m)
  BY PageFacts
<1> DEFINE s == rows[i]
<1>2. i \in 1 .. m /\ m \in 0 .. Len(rows) /\ Len(rows) \in Nat
  BY <1>1 DEF Arranged
<1>3. s \in snaps /\ page[i] = viewFromOrder(s)
  <2>1. i \in 1 .. Len(rows)
    BY <1>2
  <2> QED BY <1>1, <1>2, <2>1 DEF Arranged
<1> HIDE DEF s
<1> DEFINE id == s.snap.id
<1>4. page[i].id = id /\ page[i].version = s.snap.version
  BY <1>3, ViewFacts
<1>5. /\ id \in Ids /\ orders[id] # Nil /\ Before(s, orders[id]) /\ s \in Stored
      /\ atStart[id] # Nil => Before(atStart[id], s)
  BY <1>3 DEF IInv, ScanInv, Collected, StateOf
<1>6. atStart[id] # Nil => atStart[id] \in Stored
  BY <1>5 DEF IInv, ScanInv
<1>7. s.snap.version \in Nat /\ (atStart[id] # Nil => atStart[id].snap.version \in Nat)
  BY <1>5, <1>6, StoredFields
<1> QED BY <1>4, <1>5, <1>7 DEF Before

LEMMA MissesNothing == IInv => ListMissesNothing
<1> SUFFICES ASSUME IInv, query = "done"
             PROVE  /\ Cardinality(Listed) = Len(page)
                    /\ \A id \in Ids : atStart[id] # Nil /\ id \notin Listed =>
                         /\ limit > 0 /\ Len(page) = limit
                         /\ \A i \in DOMAIN page : page[i].createdAt >= atStart[id].createdAt
  BY DEF ListMissesNothing
<1>1. PICK rows, m : Arranged(rows, m)
  BY PageFacts
<1>2. /\ Len(rows) \in Nat /\ m \in 0 .. Len(rows) /\ m \in Nat
      /\ DOMAIN page = 1 .. m /\ Len(page) = m
  BY <1>1 DEF Arranged
<1>3. ASSUME NEW i \in 1 .. m
      PROVE  /\ i \in 1 .. Len(rows) /\ rows[i] \in snaps /\ rows[i].snap.id \in Ids
             /\ page[i].id = rows[i].snap.id /\ page[i].createdAt = rows[i].createdAt
  <2>1. i \in 1 .. Len(rows)
    BY <1>2
  <2>2. rows[i] \in snaps /\ page[i] = viewFromOrder(rows[i])
    BY <1>1, <2>1 DEF Arranged
  <2>3. rows[i].snap.id \in Ids
    BY <2>2 DEF IInv, ScanInv, Collected
  <2> QED BY <2>1, <2>2, <2>3, ViewFacts
<1>4. Cardinality(Listed) = Len(page)
  <2> DEFINE f == [i \in 1 .. m |-> page[i].id]
  <2>1. f \in [1 .. m -> Listed]
    BY <1>2 DEF Listed
  <2>2. ASSUME NEW i \in 1 .. m, NEW j \in 1 .. m, f[i] = f[j] PROVE i = j
    <3>1. rows[i].snap.id = rows[j].snap.id
      BY <1>3, <2>2
    <3>2. rows[i] = rows[j]
      BY <1>3, <3>1 DEF IInv, ScanInv
    <3> QED BY <1>1, <1>3, <3>2 DEF Arranged
  <2>3. \A id \in Listed : \E i \in 1 .. m : f[i] = id
    BY <1>2 DEF Listed
  <2> HIDE DEF f
  <2>4. f \in Injection(1 .. m, Listed) /\ f \in Surjection(1 .. m, Listed)
    BY <2>1, <2>2, <2>3 DEF Injection, IsInjective, Surjection
  <2>5. IsFiniteSet(Listed)
    <3>1. Listed \subseteq Ids
      BY <1>2, <1>3 DEF Listed
    <3> QED BY <3>1, QueriesAssumption, FS_Subset
  <2>6. Cardinality(1 .. m) = m
    <3>1. Cardinality(1 .. m) = IF 1 > m THEN 0 ELSE m - 1 + 1
      BY <1>2, FS_Interval
    <3> QED BY <1>2, <3>1
  <2> QED BY <1>2, <2>4, <2>5, <2>6, FS_Injection
<1>5. ASSUME NEW id \in Ids, atStart[id] # Nil, id \notin Listed
      PROVE  /\ limit > 0 /\ Len(page) = limit
             /\ \A i \in DOMAIN page : page[i].createdAt >= atStart[id].createdAt
  <2>1. shardFor(id) < shard
    <3>1. ~(shard < NumShards)
      BY DEF IInv, PageInv, ShardLeft
    <3>2. shard \in Nat
      BY DEF IInv, ScanInv
    <3> QED BY <3>1, <3>2, ShardFacts
  <2>2. PICK s \in snaps : s.snap.id = id
    BY <1>5, <2>1 DEF IInv, ScanInv
  <2>3. PICK j \in 1 .. Len(rows) : rows[j] = s
    BY <1>1 DEF Arranged
  <2>4. ~(j \in 1 .. m)
    <3> SUFFICES ASSUME j \in 1 .. m PROVE FALSE
      OBVIOUS
    <3>1. page[j].id = id
      BY <1>3, <2>2, <2>3
    <3> QED BY <1>2, <1>5, <3>1 DEF Listed
  <2>5. m < j /\ m < Len(rows)
    BY <1>2, <2>4
  <2>6. limit > 0 /\ m = limit
    BY <1>1, <2>5 DEF Arranged
  <2>7. atStart[id].createdAt = s.createdAt
    BY <1>5, <2>2 DEF IInv, ScanInv, Collected, Before
  <2>8. ASSUME NEW i \in 1 .. m PROVE page[i].createdAt >= atStart[id].createdAt
    <3>1. i <= j
      BY <1>2, <2>5
    <3>2. rows[i].createdAt >= rows[j].createdAt
      BY <1>1, <1>3, <3>1 DEF Arranged
    <3> QED BY <1>3, <2>3, <2>7, <3>2
  <2> QED BY <1>2, <2>6, <2>8
<1> QED BY <1>4, <1>5

LEMMA AsWritten == IInv => ShownAsWritten
<1> SUFFICES ASSUME IInv, NEW i \in DOMAIN page
             PROVE  LET x == written[page[i].id]
                    IN  /\ WellFormed(x.price) => SameNumber(page[i].limitPrice, x.price)
                        /\ WellFormed(x.quantity) => SameNumber(page[i].quantity, x.quantity)
  BY DEF ShownAsWritten
<1>1. query = "done"
  BY DEF IInv, PageInv
<1>2. PICK rows, m : Arranged(rows, m)
  BY <1>1, PageFacts
<1> DEFINE s == rows[i]
<1>3. s \in snaps /\ page[i] = viewFromOrder(s)
  <2>1. i \in 1 .. m /\ m \in 0 .. Len(rows) /\ Len(rows) \in Nat
    BY <1>2 DEF Arranged
  <2>2. i \in 1 .. Len(rows)
    BY <2>1
  <2> QED BY <1>2, <2>1, <2>2 DEF Arranged
<1> HIDE DEF s
<1> DEFINE id == s.snap.id
           x  == written[id]
           p  == ParseMoney(x.price)
           q  == ParseQuantity(x.quantity)
<1>4. /\ page[i].id = id /\ page[i].limitPrice = MoneyString(s.snap.terms.limitPrice)
      /\ page[i].quantity = QuantityString(s.snap.terms.quantity)
  BY <1>3, ViewFacts
<1>5. id \in Ids /\ x # Nil /\ Accepted(x) /\ s.snap.terms = Terms(x)
  BY <1>3 DEF IInv, ScanInv, Collected, StateOf
<1>6. x.price \in Literals /\ x.quantity \in Literals
  <2>1. x \in Texts
    BY <1>5 DEF IInv, StoreInv
  <2> QED BY <2>1, QueriesAssumption
<1>7. p.ok /\ p.val > 0 /\ q.ok /\ q.val > 0
  BY <1>5, AcceptedTerms
<1>8. page[i].limitPrice = MoneyString(p.val) /\ page[i].quantity = QuantityString(q.val)
  BY <1>4, <1>5, TermsFacts
<1> HIDE DEF x, id
<1>9. moneyScale \in Scales /\ quantityScale \in Scales
  BY DEF Scales
<1>10. WellFormed(x.price) => SameNumber(MoneyString(p.val), x.price)
  BY <1>6, <1>7, <1>9, RoundTrip DEF MoneyString, ParseMoney
<1>11. WellFormed(x.quantity) => SameNumber(QuantityString(q.val), x.quantity)
  BY <1>6, <1>7, <1>9, RoundTrip DEF QuantityString, ParseQuantity
<1> QED BY <1>4, <1>8, <1>10, <1>11 DEF x

LEMMA RefusedRightly == IInv => RefusedOnlyIfUnrepresentable
<1> SUFFICES ASSUME IInv, NEW id \in Ids, written[id] # Nil,
                    WellFormed(written[id].price), WellFormed(written[id].quantity)
             PROVE  id \in refused <=> \/ ~Representable(written[id].price, moneyScale)
                                       \/ ~Representable(written[id].quantity, quantityScale)
  BY DEF RefusedOnlyIfUnrepresentable
<1> DEFINE x == written[id]
<1>1. x \in Texts /\ (id \in refused <=> ~Accepted(x))
  BY DEF IInv, StoreInv
<1> HIDE DEF x
<1>2. x.price \in Literals /\ x.quantity \in Literals
  BY <1>1, QueriesAssumption
<1>3. WellFormed(x.price) /\ WellFormed(x.quantity)
  BY DEF x
<1>4. moneyScale \in Scales /\ quantityScale \in Scales
  BY DEF Scales
<1>5. ParseMoney(x.price).ok /\ ParseMoney(x.price).val > 0 <=> Representable(x.price, moneyScale)
  BY <1>2, <1>3, <1>4, ParsesPositive DEF ParseMoney
<1>6. ParseQuantity(x.quantity).ok /\ ParseQuantity(x.quantity).val > 0
        <=> Representable(x.quantity, quantityScale)
  BY <1>2, <1>3, <1>4, ParsesPositive DEF ParseQuantity
<1> QED BY <1>1, <1>5, <1>6, AcceptedTerms DEF x

(* An order that was stored when the query began is missing from the       *)
(* answer only if the page is full of orders at least as new, however      *)
(* List's shard-by-shard scan interleaves with Save and Update; no order   *)
(* is listed twice.                                                        *)
THEOREM ListIsComplete == Spec => []ListMissesNothing
BY InvHolds, MissesNothing, PTL

(* List returns every order in a state it had while the query ran. *)
THEOREM ListIsCurrent == Spec => []ListNotStale
BY InvHolds, NotStale, PTL

(* The views show the price and the quantity as the client wrote them:     *)
(* formatFixed undoes parseFixed, for every pair of scales.                *)
THEOREM AmountsRoundTrip == Spec => []ShownAsWritten
BY InvHolds, AsWritten, PTL

(* placeOrder refuses a well-formed amount exactly when it is not          *)
(* positive, has too many digits or does not fit: mulI64 and addI64 find   *)
(* every overflow that parseFixed can run into.                            *)
THEOREM ParseIsExact == Spec => []RefusedOnlyIfUnrepresentable
BY InvHolds, RefusedRightly, PTL
=============================================================================
