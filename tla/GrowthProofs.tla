---------------------------- MODULE GrowthProofs ----------------------------
(***************************************************************************)
(* The formulas and what the windows show of them, at every level, in      *)
(* every universe and position: the properties that MCFormulas checks for  *)
(* a few levels, which the width of TLC's integers bounds.                 *)
(***************************************************************************)
EXTENDS Growth, NaturalsInduction, WellFoundedInduction, TLAPS

Positive == Nat \ {0}

\* Factors are fractions, at least 1; the numbers Power computes with.
Factor == Positive \X Positive
Mixed == [whole : Nat, num : Nat, den : Positive]

-----------------------------------------------------------------------------
(* The recursions of Formulas have values.                                 *)

(* Of some natural numbers one is the least.                               *)
LEMMA LeastNumber ==
  ASSUME NEW S \in SUBSET Nat, S # {}
  PROVE  \E m \in S : \A n \in S : m <= n
<1> DEFINE Less == OpToRel(<, Nat)
<1>1. \A m, n \in Nat : n < m => <<n, m>> \in Less
  BY DEF OpToRel
<1>2. IsWellFoundedOn(Less, Nat)
  BY NatLessThanWellFounded
<1> HIDE DEF Less
<1>3. \E m \in S : \A n \in S : <<n, m>> \notin Less
  BY <1>2, WFMin
<1>4. \A m, n \in Nat : n < m \/ m <= n
  OBVIOUS
<1> QED
  BY <1>1, <1>3, <1>4

(* What holds of 0, and of n + 1 when it holds of n, holds of all numbers. *)
LEMMA Induction ==
  ASSUME NEW S \in SUBSET Nat, 0 \in S, \A n \in S : n + 1 \in S
  PROVE  S = Nat
<1> SUFFICES ASSUME Nat \ S # {} PROVE FALSE
  OBVIOUS
<1>1. PICK m \in Nat \ S : \A n \in Nat \ S : m <= n
  BY LeastNumber
<1>2. m # 0 /\ m \in Nat
  OBVIOUS
<1>3. m - 1 \in Nat /\ ~(m <= m - 1) /\ m = (m - 1) + 1
  BY <1>2
<1> QED
  BY <1>1, <1>3

\* The powers of f up to the n-th, times base.
Powers(base, f, n, pow) ==
  pow = [i \in 0 .. n |-> IF i = 0 THEN Whole(base) ELSE Times(pow[i - 1], f)]

(* Power takes the last of them.                                           *)
LEMMA PowerIsLast ==
  ASSUME NEW base, NEW f, NEW n
  PROVE  Power(base, f, n) = (CHOOSE pow : Powers(base, f, n, pow))[n]
BY DEF Power, Powers

(* There is exactly one table of powers, and it continues the shorter one. *)
LEMMA PowersExist ==
  ASSUME NEW base, NEW f, NEW n \in Nat
  PROVE  \E pow : Powers(base, f, n, pow)
<1> DEFINE Good == {m \in Nat : \E pow : Powers(base, f, m, pow)}
<1>1. 0 \in Good
  <2> DEFINE pow == [i \in 0 .. 0 |-> Whole(base)]
  <2>1. pow = [i \in 0 .. 0 |-> IF i = 0 THEN Whole(base)
                                ELSE Times(pow[i - 1], f)]
    OBVIOUS
  <2>2. Powers(base, f, 0, pow)
    BY <2>1 DEF Powers
  <2> QED
    BY <2>2
<1>2. ASSUME NEW m \in Good PROVE m + 1 \in Good
  <2>1. PICK pow : Powers(base, f, m, pow)
    OBVIOUS
  <2>2. m \in Nat
    OBVIOUS
  <2> DEFINE more == [i \in 0 .. m + 1 |-> IF i = 0 THEN Whole(base)
                                           ELSE Times(pow[i - 1], f)]
  <2>3. \A i \in 0 .. m : more[i] = pow[i]
    <3> TAKE i \in 0 .. m
    <3>1. i \in 0 .. m + 1
      BY <2>2
    <3> QED
      BY <2>1, <3>1 DEF Powers
  <2>4. \A i \in 0 .. m + 1 : i # 0 => more[i - 1] = pow[i - 1]
    <3> TAKE i \in 0 .. m + 1
    <3>1. i # 0 => i - 1 \in 0 .. m
      BY <2>2
    <3> HIDE DEF more
    <3> QED
      BY <2>3, <3>1
  <2>5. more = [i \in 0 .. m + 1 |-> IF i = 0 THEN Whole(base)
                                     ELSE Times(more[i - 1], f)]
    BY <2>4
  <2> HIDE DEF more
  <2>6. Powers(base, f, m + 1, more)
    BY <2>5 DEF Powers
  <2> QED
    BY <2>2, <2>6
<1>3. Good = Nat
  <2>1. Good \in SUBSET Nat
    OBVIOUS
  <2> HIDE DEF Good
  <2> QED
    BY <1>1, <1>2, <2>1, Induction
<1> QED
  BY <1>3

(* Two tables agree on the powers both have.                               *)
LEMMA PowersAgree ==
  ASSUME NEW base, NEW f, NEW n \in Nat, NEW m \in Nat, NEW p, NEW q,
         Powers(base, f, n, p), Powers(base, f, m, q)
  PROVE  \A i \in 0 .. n : i \in 0 .. m => p[i] = q[i]
<1> DEFINE Same == {i \in Nat : i \in 0 .. n /\ i \in 0 .. m => p[i] = q[i]}
<1>1. 0 \in Same
  BY DEF Powers
<1>2. ASSUME NEW i \in Same PROVE i + 1 \in Same
  <2> SUFFICES ASSUME i + 1 \in 0 .. n, i + 1 \in 0 .. m
               PROVE  p[i + 1] = q[i + 1]
    OBVIOUS
  <2>1. i \in 0 .. n /\ i \in 0 .. m /\ i + 1 # 0 /\ i + 1 - 1 = i
    OBVIOUS
  <2>2. p[i] = q[i]
    BY <2>1
  <2>3. p[i + 1] = Times(p[i + 1 - 1], f) /\ q[i + 1] = Times(q[i + 1 - 1], f)
    BY <2>1 DEF Powers
  <2> QED
    BY <2>1, <2>2, <2>3
<1>3. Same = Nat
  <2>1. Same \in SUBSET Nat
    OBVIOUS
  <2> HIDE DEF Same
  <2> QED
    BY <1>1, <1>2, <2>1, Induction
<1> QED
  BY <1>3

(* Power is the recursion it is meant to be.                               *)
LEMMA PowerStep ==
  ASSUME NEW base, NEW f, NEW n \in Nat
  PROVE  /\ Power(base, f, 0) = Whole(base)
         /\ Power(base, f, n + 1) = Times(Power(base, f, n), f)
<1> DEFINE table(m) == CHOOSE pow : Powers(base, f, m, pow)
<1>1. \A m \in Nat : Powers(base, f, m, table(m))
  BY PowersExist
<1>2. \A m : Power(base, f, m) = table(m)[m]
  BY PowerIsLast
<1> HIDE DEF table
<1>3. Power(base, f, 0) = Whole(base)
  BY <1>1, <1>2 DEF Powers
<1>4. n + 1 \in 0 .. n + 1 /\ n \in 0 .. n + 1 /\ n \in 0 .. n /\ n + 1 \in Nat
  OBVIOUS
<1>5. table(n + 1)[n + 1] = Times(table(n + 1)[n], f)
  <2>1. table(n + 1)[n + 1] = Times(table(n + 1)[n + 1 - 1], f)
    BY <1>1, <1>4 DEF Powers
  <2> QED
    BY <2>1
<1>6. table(n + 1)[n] = table(n)[n]
  BY <1>1, <1>4, PowersAgree
<1> QED
  BY <1>2, <1>3, <1>5, <1>6

-----------------------------------------------------------------------------
(* Mixed numbers.                                                          *)

(* Division with a remainder.                                              *)
LEMMA Division ==
  ASSUME NEW a \in Nat, NEW b \in Positive
  PROVE  /\ a \div b \in Nat /\ a % b \in Nat /\ a % b < b
         /\ a = (a \div b) * b + (a % b)
BY DEF Positive

(* Products of natural numbers are natural numbers.                        *)
LEMMA ProductType ==
  ASSUME NEW a \in Nat, NEW b \in Nat
  PROVE  /\ a * b \in Nat
         /\ a # 0 /\ b # 0 => a * b # 0
OBVIOUS

(* A product keeps the order.                                              *)
LEMMA ProductOrder ==
  ASSUME NEW a \in Nat, NEW b \in Nat, NEW c \in Nat
  PROVE  /\ a <= b => a * c <= b * c
         /\ c # 0 /\ a * c <= b * c => a <= b
         /\ c # 0 /\ a < b => a * c < b * c
OBVIOUS

(* Division keeps the order, and gives the greatest quotient.             *)
LEMMA DivisionOrder ==
  ASSUME NEW a \in Nat, NEW b \in Nat, NEW c \in Positive
  PROVE  /\ a <= b => a \div c <= b \div c
         /\ \A q \in Nat : q * c <= a <=> q <= a \div c
<1>1. c \in Nat /\ c # 0
  BY DEF Positive
<1>2. /\ a \div c \in Nat /\ a % c \in Nat /\ a % c < c
      /\ a = (a \div c) * c + (a % c)
  BY Division
<1>3. /\ b \div c \in Nat /\ b % c \in Nat /\ b % c < c
      /\ b = (b \div c) * c + (b % c)
  BY Division
<1> DEFINE d == a \div c
           e == b \div c
<1>4. /\ d * c \in Nat /\ e * c \in Nat
      /\ (d + 1) * c = d * c + c /\ (e + 1) * c = e * c + c
  <2> d \in Nat /\ e \in Nat
    BY <1>2, <1>3
  <2> HIDE DEF d, e
  <2> QED
    BY <1>1, ProductType
<1> HIDE DEF d, e
<1>5. d \in Nat /\ e \in Nat /\ d * c <= a /\ a < (d + 1) * c /\ b < (e + 1) * c
  BY <1>1, <1>2, <1>3, <1>4 DEF d, e
<1>6. ASSUME a <= b PROVE d <= e
  <2>1. ~((e + 1) * c <= d * c)
    BY <1>1, <1>4, <1>5, <1>6
  <2> QED
    BY <1>1, <1>5, <2>1, ProductOrder
<1>7. ASSUME NEW q \in Nat PROVE q * c <= a <=> q <= d
  <2>1. ASSUME q <= d PROVE q * c <= a
    <3>1. q * c <= d * c /\ q * c \in Nat
      BY <1>1, <1>5, <2>1, ProductType, ProductOrder
    <3> QED
      BY <1>4, <1>5, <3>1
  <2>2. ASSUME q * c <= a PROVE q <= d
    <3>1. ~((d + 1) * c <= q * c)
      BY <1>1, <1>4, <1>5, <2>2, ProductType
    <3> QED
      BY <1>1, <1>5, <3>1, ProductOrder
  <2> QED
    BY <2>1, <2>2
<1> QED
  BY <1>6, <1>7 DEF d, e

\* The numerator of a mixed number.
Numerator(x) == x.whole * x.den + x.num
Proper(x) == x \in Mixed /\ x.num < x.den

(* Times multiplies exactly, and keeps the fractional part below one.      *)
LEMMA TimesIsProduct ==
  ASSUME NEW x \in Mixed, NEW f \in Factor
  PROVE  /\ Proper(Times(x, f))
         /\ Numerator(Times(x, f)) * (x.den * f[2])
              = f[1] * Numerator(x) * Times(x, f).den
<1> DEFINE a    == x.whole * f[1]
           part == (a % f[2]) * x.den + x.num * f[1]
           q    == IF part % f[2] = 0 THEN f[2] ELSE 1
           den  == x.den * (f[2] \div q)
<1>1. /\ x.whole \in Nat /\ x.num \in Nat /\ x.den \in Positive
      /\ f[1] \in Positive /\ f[2] \in Positive
  BY DEF Mixed, Factor
<1>2. a \in Nat
  BY <1>1, ProductType DEF Positive
<1>3. /\ a % f[2] \in Nat /\ a \div f[2] \in Nat
      /\ a = (a \div f[2]) * f[2] + (a % f[2])
  BY <1>1, <1>2, Division
<1>4. part \in Nat
  <2>1. (a % f[2]) * x.den \in Nat /\ x.num * f[1] \in Nat
    BY <1>1, <1>3, ProductType DEF Positive
  <2> QED
    BY <2>1
<1>5. /\ q \in Positive /\ den \in Positive /\ den * q = x.den * f[2]
      /\ part = (part \div q) * q /\ part \div q \in Nat
  <2>1. CASE part % f[2] = 0
    <3>1. q = f[2] /\ f[2] \div q = 1
      BY <1>1, <2>1 DEF Positive
    <3>2. part = (part \div f[2]) * f[2] /\ part \div f[2] \in Nat
      <4> HIDE DEF part
      <4>1. part = (part \div f[2]) * f[2] + (part % f[2])
        BY <1>1, <1>4, Division
      <4>2. part \div f[2] \in Nat /\ f[2] \in Nat
        BY <1>1, <1>4, Division DEF Positive
      <4>3. (part \div f[2]) * f[2] \in Nat
        BY <4>2, ProductType
      <4> QED
        BY <2>1, <4>1, <4>2, <4>3
    <3> HIDE DEF part, q
    <3> QED
      BY <1>1, <3>1, <3>2 DEF Positive
  <2>2. CASE part % f[2] # 0
    <3>1. q = 1 /\ f[2] \div q = f[2] /\ part \div q = part
      BY <1>1, <1>4, <2>2 DEF Positive
    <3>2. x.den * f[2] \in Positive
      BY <1>1, ProductType DEF Positive
    <3> HIDE DEF part, q
    <3> QED
      BY <1>1, <1>4, <3>1, <3>2 DEF Positive
  <2> QED
    BY <2>1, <2>2
<1> DEFINE p == part \div q
<1>6. /\ Times(x, f).whole = a \div f[2] + p \div den
      /\ Times(x, f).num = p % den /\ Times(x, f).den = den
      /\ Times(x, f) = [whole |-> a \div f[2] + p \div den,
                        num |-> p % den, den |-> den]
  BY DEF Times
<1> DEFINE b == a \div f[2]
           c == a % f[2]
<1>7. /\ p \in Nat /\ p \div den \in Nat /\ p % den \in Nat /\ p % den < den
      /\ p = (p \div den) * den + (p % den)
  <2> HIDE DEF p, den
  <2> QED
    BY <1>5, Division DEF p
<1>8. Proper(Times(x, f))
  <2> HIDE DEF p, den
  <2> QED
    BY <1>3, <1>6, <1>7, <1>5 DEF Proper, Mixed
<1>9. Numerator(Times(x, f)) = b * den + p
  <2>1. Numerator(Times(x, f)) = (b + p \div den) * den + (p % den)
    BY <1>6 DEF Numerator
  <2>2. b \in Nat /\ den \in Nat
    BY <1>3, <1>5 DEF Positive
  <2> HIDE DEF p, den, b
  <2> QED
    BY <1>7, <2>1, <2>2
<1>10. (b * den + p) * q = f[1] * Numerator(x)
  <2>1. (b * den + p) * q = b * (x.den * f[2]) + part
    <3> /\ b \in Nat /\ den \in Nat /\ p \in Nat /\ q \in Nat /\ p * q = part
        /\ den * q = x.den * f[2]
      BY <1>3, <1>5, <1>7 DEF Positive
    <3> HIDE DEF p, den, b, q, part
    <3>1. (b * den + p) * q = b * (den * q) + p * q
      OBVIOUS
    <3> QED
      BY <3>1
  <2>2. part = c * x.den + x.num * f[1] /\ a = b * f[2] + c /\ a = x.whole * f[1]
    BY <1>3
  <2>3. b \in Nat /\ c \in Nat
    BY <1>3
  <2> HIDE DEF p, den, b, q, part, c, a
  <2>4. b * (x.den * f[2]) + c * x.den = a * x.den
    BY <1>1, <2>2, <2>3 DEF Positive
  <2>5. (b * den + p) * q = a * x.den + x.num * f[1]
    BY <1>1, <2>1, <2>2, <2>3, <2>4 DEF Positive
  <2> QED
    BY <1>1, <2>2, <2>5 DEF Positive, Numerator
<1>11. (b * den + p) * (x.den * f[2]) = f[1] * Numerator(x) * den
  <2>1. b \in Nat /\ den \in Nat /\ p \in Nat /\ q \in Nat /\ den * q = x.den * f[2]
    BY <1>3, <1>5, <1>7 DEF Positive
  <2> HIDE DEF p, den, b, q
  <2> DEFINE n == b * den + p
  <2>2. n \in Nat
    BY <2>1
  <2>3. n * (x.den * f[2]) = (n * q) * den
    <3> HIDE DEF n
    <3> QED
      BY <2>1, <2>2
  <2> QED
    BY <1>10, <2>3
<1> QED
  BY <1>6, <1>8, <1>9, <1>11
\* The order of mixed numbers.
NoMore(x, y) == Numerator(x) * y.den <= Numerator(y) * x.den

(* A mixed number lies between its wholes and the next number.             *)
LEMMA NumeratorType ==
  ASSUME NEW x \in Mixed
  PROVE  /\ Numerator(x) \in Nat /\ x.whole * x.den <= Numerator(x)
         /\ Proper(x) => Numerator(x) < (x.whole + 1) * x.den
         /\ x.den \in Nat /\ x.den # 0 /\ x.whole \in Nat /\ x.num \in Nat
<1>1. x.whole \in Nat /\ x.num \in Nat /\ x.den \in Nat /\ x.den # 0
  BY DEF Mixed, Positive
<1>2. x.whole * x.den \in Nat
  BY <1>1, ProductType
<1>3. (x.whole + 1) * x.den = x.whole * x.den + x.den
  BY <1>1
<1> QED
  BY <1>1, <1>2, <1>3 DEF Numerator, Proper

(* A fraction that is no more has no more wholes.                          *)
LEMMA FloorOrder ==
  ASSUME NEW t \in Nat, NEW u \in Nat, NEW a \in Nat, NEW b \in Nat,
         NEW c \in Positive, NEW d \in Positive,
         t * c <= a, b < (u + 1) * d, a * d <= b * c
  PROVE  t <= u
<1>1. c \in Nat /\ d \in Nat /\ c # 0 /\ d # 0 /\ c * d \in Nat /\ c * d # 0
  BY ProductType DEF Positive
<1>2. (t * c) * d <= a * d
  BY <1>1, ProductType, ProductOrder
<1>3. b * c < ((u + 1) * d) * c
  BY <1>1, ProductType, ProductOrder
<1>4. (t * c) * d = t * (c * d) /\ ((u + 1) * d) * c = (u + 1) * (c * d)
  BY <1>1
<1>5. t * (c * d) < (u + 1) * (c * d)
  <2>1. a * d \in Nat /\ b * c \in Nat /\ t * (c * d) \in Nat
        /\ (u + 1) * (c * d) \in Nat
    BY <1>1, ProductType
  <2> QED
    BY <1>2, <1>3, <1>4, <2>1
<1>6. ~((u + 1) * (c * d) <= t * (c * d))
  BY <1>1, <1>5, ProductType
<1>7. ~(u + 1 <= t)
  BY <1>1, <1>6, ProductOrder
<1> QED
  BY <1>7

(* A mixed number that is no more has no more wholes.                      *)
LEMMA WholeOrder ==
  ASSUME NEW x, NEW y, Proper(x), Proper(y), NoMore(x, y)
  PROVE  x.whole <= y.whole
<1>1. x \in Mixed /\ y \in Mixed
  BY DEF Proper
<1> QED
  BY <1>1, NumeratorType, FloorOrder DEF NoMore, Positive

(* The order is transitive.                                                *)
LEMMA OrderTransitive ==
  ASSUME NEW x \in Mixed, NEW y \in Mixed, NEW z \in Mixed,
         NoMore(x, y), NoMore(y, z)
  PROVE  NoMore(x, z)
<1> DEFINE a == Numerator(x)
           b == Numerator(y)
           c == Numerator(z)
<1>1. /\ a \in Nat /\ b \in Nat /\ c \in Nat
      /\ x.den \in Nat /\ y.den \in Nat /\ z.den \in Nat /\ y.den # 0
  BY NumeratorType
<1>2. a * y.den <= b * x.den /\ b * z.den <= c * y.den
  BY DEF NoMore
<1> HIDE DEF a, b, c
<1>3. (a * y.den) * z.den <= (b * x.den) * z.den
  BY <1>1, <1>2, ProductType, ProductOrder
<1>4. (b * z.den) * x.den <= (c * y.den) * x.den
  BY <1>1, <1>2, ProductType, ProductOrder
<1>5. /\ (a * y.den) * z.den = (a * z.den) * y.den
      /\ (b * x.den) * z.den = (b * z.den) * x.den
      /\ (c * y.den) * x.den = (c * x.den) * y.den
  BY <1>1
<1>6. (a * z.den) * y.den <= (c * x.den) * y.den
  <2>1. (b * z.den) * x.den \in Nat /\ (a * z.den) * y.den \in Nat
        /\ (c * x.den) * y.den \in Nat
    BY <1>1, ProductType
  <2> QED
    BY <1>3, <1>4, <1>5, <2>1
<1>7. a * z.den <= c * x.den
  BY <1>1, <1>6, ProductType, ProductOrder
<1> QED
  BY <1>7 DEF NoMore, a, c

(* Multiplying keeps the order, and by a factor of at least one it grows.  *)
LEMMA TimesKeepsOrder ==
  ASSUME NEW x \in Mixed, NEW y \in Mixed, NEW f \in Factor, NoMore(x, y)
  PROVE  NoMore(Times(x, f), Times(y, f))
<1> DEFINE a == Numerator(x)
           b == Numerator(y)
           v == Times(x, f)
           w == Times(y, f)
           m == Numerator(v)
           n == Numerator(w)
<1>1. /\ a \in Nat /\ b \in Nat /\ x.den \in Nat /\ y.den \in Nat
      /\ x.den # 0 /\ y.den # 0
      /\ f[1] \in Nat /\ f[2] \in Nat /\ f[2] # 0
  BY NumeratorType DEF Factor, Positive
<1>2. /\ m * (x.den * f[2]) = f[1] * a * v.den
      /\ n * (y.den * f[2]) = f[1] * b * w.den
      /\ v \in Mixed /\ w \in Mixed
  BY TimesIsProduct DEF Proper
<1>3. m \in Nat /\ n \in Nat /\ v.den \in Nat /\ w.den \in Nat
  BY <1>2, NumeratorType
<1>4. a * y.den <= b * x.den
  BY DEF NoMore
<1> HIDE DEF a, b, v, w, m, n
<1> DEFINE c == x.den * y.den * f[2]
           d == f[1] * v.den * w.den
<1>5. c \in Nat /\ c # 0 /\ d \in Nat
  BY <1>1, <1>3, ProductType
<1>6. (m * w.den) * c = (a * y.den) * d
  <2>1. (m * w.den) * c = (m * (x.den * f[2])) * (w.den * y.den)
    BY <1>1, <1>3
  <2>2. (a * y.den) * d = (f[1] * a * v.den) * (w.den * y.den)
    BY <1>1, <1>3
  <2> QED
    BY <1>2, <2>1, <2>2
<1>7. (n * v.den) * c = (b * x.den) * d
  <2>1. (n * v.den) * c = (n * (y.den * f[2])) * (v.den * x.den)
    BY <1>1, <1>3
  <2>2. (b * x.den) * d = (f[1] * b * w.den) * (v.den * x.den)
    BY <1>1, <1>3
  <2> QED
    BY <1>2, <2>1, <2>2
<1> HIDE DEF c, d
<1>8. (m * w.den) * c <= (n * v.den) * c
  BY <1>1, <1>4, <1>5, <1>6, <1>7, ProductType, ProductOrder
<1>9. m * w.den <= n * v.den
  BY <1>3, <1>5, <1>8, ProductType, ProductOrder
<1> QED
  BY <1>9 DEF NoMore, m, n, v, w

(* By a factor of at least one it grows.                                   *)
LEMMA TimesGrows ==
  ASSUME NEW x \in Mixed, NEW f \in Factor, f[2] <= f[1]
  PROVE  NoMore(x, Times(x, f))
<1> DEFINE a == Numerator(x)
           v == Times(x, f)
           m == Numerator(v)
<1>1. /\ a \in Nat /\ x.den \in Nat /\ x.den # 0
      /\ f[1] \in Nat /\ f[2] \in Nat /\ f[2] # 0
  BY NumeratorType DEF Factor, Positive
<1>2. m * (x.den * f[2]) = f[1] * a * v.den /\ v \in Mixed
  BY TimesIsProduct DEF Proper
<1>3. m \in Nat /\ v.den \in Nat
  BY <1>2, NumeratorType
<1> HIDE DEF a, v, m
<1>4. f[2] * (a * v.den) <= f[1] * (a * v.den)
  BY <1>1, <1>3, ProductType, ProductOrder
<1>5. (a * v.den) * f[2] <= (m * x.den) * f[2]
  <2>1. (m * x.den) * f[2] = m * (x.den * f[2])
    BY <1>1, <1>3
  <2>2. f[1] * (a * v.den) = f[1] * a * v.den
    BY <1>1, <1>3
  <2>3. (a * v.den) * f[2] = f[2] * (a * v.den)
    BY <1>1, <1>3
  <2> QED
    BY <1>2, <1>4, <2>1, <2>2, <2>3
<1>6. a * v.den <= m * x.den
  BY <1>1, <1>3, <1>5, ProductType, ProductOrder
<1> QED
  BY <1>6 DEF NoMore, a, v, m
-----------------------------------------------------------------------------
(* Powers.                                                                 *)

(* A whole number is a mixed number.                                       *)
LEMMA WholeProper ==
  ASSUME NEW base \in Nat
  PROVE  Proper(Whole(base)) /\ Numerator(Whole(base)) = base
BY DEF Whole, Proper, Mixed, Positive, Numerator

(* So are its powers, with a fractional part below one.                    *)
LEMMA PowerProper ==
  ASSUME NEW base \in Nat, NEW f \in Factor, NEW n \in Nat
  PROVE  Proper(Power(base, f, n)) /\ Power(base, f, n) \in Mixed
<1> DEFINE S == {i \in Nat : Proper(Power(base, f, i))}
<1>1. 0 \in S
  BY PowerStep, WholeProper
<1>2. ASSUME NEW i \in S PROVE i + 1 \in S
  BY PowerStep, TimesIsProduct DEF Proper
<1>3. S = Nat
  <2>1. S \in SUBSET Nat
    OBVIOUS
  <2> HIDE DEF S
  <2> QED
    BY <1>1, <1>2, <2>1, Induction
<1> QED
  BY <1>3 DEF Proper

(* A greater base has greater powers.                                      *)
LEMMA PowerOrder ==
  ASSUME NEW a \in Nat, NEW b \in Nat, NEW f \in Factor, NEW n \in Nat, a <= b
  PROVE  NoMore(Power(a, f, n), Power(b, f, n))
<1> DEFINE S == {i \in Nat : NoMore(Power(a, f, i), Power(b, f, i))}
<1>1. 0 \in S
  <2>1. NoMore(Whole(a), Whole(b))
    BY DEF Whole, NoMore, Numerator
  <2> QED
    BY <2>1, PowerStep
<1>2. ASSUME NEW i \in S PROVE i + 1 \in S
  BY PowerStep, PowerProper, TimesKeepsOrder
<1>3. S = Nat
  <2>1. S \in SUBSET Nat
    OBVIOUS
  <2> HIDE DEF S
  <2> QED
    BY <1>1, <1>2, <2>1, Induction
<1> QED
  BY <1>3

(* And by a factor of at least one they grow.                              *)
LEMMA PowerGrows ==
  ASSUME NEW base \in Nat, NEW f \in Factor, NEW n \in Nat, f[2] <= f[1]
  PROVE  NoMore(Power(base, f, n), Power(base, f, n + 1))
BY PowerStep, PowerProper, TimesGrows

(* The wholes of a product are at least those of the wholes' product, and  *)
(* less than those of the next whole number.                               *)
LEMMA TimesBounds ==
  ASSUME NEW x \in Mixed, NEW f \in Factor
  PROVE  /\ Times(x, f).whole \in Nat
         /\ (x.whole * f[1]) \div f[2] <= Times(x, f).whole
         /\ Proper(x) => Times(x, f).whole * f[2] < f[1] * (x.whole + 1)
<1> DEFINE v == Times(x, f)
           a == Numerator(x)
           m == Numerator(v)
           w == x.whole
           u == v.whole
<1>1. /\ a \in Nat /\ x.den \in Nat /\ x.den # 0 /\ w \in Nat /\ w * x.den <= a
      /\ Proper(x) => a < (w + 1) * x.den
      /\ f[1] \in Nat /\ f[2] \in Nat /\ f[1] # 0 /\ f[2] # 0
      /\ f[2] \in Positive
  BY NumeratorType DEF Factor, Positive
<1>2. m * (x.den * f[2]) = f[1] * a * v.den /\ v \in Mixed /\ Proper(v)
  BY TimesIsProduct DEF Proper
<1>3. /\ m \in Nat /\ v.den \in Nat /\ v.den # 0 /\ u \in Nat
      /\ u * v.den <= m /\ m < (u + 1) * v.den
  BY <1>2, NumeratorType
<1> DEFINE c == x.den * v.den
<1> HIDE DEF a, v, m, w, u
<1>4. c \in Nat /\ c # 0
  BY <1>1, <1>3, ProductType
<1>5. (w * f[1]) \div f[2] <= u
  <2> DEFINE q == (w * f[1]) \div f[2]
  <2>1. w * f[1] \in Nat
    BY <1>1, ProductType
  <2>2. q \in Nat /\ q * f[2] <= w * f[1]
    <3>1. q \in Nat
      BY <1>1, <2>1, Division
    <3> QED
      BY <1>1, <2>1, <3>1, DivisionOrder
  <2> HIDE DEF q
  <2>3. (q * f[2]) * c <= f[1] * a * v.den
    <3>1. (q * f[2]) * c <= (w * f[1]) * c
      BY <1>1, <1>4, <2>1, <2>2, ProductType, ProductOrder
    <3>2. (w * x.den) * (f[1] * v.den) <= a * (f[1] * v.den)
      BY <1>1, <1>3, ProductType, ProductOrder
    <3>3. (w * f[1]) * c = (w * x.den) * (f[1] * v.den)
          /\ a * (f[1] * v.den) = f[1] * a * v.den
      BY <1>1, <1>3
    <3> /\ (q * f[2]) * c \in Nat /\ (w * f[1]) * c \in Nat
        /\ f[1] * a * v.den \in Nat
      BY <1>1, <1>3, <1>4, <2>1, <2>2, ProductType
    <3> QED
      BY <3>1, <3>2, <3>3
  <2>4. m * (x.den * f[2]) < ((u + 1) * v.den) * (x.den * f[2])
    BY <1>1, <1>3, ProductType, ProductOrder
  <2>5. /\ ((u + 1) * v.den) * (x.den * f[2]) = ((u + 1) * f[2]) * c
        /\ (u + 1) * f[2] \in Nat /\ q * f[2] \in Nat
    BY <1>1, <1>3, <2>2, ProductType
  <2>6. ~(((u + 1) * f[2]) * c <= (q * f[2]) * c)
    <3> /\ (q * f[2]) * c \in Nat /\ ((u + 1) * f[2]) * c \in Nat
        /\ m * (x.den * f[2]) \in Nat
      BY <1>1, <1>3, <1>4, <2>5, ProductType
    <3> HIDE DEF c
    <3> QED
      BY <1>2, <2>3, <2>4, <2>5
  <2>7. ~((u + 1) * f[2] <= q * f[2])
    BY <1>4, <2>5, <2>6, ProductOrder
  <2>8. ~(u + 1 <= q)
    BY <1>1, <1>3, <2>2, <2>7, ProductOrder
  <2> QED
    BY <1>3, <2>2, <2>8 DEF q
<1>6. ASSUME Proper(x) PROVE u * f[2] < f[1] * (w + 1)
  <2>1. (u * v.den) * (x.den * f[2]) <= m * (x.den * f[2])
    BY <1>1, <1>3, ProductType, ProductOrder
  <2>2. a * (f[1] * v.den) < ((w + 1) * x.den) * (f[1] * v.den)
    <3> DEFINE e == f[1] * v.den
               d == (w + 1) * x.den
    <3>1. e \in Nat /\ e # 0 /\ d \in Nat /\ a < d
      BY <1>1, <1>3, <1>6, ProductType
    <3> HIDE DEF e, d
    <3>2. a * e < d * e
      BY <1>1, <3>1, ProductOrder
    <3> QED
      BY <3>2 DEF e, d
  <2>3. /\ (u * v.den) * (x.den * f[2]) = (u * f[2]) * c
        /\ ((w + 1) * x.den) * (f[1] * v.den) = (f[1] * (w + 1)) * c
        /\ a * (f[1] * v.den) = f[1] * a * v.den
    BY <1>1, <1>3
  <2>4. u * f[2] \in Nat /\ f[1] * (w + 1) \in Nat
    BY <1>1, <1>3, ProductType
  <2>5. ~((f[1] * (w + 1)) * c <= (u * f[2]) * c)
    <3> /\ (u * f[2]) * c \in Nat /\ (f[1] * (w + 1)) * c \in Nat
        /\ m * (x.den * f[2]) \in Nat
      BY <1>1, <1>3, <1>4, <2>4, ProductType
    <3> HIDE DEF c
    <3> QED
      BY <1>2, <2>1, <2>2, <2>3
  <2> QED
    BY <1>4, <2>4, <2>5, ProductOrder
<1> QED
  BY <1>3, <1>5, <1>6 DEF u, v, w

(* A factor of at least one and a half.                                    *)
LEMMA TimesAddsHalf ==
  ASSUME NEW x \in Mixed, NEW f \in Factor, 3 * f[2] <= 2 * f[1]
  PROVE  3 * x.whole <= 2 * Times(x, f).whole + 1
<1> DEFINE a == x.whole * f[1]
           b == a \div f[2]
           t == Times(x, f).whole
<1>1. /\ x.whole \in Nat /\ f[1] \in Nat /\ f[2] \in Nat /\ f[2] # 0
      /\ f[2] \in Positive /\ a \in Nat
  BY NumeratorType, ProductType DEF Factor, Positive
<1>2. b \in Nat /\ a < (b + 1) * f[2]
  <2>1. b \in Nat
    BY <1>1, Division
  <2>2. b + 1 \in Nat /\ ~(b + 1 <= b)
    BY <2>1
  <2>3. ~((b + 1) * f[2] <= a)
    BY <1>1, <2>2, DivisionOrder
  <2>4. (b + 1) * f[2] \in Nat
    BY <1>1, <2>2, ProductType
  <2> HIDE DEF a, b
  <2> QED
    BY <1>1, <2>1, <2>3, <2>4
<1>3. t \in Nat /\ b <= t
  BY TimesBounds
<1>4. 3 * x.whole < 2 * (b + 1)
  <2>1. x.whole * (3 * f[2]) <= x.whole * (2 * f[1])
    BY <1>1, ProductType, ProductOrder
  <2>2. x.whole * (2 * f[1]) = 2 * a
    BY <1>1
  <2>3. 2 * a < 2 * ((b + 1) * f[2])
    <3> (b + 1) * f[2] \in Nat
      BY <1>1, <1>2, ProductType
    <3> HIDE DEF a, b
    <3> QED
      BY <1>1, <1>2
  <2>4. x.whole * (3 * f[2]) = (3 * x.whole) * f[2]
        /\ 2 * ((b + 1) * f[2]) = (2 * (b + 1)) * f[2]
    <3> HIDE DEF a, b
    <3> QED
      BY <1>1, <1>2
  <2> HIDE DEF a, b
  <2>5. ~((2 * (b + 1)) * f[2] <= (3 * x.whole) * f[2])
    <3> (2 * (b + 1)) * f[2] \in Nat /\ (3 * x.whole) * f[2] \in Nat
      BY <1>1, <1>2, ProductType
    <3> QED
      BY <1>1, <2>1, <2>2, <2>3, <2>4
  <2> QED
    BY <1>1, <1>2, <2>5, ProductOrder
<1> HIDE DEF b, t
<1> QED
  BY <1>1, <1>2, <1>3, <1>4 DEF t

(* Nor do such powers fall below their base.                               *)
LEMMA PowerAtLeast ==
  ASSUME NEW base \in Nat, NEW f \in Factor, NEW n \in Nat, f[2] <= f[1]
  PROVE  base <= Power(base, f, n).whole
<1> DEFINE S == {i \in Nat : base <= Power(base, f, i).whole}
<1>1. 0 \in S
  BY PowerStep DEF Whole
<1>2. ASSUME NEW i \in S PROVE i + 1 \in S
  <2> DEFINE x == Power(base, f, i)
             y == Power(base, f, i + 1)
  <2>1. Proper(x) /\ Proper(y) /\ x \in Mixed /\ y \in Mixed /\ NoMore(x, y)
    BY PowerProper, PowerGrows
  <2>2. x.whole \in Nat /\ y.whole \in Nat /\ base <= x.whole
    BY <2>1, NumeratorType
  <2>3. x.whole <= y.whole
    BY <2>1, WholeOrder
  <2> HIDE DEF x, y
  <2>4. base <= y.whole
    BY <2>2, <2>3
  <2> QED
    BY <2>4 DEF y
<1>3. S = Nat
  <2>1. S \in SUBSET Nat
    OBVIOUS
  <2> HIDE DEF S
  <2> QED
    BY <1>1, <1>2, <2>1, Induction
<1> QED
  BY <1>3
-----------------------------------------------------------------------------
(* Rounding.                                                               *)

\* What Rounded rounds, in halves.
Twice(x, num) == 2 * num * x.whole + (2 * num * x.num) \div x.den

(* It is the whole part of twice the number.                               *)
LEMMA TwiceBounds ==
  ASSUME NEW x \in Mixed, NEW num \in Nat
  PROVE  /\ Twice(x, num) \in Nat
         /\ Twice(x, num) * x.den <= 2 * num * Numerator(x)
         /\ 2 * num * Numerator(x) < (Twice(x, num) + 1) * x.den
<1> DEFINE a == 2 * num * x.num
           b == a \div x.den
           w == 2 * num * x.whole
<1>1. x.whole \in Nat /\ x.num \in Nat /\ x.den \in Positive /\ x.den \in Nat
  BY DEF Mixed, Positive
<1>2. a \in Nat /\ w \in Nat
  BY <1>1, ProductType
<1>3. /\ b \in Nat /\ a % x.den \in Nat /\ a % x.den < x.den
      /\ a = b * x.den + (a % x.den)
  <2> HIDE DEF a
  <2> QED
    BY <1>1, <1>2, Division
<1>4. 2 * num * Numerator(x) = w * x.den + a
  BY <1>1 DEF Numerator
<1>5. Twice(x, num) = w + b
  BY DEF Twice
<1> HIDE DEF a, b, w
<1>6. /\ (w + b) * x.den = w * x.den + b * x.den
      /\ (w + b + 1) * x.den = w * x.den + b * x.den + x.den
      /\ w * x.den \in Nat /\ b * x.den \in Nat
  BY <1>1, <1>2, <1>3, ProductType
<1> QED
  BY <1>1, <1>2, <1>3, <1>4, <1>5, <1>6

(* A half is rounded upwards.                                              *)
LEMMA RoundedIs ==
  ASSUME NEW x, NEW num, NEW den
  PROVE  Rounded(x, num, den) = (Twice(x, num) + den) \div (2 * den)
BY DEF Rounded, Twice

(* A rounded number is a natural number.                                   *)
LEMMA RoundedType ==
  ASSUME NEW x \in Mixed, NEW num \in Nat, NEW den \in Positive
  PROVE  Rounded(x, num, den) \in Nat
<1>1. Twice(x, num) + den \in Nat /\ 2 * den \in Positive
  BY TwiceBounds DEF Positive
<1> QED
  BY <1>1, Division, RoundedIs

(* Rounding keeps the order.                                               *)
LEMMA RoundedOrder ==
  ASSUME NEW x \in Mixed, NEW y \in Mixed, NEW num \in Nat,
         NEW den \in Positive, NoMore(x, y)
  PROVE  Rounded(x, num, den) <= Rounded(y, num, den)
<1> DEFINE t == Twice(x, num)
           u == Twice(y, num)
           a == Numerator(x)
           b == Numerator(y)
<1>1. /\ x.den \in Positive /\ y.den \in Positive
      /\ x.den \in Nat /\ y.den \in Nat /\ a \in Nat /\ b \in Nat
      /\ den \in Nat /\ den # 0
  BY NumeratorType DEF Positive
<1>2. /\ t \in Nat /\ t * x.den <= 2 * num * a
      /\ u \in Nat /\ 2 * num * b < (u + 1) * y.den
  BY TwiceBounds
<1>3. a * y.den <= b * x.den
  BY DEF NoMore
<1> HIDE DEF t, u, a, b
<1>4. 2 * num * a \in Nat /\ 2 * num * b \in Nat
  BY <1>1, ProductType
<1>5. (2 * num * a) * y.den <= (2 * num * b) * x.den
  <2>1. (a * y.den) * (2 * num) <= (b * x.den) * (2 * num)
    BY <1>1, <1>3, ProductType, ProductOrder
  <2>2. /\ (2 * num * a) * y.den = (a * y.den) * (2 * num)
        /\ (2 * num * b) * x.den = (b * x.den) * (2 * num)
    BY <1>1
  <2> QED
    BY <2>1, <2>2
<1>6. t <= u
  BY <1>1, <1>2, <1>4, <1>5, FloorOrder
<1>7. (t + den) \div (2 * den) <= (u + den) \div (2 * den)
  <2> /\ t + den \in Nat /\ u + den \in Nat /\ t + den <= u + den
      /\ 2 * den \in Positive
    BY <1>1, <1>2, <1>6 DEF Positive
  <2> QED
    BY DivisionOrder
<1> QED
  BY <1>7, RoundedIs DEF t, u

(* Whoever works faster takes no longer.                                   *)
LEMMA RoundedFaster ==
  ASSUME NEW x \in Mixed, NEW num \in Nat, NEW slow \in Positive,
         NEW fast \in Positive, slow <= fast
  PROVE  Rounded(x, num, fast) <= Rounded(x, num, slow)
<1> DEFINE t == Twice(x, num)
           q == (t + fast) \div (2 * fast)
<1>1. t \in Nat /\ slow \in Nat /\ fast \in Nat /\ slow # 0 /\ fast # 0
  BY TwiceBounds DEF Positive
<1> HIDE DEF t
<1>2. /\ t + fast \in Nat /\ 2 * fast \in Positive
      /\ t + slow \in Nat /\ 2 * slow \in Positive
  BY <1>1 DEF Positive
<1>3. q \in Nat /\ q * (2 * fast) <= t + fast
  <2>1. q \in Nat
    BY <1>2, Division
  <2> QED
    BY <1>2, <2>1, DivisionOrder
<1> HIDE DEF q
<1>4. q * (2 * slow) <= t + slow
  <2>1. CASE q = 0
    BY <1>1, <2>1
  <2>2. CASE q # 0
    <3>1. 2 * q - 1 \in Nat
      BY <1>3, <2>2
    <3>2. (2 * q - 1) * fast = q * (2 * fast) - fast
      BY <1>1, <1>3
    <3>3. (2 * q - 1) * fast <= t
      <4> q * (2 * fast) \in Nat
        BY <1>1, <1>3, ProductType
      <4> QED
        BY <1>1, <1>3, <3>2
    <3>4. slow * (2 * q - 1) <= fast * (2 * q - 1)
      BY <1>1, <3>1, ProductOrder
    <3>5. /\ slow * (2 * q - 1) = q * (2 * slow) - slow
          /\ fast * (2 * q - 1) = (2 * q - 1) * fast
      BY <1>1, <1>3
    <3> /\ q * (2 * slow) \in Nat /\ fast * (2 * q - 1) \in Nat
      BY <1>1, <1>3, <3>1, ProductType
    <3> QED
      BY <1>1, <3>3, <3>4, <3>5
  <2> QED
    BY <2>1, <2>2
<1>5. q <= (t + slow) \div (2 * slow)
  BY <1>2, <1>3, <1>4, DivisionOrder
<1> QED
  BY <1>5, RoundedIs DEF q, t

(* Whoever promises a second less takes a second less, rounded or not.     *)
LEMMA RoundedSaves ==
  ASSUME NEW x \in Mixed, NEW slow \in Positive, NEW fast \in Positive,
         slow <= fast, SavesASecond(x.whole, slow, fast)
  PROVE  Rounded(x, 100, fast) < Rounded(x, 100, slow)
<1> DEFINE t == Twice(x, 100)
           q == (t + fast) \div (2 * fast)
           w == x.whole
           d == fast - slow
<1>1. /\ t \in Nat /\ slow \in Nat /\ fast \in Nat /\ slow # 0 /\ fast # 0
      /\ w \in Nat /\ d \in Nat /\ fast = slow + d
      /\ slow * fast <= 100 * w * d
  BY TwiceBounds, NumeratorType DEF Positive, SavesASecond
<1>2. 200 * w <= t
  <2>1. x.num \in Nat /\ x.den \in Positive
    BY DEF Mixed
  <2>2. (2 * 100 * x.num) \div x.den \in Nat
    BY <2>1, Division
  <2> HIDE DEF w
  <2> QED
    BY <1>1, <2>2 DEF Twice, w
<1> HIDE DEF t, w, d
<1>3. /\ t + fast \in Nat /\ 2 * fast \in Positive
      /\ t + slow \in Nat /\ 2 * slow \in Positive
  BY <1>1 DEF Positive
<1>4. q \in Nat /\ q * (2 * fast) <= t + fast
  <2>1. q \in Nat
    BY <1>3, Division
  <2> QED
    BY <1>3, <2>1, DivisionOrder
<1> HIDE DEF q
<1>5. (q + 1) * (2 * slow) <= t + slow
  <2>1. 2 * (slow * fast) <= t * d
    <3>1. (200 * w) * d <= t * d /\ (200 * w) * d = 2 * (100 * w * d)
      BY <1>1, <1>2, ProductOrder
    <3> QED
      BY <1>1, <3>1, ProductType
  <2>2. (q * (2 * fast)) * slow <= (t + fast) * slow
    BY <1>1, <1>3, <1>4, ProductType, ProductOrder
  <2>3. /\ (t + slow) * fast = t * slow + t * d + slow * fast
        /\ (t + fast) * slow = t * slow + slow * fast
        /\ ((q + 1) * (2 * slow)) * fast = (q * (2 * fast)) * slow + 2 * (slow * fast)
    <3>1. t * fast = t * slow + t * d
      BY <1>1
    <3>2. ((q + 1) * (2 * slow)) * fast = (q * (2 * fast)) * slow + 2 * (slow * fast)
      BY <1>1, <1>4
    <3>3. (t + slow) * fast = t * fast + slow * fast
      BY <1>1
    <3>4. (t + fast) * slow = t * slow + slow * fast
      BY <1>1
    <3> QED
      BY <3>1, <3>2, <3>3, <3>4
  <2>4. /\ t * slow \in Nat /\ t * d \in Nat /\ slow * fast \in Nat
        /\ (q * (2 * fast)) * slow \in Nat
    BY <1>1, <1>4, ProductType
  <2>5. ((q + 1) * (2 * slow)) * fast <= (t + slow) * fast
    BY <2>1, <2>2, <2>3, <2>4
  <2>6. (q + 1) * (2 * slow) \in Nat
    BY <1>1, <1>4, ProductType
  <2> QED
    BY <1>1, <1>3, <2>5, <2>6, ProductOrder
<1>6. q + 1 <= (t + slow) \div (2 * slow)
  BY <1>3, <1>4, <1>5, DivisionOrder
<1>7. (t + slow) \div (2 * slow) \in Nat
  BY <1>3, Division
<1>8. q < (t + slow) \div (2 * slow)
  BY <1>4, <1>6, <1>7
<1> QED
  BY <1>8, RoundedIs DEF q, t

(* Rounding gives the wholes or one more.                                  *)
LEMMA RoundedBounds ==
  ASSUME NEW x, Proper(x)
  PROVE  /\ x.whole \in Nat /\ Rounded(x, 1, 1) \in Nat
         /\ x.whole <= Rounded(x, 1, 1) /\ Rounded(x, 1, 1) <= x.whole + 1
<1> DEFINE v == x.whole
           t == Twice(x, 1)
           a == Numerator(x)
<1>1. x \in Mixed
  BY DEF Proper
<1>2. /\ v \in Nat /\ a \in Nat /\ v * x.den <= a /\ a < (v + 1) * x.den
      /\ x.den \in Nat /\ x.den # 0
  BY <1>1, NumeratorType
<1>3. t \in Nat /\ t * x.den <= 2 * a /\ 2 * a < (t + 1) * x.den
  <2>1. 2 * 1 * a = 2 * a
    BY <1>2
  <2> QED
    BY <1>1, <2>1, TwiceBounds
<1> HIDE DEF t, a, v
<1>4. /\ v * x.den \in Nat /\ (v + 1) * x.den \in Nat
      /\ t * x.den \in Nat /\ (t + 1) * x.den \in Nat
      /\ (2 * (v + 1)) * x.den = 2 * ((v + 1) * x.den)
      /\ (2 * v) * x.den = 2 * (v * x.den)
  BY <1>2, <1>3, ProductType
<1>5. ~((2 * (v + 1)) * x.den <= t * x.den) /\ ~((t + 1) * x.den <= (2 * v) * x.den)
  BY <1>2, <1>3, <1>4
<1>6. ~(2 * (v + 1) <= t) /\ ~(t + 1 <= 2 * v)
  BY <1>2, <1>3, <1>5, ProductOrder
<1>7. Rounded(x, 1, 1) = (t + 1) \div 2
  <2>1. 2 * 1 = 2
    OBVIOUS
  <2> QED
    BY <2>1, RoundedIs DEF t
<1> QED
  BY <1>2, <1>3, <1>6, <1>7 DEF v

(* What has ten wholes and grows by a half is more, even rounded.          *)
LEMMA RoundedMore ==
  ASSUME NEW x, NEW f \in Factor, Proper(x), 10 <= x.whole,
         3 * f[2] <= 2 * f[1]
  PROVE  Rounded(x, 1, 1) < Rounded(Times(x, f), 1, 1)
<1> DEFINE y == Times(x, f)
<1>1. x \in Mixed /\ Proper(y)
  BY TimesIsProduct DEF Proper
<1>2. 3 * x.whole <= 2 * y.whole + 1
  BY <1>1, TimesAddsHalf
<1> HIDE DEF y
<1>3. /\ x.whole \in Nat /\ Rounded(x, 1, 1) \in Nat
      /\ Rounded(x, 1, 1) <= x.whole + 1
      /\ y.whole \in Nat /\ Rounded(y, 1, 1) \in Nat
      /\ y.whole <= Rounded(y, 1, 1)
  BY <1>1, RoundedBounds
<1> QED
  BY <1>2, <1>3 DEF y

-----------------------------------------------------------------------------
(* Prices and durations.                                                   *)

\* What the tables have in common.
SoundRow(row) ==
  /\ \A r \in Resources : row.cost[r] \in Nat
  /\ row.costFactor \in Factor /\ 3 * row.costFactor[2] <= 2 * row.costFactor[1]
  /\ row.timeFactor \in Factor /\ 3 * row.timeFactor[2] <= 2 * row.timeFactor[1]
  /\ row.baseTime \in Nat

(* Every building costs metal.                                             *)
LEMMA BuildingRows ==
  ASSUME NEW k \in BuildingKeys
  PROVE  SoundRow(BaseBuildings[k]) /\ 10 <= BaseBuildings[k].cost["metal"]
BY DEF BuildingKeys, Mines, Storages, Installations, SoundRow, BaseBuildings,
       Row, Amount, Resources, Factor, Positive

(* Every research costs metal or crystal.                                  *)
LEMMA ResearchRows ==
  ASSUME NEW k \in ResearchKeys
  PROVE  /\ SoundRow(BaseResearch[k])
         /\ \/ 10 <= BaseResearch[k].cost["metal"]
            \/ 10 <= BaseResearch[k].cost["crystal"]
BY DEF ResearchKeys, SoundRow, BaseResearch, Row, Amount, Resources, Factor,
       Positive

(* Ships cost and take natural numbers.                                    *)
LEMMA ShipRows ==
  ASSUME NEW k \in ShipKeys
  PROVE  /\ \A r \in Resources : BaseShips[k].cost[r] \in Nat
         /\ BaseShips[k].baseTime \in Nat
BY DEF ShipKeys, BaseShips, Amount, Resources

(* Prices are natural numbers.                                             *)
LEMMA CostType ==
  ASSUME NEW row, NEW n \in Nat, SoundRow(row)
  PROVE  Cost(row, n) \in [Resources -> Nat]
<1>1. Greater(n - 1, 0) \in Nat
  BY DEF Greater
<1>2. ASSUME NEW r \in Resources
      PROVE  Rounded(Power(row.cost[r], row.costFactor, Greater(n - 1, 0)), 1, 1) \in Nat
  <2>1. row.cost[r] \in Nat /\ row.costFactor \in Factor
    BY DEF SoundRow
  <2>2. Power(row.cost[r], row.costFactor, Greater(n - 1, 0)) \in Mixed
    BY <1>1, <2>1, PowerProper
  <2>3. 1 \in Nat /\ 1 \in Positive
    BY DEF Positive
  <2> QED
    BY <2>2, <2>3, RoundedType
<1> QED
  BY <1>2 DEF Cost

(* A level costs no less than the one before, and more of what it costs.   *)
LEMMA CostGrows ==
  ASSUME NEW row, NEW n \in Nat \ {0}, SoundRow(row), NEW r \in Resources
  PROVE  /\ Cost(row, n)[r] <= Cost(row, n + 1)[r]
         /\ 10 <= row.cost[r] => Cost(row, n)[r] < Cost(row, n + 1)[r]
<1> DEFINE f == row.costFactor
           x == Power(row.cost[r], f, n - 1)
           y == Power(row.cost[r], f, n)
<1>1. /\ row.cost[r] \in Nat /\ f \in Factor /\ 3 * f[2] <= 2 * f[1]
      /\ f[2] <= f[1] /\ n - 1 \in Nat /\ n \in Nat /\ (n - 1) + 1 = n
      /\ 1 \in Nat /\ 1 \in Positive
  BY DEF SoundRow, Factor, Positive
<1>2. Greater(n - 1, 0) = n - 1 /\ Greater((n + 1) - 1, 0) = n
  BY <1>1 DEF Greater
<1>3. Cost(row, n)[r] = Rounded(x, 1, 1) /\ Cost(row, n + 1)[r] = Rounded(y, 1, 1)
  BY <1>2 DEF Cost
<1>4. NoMore(x, y) /\ x \in Mixed /\ y \in Mixed /\ Proper(x)
  <2>1. NoMore(Power(row.cost[r], f, n - 1), Power(row.cost[r], f, (n - 1) + 1))
    BY <1>1, PowerGrows
  <2> QED
    BY <1>1, <2>1, PowerProper
<1>5. y = Times(x, f)
  <2>1. Power(row.cost[r], f, (n - 1) + 1) = Times(Power(row.cost[r], f, n - 1), f)
    BY <1>1, PowerStep
  <2> QED
    BY <1>1, <2>1
<1>6. ASSUME 10 <= row.cost[r]
      PROVE  10 <= x.whole
  <2>1. row.cost[r] <= x.whole
    BY <1>1, PowerAtLeast
  <2>2. x.whole \in Nat
    BY <1>4, NumeratorType
  <2> HIDE DEF x
  <2> QED
    BY <1>1, <1>6, <2>1, <2>2
<1> HIDE DEF x, y, f
<1>7. Rounded(x, 1, 1) <= Rounded(y, 1, 1)
  BY <1>1, <1>4, RoundedOrder
<1>8. 10 <= row.cost[r] => Rounded(x, 1, 1) < Rounded(y, 1, 1)
  BY <1>1, <1>4, <1>5, <1>6, RoundedMore
<1> QED
  BY <1>3, <1>7, <1>8

(* A level takes no less time than the one before, rounded to seconds.     *)
LEMMA TimeGrows ==
  ASSUME NEW row, NEW n \in Nat \ {0}, SoundRow(row), NEW num \in Nat,
         NEW den \in Positive
  PROVE  /\ Rounded(LevelTime(row, n), num, den) \in Nat
         /\ Rounded(LevelTime(row, n), num, den)
              <= Rounded(LevelTime(row, n + 1), num, den)
<1> DEFINE f == row.timeFactor
           x == Power(row.baseTime, f, n - 1)
           y == Power(row.baseTime, f, n)
<1>1. /\ row.baseTime \in Nat /\ f \in Factor
      /\ f[2] <= f[1] /\ n - 1 \in Nat /\ n \in Nat /\ (n - 1) + 1 = n
  BY DEF SoundRow, Factor, Positive
<1>2. Greater(n - 1, 0) = n - 1 /\ Greater((n + 1) - 1, 0) = n
  BY <1>1 DEF Greater
<1>3. LevelTime(row, n) = x /\ LevelTime(row, n + 1) = y
  BY <1>2 DEF LevelTime
<1>4. NoMore(x, y) /\ x \in Mixed /\ y \in Mixed
  <2>1. NoMore(Power(row.baseTime, f, n - 1), Power(row.baseTime, f, (n - 1) + 1))
    BY <1>1, PowerGrows
  <2> QED
    BY <1>1, <2>1, PowerProper
<1> HIDE DEF x, y
<1> QED
  BY <1>3, <1>4, RoundedOrder, RoundedType
-----------------------------------------------------------------------------
(* Types, and what follows from them alone.                                *)

Types ==
  /\ site \in Sites
  /\ level \in [BuildingKeys -> Nat]
  /\ running \in [Mines -> 0 .. Steps]
  /\ tech \in Nat

(* Universes have positive speeds: the code's minimum of 1 changes nothing.*)
LEMMA SiteType ==
  ASSUME Types
  PROVE  /\ site.speedBuild \in Positive /\ site.speedResearch \in Positive
         /\ site.position \in Positions /\ site.position \in Positive
         /\ site.settings \subseteq 0 .. Steps
         /\ Greater(site.speedBuild, 1) = site.speedBuild
         /\ Greater(site.speedResearch, 1) = site.speedResearch
<1>1. site \in Site /\ Positions \subseteq Nat \ {0}
  BY SitesAssumption DEF Types
<1>2. /\ site.speedBuild \in Nat \ {0} /\ site.speedResearch \in Nat \ {0}
      /\ site.position \in Positions
  BY <1>1 DEF Site
<1>3. site.settings \in SUBSET (0 .. Steps)
  BY <1>1, Zenon DEF Site
<1>4. site.position \in Nat \ {0}
  BY <1>1, <1>2
<1>5. \A n \in Nat \ {0} : Greater(n, 1) = n
  BY DEF Greater
<1> QED
  BY <1>2, <1>3, <1>4, <1>5 DEF Positive

\* The divisors of the durations of ships and of research.
ShipSpeed(lv) ==
  site.speedBuild
    * Greater(100 + 5 * lv["shipyard"] + 2 * lv["robotics_factory"], 100)
ResearchSpeed(lv) == site.speedResearch * (100 + 5 * lv["research_lab"])

(* Divisors are positive.                                                  *)
LEMMA SpeedTypes ==
  ASSUME Types, NEW lv \in [BuildingKeys -> Nat]
  PROVE  ShipSpeed(lv) \in Positive /\ ResearchSpeed(lv) \in Positive
<1>1. /\ lv["shipyard"] \in Nat /\ lv["robotics_factory"] \in Nat
      /\ lv["research_lab"] \in Nat
  BY DEF BuildingKeys, Installations
<1>2. /\ Greater(100 + 5 * lv["shipyard"] + 2 * lv["robotics_factory"], 100) \in Positive
      /\ 100 + 5 * lv["research_lab"] \in Positive
  BY <1>1 DEF Greater, Positive
<1>3. site.speedBuild \in Positive /\ site.speedResearch \in Positive
  BY SiteType
<1> QED
  BY <1>2, <1>3, ProductType DEF ShipSpeed, ResearchSpeed, Positive

(* The duration of an order of ships, with its divisor.                    *)
LEMMA ShipTimeIs ==
  ASSUME Types, NEW lv \in [BuildingKeys -> Nat], NEW k \in ShipKeys,
         NEW qty \in Nat
  PROVE  /\ ShipTime(k, qty, site.speedBuild, lv["shipyard"], lv["robotics_factory"])
              = Greater(5, Rounded(Whole(BaseShips[k].baseTime * qty), 100, ShipSpeed(lv)))
         /\ Rounded(Whole(BaseShips[k].baseTime * qty), 100, ShipSpeed(lv)) \in Nat
<1>1. BaseShips[k].baseTime * qty \in Nat
  BY ShipRows, ProductType
<1>2. Whole(BaseShips[k].baseTime * qty) \in Mixed
  BY <1>1, WholeProper DEF Proper
<1> QED
  BY <1>2, SiteType, SpeedTypes, RoundedType DEF ShipTime, ShipSpeed

(* The duration of a research, with its divisor.                           *)
LEMMA ResearchTimeIs ==
  ASSUME Types, NEW lv \in [BuildingKeys -> Nat], NEW k \in ResearchKeys,
         NEW n \in Nat \ {0}
  PROVE  /\ ResearchTime(k, n, site.speedResearch, lv["research_lab"])
              = Greater(10, Rounded(LevelTime(BaseResearch[k], n), 100, ResearchSpeed(lv)))
         /\ Rounded(LevelTime(BaseResearch[k], n), 100, ResearchSpeed(lv)) \in Nat
BY SiteType, SpeedTypes, TimeGrows, ResearchRows
   DEF ResearchTime, ResearchSpeed

(* The duration of a construction.                                         *)
LEMMA BuildingTimeIs ==
  ASSUME Types, NEW k \in BuildingKeys, NEW n \in Nat \ {0}
  PROVE  /\ BuildingTime(k, n, site.speedBuild)
              = Greater(10, Rounded(LevelTime(BaseBuildings[k], n), 1, site.speedBuild))
         /\ Rounded(LevelTime(BaseBuildings[k], n), 1, site.speedBuild) \in Nat
BY SiteType, TimeGrows, BuildingRows DEF BuildingTime

(* What the tables and formulas give follows from the types.               *)
LEMMA TypesSuffice ==
  ASSUME Types
  PROVE  TypeOK
<1>1. level \in [BuildingKeys -> Nat] /\ tech + 1 \in Nat \ {0}
  BY DEF Types
<1>2. SampleShip(level) >= 5
  <2>1. "small_cargo" \in ShipKeys
    BY DEF ShipKeys, BaseShips
  <2> QED
    BY <1>1, <2>1, ShipTimeIs DEF SampleShip, Greater
<1>3. SampleResearch(level) >= 10
  <2>1. "energy" \in ResearchKeys
    BY DEF ResearchKeys, BaseResearch
  <2> QED
    BY <1>1, <2>1, ResearchTimeIs DEF SampleResearch, Greater
<1>4. ASSUME NEW k \in BuildingKeys
      PROVE  /\ BuildingOffer(k, level[k] + 1).time >= 10
             /\ BuildingOffer(k, level[k] + 1).cost \in [Resources -> Nat]
  <2>1. level[k] + 1 \in Nat \ {0}
    BY <1>1
  <2>2. BuildingTime(k, level[k] + 1, site.speedBuild) >= 10
    BY <2>1, BuildingTimeIs DEF Greater
  <2>3. BuildingCost(k, level[k] + 1) \in [Resources -> Nat]
    BY <2>1, CostType, BuildingRows DEF BuildingCost
  <2> QED
    BY <2>2, <2>3 DEF BuildingOffer
<1> QED
  BY <1>2, <1>3, <1>4 DEF Types, TypeOK

(* Types are inductive.                                                    *)
LEMMA TypesKept ==
  /\ Init => Types
  /\ Types /\ [Next]_vars => Types'
<1>1. Init => Types
  BY StepsAssumption DEF Init, Types, StarterLevel
<1>2. ASSUME Types, NEW k \in BuildingKeys, StartBuilding(k) PROVE Types'
  BY <1>2 DEF Types, StartBuilding
<1>3. ASSUME Types, StartResearch PROVE Types'
  BY <1>3 DEF Types, StartResearch
<1>4. ASSUME Types, NEW k \in Mines, UpdateProductionFactor(k) PROVE Types'
  BY <1>4, SiteType DEF Types, UpdateProductionFactor
<1>5. ASSUME Types, UNCHANGED vars PROVE Types'
  BY <1>5 DEF Types, vars
<1> QED
  BY <1>1, <1>2, <1>3, <1>4, <1>5 DEF Next

(* Types hold in every behaviour.                                          *)
LEMMA TypesHold == Spec => []Types
BY TypesKept, PTL DEF Spec

(* Whatever the sites and however far they develop, prices are natural     *)
(* numbers and durations have their minima.                                *)
THEOREM GrowthTypes == Spec => []TypeOK
<1>1. Types => TypeOK
  BY TypesSuffice
<1> QED
  BY <1>1, TypesHold, PTL
-----------------------------------------------------------------------------
(* Levels get dearer.                                                      *)

(* A minimum keeps the order.                                              *)
LEMMA GreaterOrder ==
  ASSUME NEW a \in Nat, NEW b \in Nat, NEW c \in Nat, a <= b
  PROVE  Greater(c, a) <= Greater(c, b)
BY DEF Greater

(* The next level of a building costs more metal and takes no less time.   *)
LEMMA BuildingsGetDearer ==
  ASSUME Types, NEW k \in BuildingKeys, NEW n \in Nat \ {0}
  PROVE  /\ HasEnough(BuildingOffer(k, n + 1).cost, BuildingOffer(k, n).cost)
         /\ BuildingOffer(k, n).cost["metal"] < BuildingOffer(k, n + 1).cost["metal"]
         /\ BuildingOffer(k, n).time <= BuildingOffer(k, n + 1).time
<1>1. /\ BuildingOffer(k, n).cost = Cost(BaseBuildings[k], n)
      /\ BuildingOffer(k, n + 1).cost = Cost(BaseBuildings[k], n + 1)
      /\ BuildingOffer(k, n).time = BuildingTime(k, n, site.speedBuild)
      /\ BuildingOffer(k, n + 1).time = BuildingTime(k, n + 1, site.speedBuild)
  BY DEF BuildingOffer, BuildingCost
<1>2. n + 1 \in Nat \ {0} /\ n + 1 \in Nat /\ n \in Nat
  OBVIOUS
<1>3. ASSUME NEW r \in Resources
      PROVE  Cost(BaseBuildings[k], n + 1)[r] >= Cost(BaseBuildings[k], n)[r]
  <2>1. Cost(BaseBuildings[k], n)[r] <= Cost(BaseBuildings[k], n + 1)[r]
    BY BuildingRows, CostGrows
  <2>2. /\ Cost(BaseBuildings[k], n)[r] \in Nat
        /\ Cost(BaseBuildings[k], n + 1)[r] \in Nat
    BY <1>2, BuildingRows, CostType
  <2> QED
    BY <2>1, <2>2
<1>4. "metal" \in Resources
  BY DEF Resources
<1>5. Cost(BaseBuildings[k], n)["metal"] < Cost(BaseBuildings[k], n + 1)["metal"]
  BY <1>4, BuildingRows, CostGrows
<1>6. BuildingTime(k, n, site.speedBuild) <= BuildingTime(k, n + 1, site.speedBuild)
  BY <1>2, BuildingTimeIs, TimeGrows, BuildingRows, SiteType, GreaterOrder
<1> QED
  BY <1>1, <1>3, <1>5, <1>6 DEF HasEnough

(* The next level of a research costs more and takes no less time.         *)
LEMMA ResearchGetsDearer ==
  ASSUME Types, NEW k \in ResearchKeys, NEW n \in Nat \ {0}
  PROVE  /\ HasEnough(ResearchOffer(k, n + 1).cost, ResearchOffer(k, n).cost)
         /\ ResearchOffer(k, n + 1).cost # ResearchOffer(k, n).cost
         /\ ResearchOffer(k, n).time <= ResearchOffer(k, n + 1).time
<1>1. /\ ResearchOffer(k, n).cost = Cost(BaseResearch[k], n)
      /\ ResearchOffer(k, n + 1).cost = Cost(BaseResearch[k], n + 1)
      /\ ResearchOffer(k, n).time
           = ResearchTime(k, n, site.speedResearch, level["research_lab"])
      /\ ResearchOffer(k, n + 1).time
           = ResearchTime(k, n + 1, site.speedResearch, level["research_lab"])
  BY DEF ResearchOffer, ResearchCost
<1>2. n + 1 \in Nat \ {0} /\ n + 1 \in Nat /\ n \in Nat
  OBVIOUS
<1>3. ASSUME NEW r \in Resources
      PROVE  /\ Cost(BaseResearch[k], n + 1)[r] >= Cost(BaseResearch[k], n)[r]
             /\ 10 <= BaseResearch[k].cost[r] =>
                  Cost(BaseResearch[k], n + 1)[r] # Cost(BaseResearch[k], n)[r]
  <2>1. /\ Cost(BaseResearch[k], n)[r] <= Cost(BaseResearch[k], n + 1)[r]
        /\ 10 <= BaseResearch[k].cost[r] =>
             Cost(BaseResearch[k], n)[r] < Cost(BaseResearch[k], n + 1)[r]
    BY ResearchRows, CostGrows
  <2>2. /\ Cost(BaseResearch[k], n)[r] \in Nat
        /\ Cost(BaseResearch[k], n + 1)[r] \in Nat
    BY <1>2, ResearchRows, CostType
  <2> QED
    BY <2>1, <2>2
<1>4. Cost(BaseResearch[k], n + 1) # Cost(BaseResearch[k], n)
  <2>1. "metal" \in Resources /\ "crystal" \in Resources
    BY DEF Resources
  <2>2. PICK r \in Resources : 10 <= BaseResearch[k].cost[r]
    BY <2>1, ResearchRows
  <2> QED
    BY <1>3, <2>2
<1>5. ResearchTime(k, n, site.speedResearch, level["research_lab"])
        <= ResearchTime(k, n + 1, site.speedResearch, level["research_lab"])
  <2>1. level \in [BuildingKeys -> Nat] /\ 100 \in Nat /\ 10 \in Nat
    BY DEF Types
  <2> DEFINE t(m) == Rounded(LevelTime(BaseResearch[k], m), 100, ResearchSpeed(level))
  <2>2. t(n) \in Nat /\ t(n + 1) \in Nat /\ t(n) <= t(n + 1)
    BY <1>2, <2>1, TimeGrows, ResearchRows, SpeedTypes
  <2>3. /\ ResearchTime(k, n, site.speedResearch, level["research_lab"]) = Greater(10, t(n))
        /\ ResearchTime(k, n + 1, site.speedResearch, level["research_lab"]) = Greater(10, t(n + 1))
    BY <1>2, <2>1, ResearchTimeIs
  <2> HIDE DEF t
  <2> QED
    BY <2>1, <2>2, <2>3, GreaterOrder
<1> QED
  BY <1>1, <1>3, <1>4, <1>5 DEF HasEnough

(* Rounding a sum is at most one more than rounding its parts.             *)
LEMMA RoundedSum ==
  ASSUME NEW a \in Nat, NEW b \in Nat, NEW num \in Nat, NEW den \in Positive
  PROVE  /\ Rounded(Whole(a), num, den) <= Rounded(Whole(a + b), num, den)
         /\ Rounded(Whole(a + b), num, den)
              <= Rounded(Whole(a), num, den) + Rounded(Whole(b), num, den) + 1
<1> DEFINE R(n) == (2 * num * n + den) \div (2 * den)
<1>1. ASSUME NEW n \in Nat PROVE Rounded(Whole(n), num, den) = R(n)
  <2>1. (2 * num * 0) \div 1 = 0
    OBVIOUS
  <2> QED
    BY <2>1 DEF Rounded, Whole
<1>2. den \in Nat /\ den # 0 /\ 2 * den \in Positive /\ 2 * den \in Nat
  BY DEF Positive
<1> DEFINE s == 2 * num * a
           t == 2 * num * b
           c == 2 * den
<1>3. s \in Nat /\ t \in Nat /\ 2 * num * (a + b) = s + t
  BY ProductType
<1>4. R(a) = (s + den) \div c /\ R(b) = (t + den) \div c
      /\ R(a + b) = (s + t + den) \div c
  BY <1>3
<1> HIDE DEF s, t
<1>5. R(a) \in Nat /\ R(b) \in Nat /\ R(a + b) \in Nat
  BY <1>2, <1>3, <1>4, Division
<1>6. R(a) <= R(a + b)
  <2> s + den \in Nat /\ s + t + den \in Nat /\ s + den <= s + t + den
    BY <1>2, <1>3
  <2> QED
    BY <1>2, <1>4, DivisionOrder
<1>7. R(a + b) <= R(a) + R(b) + 1
  <2> DEFINE p == R(a)
             q == R(b)
  <2>1. ~((p + 1) * c <= s + den) /\ ~((q + 1) * c <= t + den)
    <3> /\ s + den \in Nat /\ t + den \in Nat /\ p + 1 \in Nat /\ q + 1 \in Nat
        /\ ~(p + 1 <= p) /\ ~(q + 1 <= q)
      BY <1>2, <1>3, <1>5
    <3> HIDE DEF p, q
    <3>1. p = (s + den) \div c /\ q = (t + den) \div c
      BY <1>4 DEF p, q
    <3> QED
      BY <1>2, <3>1, DivisionOrder
  <2>2. ~((p + q + 2) * c <= s + t + den)
    <3>1. (p + q + 2) * c = (p + 1) * c + (q + 1) * c
          /\ (p + 1) * c \in Nat /\ (q + 1) * c \in Nat
      <4> p \in Nat /\ q \in Nat /\ c \in Nat
        BY <1>2, <1>5
      <4> HIDE DEF p, q, c
      <4> QED
        BY ProductType
    <3> HIDE DEF p, q, c
    <3> QED
      BY <1>2, <1>3, <2>1, <3>1
  <2>3. ~(p + q + 2 <= R(a + b))
    <3> p + q + 2 \in Nat /\ s + t + den \in Nat
      BY <1>2, <1>3, <1>5
    <3> HIDE DEF p, q
    <3> QED
      BY <1>2, <1>4, <2>2, DivisionOrder
  <2> HIDE DEF R
  <2> QED
    BY <1>5, <2>3
<1> HIDE DEF R
<1> QED
  BY <1>1, <1>6, <1>7

(* A ship more costs and takes more, within its own time and a second.     *)
LEMMA ShipsGetDearer ==
  ASSUME Types, NEW k \in ShipKeys, NEW qty \in Nat \ {0}
  PROVE  /\ HasEnough(ShipOffer(k, qty + 1).cost, ShipOffer(k, qty).cost)
         /\ ShipOffer(k, qty).time <= ShipOffer(k, qty + 1).time
         /\ ShipOffer(k, qty + 1).time <= ShipOffer(k, qty).time + ShipOffer(k, 1).time + 1
<1> DEFINE b == BaseShips[k].baseTime
           T(q) == Rounded(Whole(b * q), 100, ShipSpeed(level))
<1>1. /\ level \in [BuildingKeys -> Nat] /\ b \in Nat
      /\ \A r \in Resources : BaseShips[k].cost[r] \in Nat
  BY ShipRows DEF Types
<1>2. \A q \in Nat : ShipOffer(k, q).time = Greater(5, T(q)) /\ T(q) \in Nat
  BY <1>1, ShipTimeIs DEF ShipOffer
<1>3. HasEnough(ShipOffer(k, qty + 1).cost, ShipOffer(k, qty).cost)
  <2> SUFFICES ASSUME NEW r \in Resources
               PROVE  BaseShips[k].cost[r] * (qty + 1) >= BaseShips[k].cost[r] * qty
    BY DEF HasEnough, ShipOffer, ShipCost
  <2>1. BaseShips[k].cost[r] \in Nat
    BY <1>1
  <2> QED
    BY <2>1
<1>4. b * qty \in Nat /\ b * (qty + 1) = b * qty + b * 1 /\ b * 1 \in Nat
  BY <1>1, ProductType
<1>5. ShipSpeed(level) \in Positive /\ 100 \in Nat
  BY <1>1, SpeedTypes
<1>6. T(qty) <= T(qty + 1) /\ T(qty + 1) <= T(qty) + T(1) + 1
  BY <1>4, <1>5, RoundedSum
<1>7. qty \in Nat /\ qty + 1 \in Nat /\ 1 \in Nat
  OBVIOUS
<1> HIDE DEF T
<1>8. /\ Greater(5, T(qty)) <= Greater(5, T(qty + 1))
      /\ Greater(5, T(qty + 1)) <= Greater(5, T(qty)) + Greater(5, T(1)) + 1
  <2>1. T(qty) \in Nat /\ T(qty + 1) \in Nat /\ T(1) \in Nat
    BY <1>2, <1>7
  <2> QED
    BY <1>6, <2>1 DEF Greater
<1> QED
  BY <1>2, <1>3, <1>7, <1>8

(* At every level of every planet, in every universe, the next level costs *)
(* more and takes no less time, the next research likewise; and a ship     *)
(* more neither shortens an order of ships nor lengthens it by more than   *)
(* its own time and a second.                                              *)
THEOREM Dearer == Spec => []LevelsGetDearer
<1>1. ASSUME Types PROVE LevelsGetDearer
  <2>1. ASSUME NEW k \in BuildingKeys, NEW n \in Shown(k) \ {level[k], 0, 1}
        PROVE  /\ HasEnough(BuildingOffer(k, n).cost, BuildingOffer(k, n - 1).cost)
               /\ BuildingOffer(k, n - 1).cost["metal"] < BuildingOffer(k, n).cost["metal"]
               /\ BuildingOffer(k, n - 1).time <= BuildingOffer(k, n).time
    <3>1. level[k] \in Nat /\ FutureLevels \in Nat
      BY <1>1, SitesAssumption DEF Types
    <3>2. n - 1 \in Nat \ {0} /\ (n - 1) + 1 = n
      BY <3>1 DEF Shown
    <3> QED
      BY <1>1, <3>2, BuildingsGetDearer
  <2>2. tech + 1 \in Nat \ {0} /\ (tech + 1) + 1 = tech + 2
    BY <1>1 DEF Types
  <2>3. ASSUME NEW k \in ResearchKeys
        PROVE  /\ HasEnough(ResearchOffer(k, tech + 2).cost, ResearchOffer(k, tech + 1).cost)
               /\ ResearchOffer(k, tech + 2).cost # ResearchOffer(k, tech + 1).cost
               /\ ResearchOffer(k, tech + 1).time <= ResearchOffer(k, tech + 2).time
    BY <1>1, <2>2, ResearchGetsDearer
  <2>4. \A qty \in 1 .. FutureLevels : qty \in Nat \ {0}
    BY SitesAssumption
  <2> QED
    BY <1>1, <2>1, <2>3, <2>4, ShipsGetDearer DEF LevelsGetDearer
<1> QED
  BY <1>1, TypesHold, PTL
-----------------------------------------------------------------------------
(* Storages.                                                               *)

(* A capacity grows by 1.6 at most, up to the next whole number.           *)
LEMMA CapacityStep ==
  ASSUME NEW l \in Nat
  PROVE  /\ StorageCapacity(l) \in Nat
         /\ 5 * StorageCapacity(l + 1) < 8 * (StorageCapacity(l) + 1)
<1> DEFINE f == <<8, 5>>
           x == Power(10000, f, l)
           y == Power(10000, f, l + 1)
<1>1. f \in Factor /\ f[1] = 8 /\ f[2] = 5 /\ 10000 \in Nat /\ l + 1 \in Nat
  BY DEF Factor, Positive
<1>2. Greater(l, 0) = l /\ Greater(l + 1, 0) = l + 1
  BY DEF Greater
<1>3. StorageCapacity(l) = x.whole /\ StorageCapacity(l + 1) = y.whole
  BY <1>2 DEF StorageCapacity
<1>4. x \in Mixed /\ Proper(x) /\ y \in Mixed /\ y = Times(x, f)
  BY <1>1, PowerProper, PowerStep
<1>5. y.whole * f[2] < f[1] * (x.whole + 1)
  BY <1>1, <1>4, TimesBounds
<1>6. x.whole \in Nat /\ y.whole \in Nat
  BY <1>4, NumeratorType
<1> HIDE DEF x, y
<1> QED
  BY <1>1, <1>3, <1>5, <1>6

(* Eleven levels are not enough for two million.                           *)
LEMMA CapacityBound ==
  ASSUME NEW l \in 0 .. 11
  PROVE  StorageCapacity(l) < 2000000
<1>1. StorageCapacity(0) = 10000
  <2>1. Greater(0, 0) = 0 /\ 0 \in Nat
    BY DEF Greater
  <2> QED
    BY <2>1, PowerStep DEF StorageCapacity, Whole
<1>2. StorageCapacity(1) <= 16001
  BY <1>1, CapacityStep
<1>3. StorageCapacity(2) <= 25603
  BY <1>2, CapacityStep
<1>4. StorageCapacity(3) <= 40966
  BY <1>3, CapacityStep
<1>5. StorageCapacity(4) <= 65547
  BY <1>4, CapacityStep
<1>6. StorageCapacity(5) <= 104876
  BY <1>5, CapacityStep
<1>7. StorageCapacity(6) <= 167803
  BY <1>6, CapacityStep
<1>8. StorageCapacity(7) <= 268486
  BY <1>7, CapacityStep
<1>9. StorageCapacity(8) <= 429579
  BY <1>8, CapacityStep
<1>10. StorageCapacity(9) <= 687327
  BY <1>9, CapacityStep
<1>11. StorageCapacity(10) <= 1099724
  BY <1>10, CapacityStep
<1>12. StorageCapacity(11) <= 1759559
  BY <1>11, CapacityStep
<1>13. \A m \in 0 .. 11 : StorageCapacity(m) \in Nat
  BY CapacityStep
<1> QED
  BY <1>1, <1>2, <1>3, <1>4, <1>5, <1>6, <1>7, <1>8, <1>9, <1>10, <1>11,
     <1>12, <1>13

(* A storage costs twice what it did a level before.                       *)
LEMMA DoublingStep ==
  ASSUME NEW n \in Nat
  PROVE  /\ Power(1000, <<2, 1>>, n).whole \in Nat
         /\ 2 * Power(1000, <<2, 1>>, n).whole <= Power(1000, <<2, 1>>, n + 1).whole
<1> DEFINE f == <<2, 1>>
           x == Power(1000, f, n)
           y == Power(1000, f, n + 1)
<1>1. f \in Factor /\ f[1] = 2 /\ f[2] = 1 /\ 1000 \in Nat
  BY DEF Factor, Positive
<1>2. x \in Mixed /\ y = Times(x, f)
  BY <1>1, PowerProper, PowerStep
<1>3. x.whole \in Nat /\ y.whole \in Nat /\ (x.whole * f[1]) \div f[2] <= y.whole
  BY <1>1, <1>2, NumeratorType, TimesBounds
<1> HIDE DEF x, y
<1>4. (x.whole * f[1]) \div f[2] = 2 * x.whole
  BY <1>1, <1>3
<1> QED
  BY <1>3, <1>4 DEF x, y

(* The twelfth level costs more than two million.                          *)
LEMMA LevelTwelve ==
  ASSUME NEW k \in Storages
  PROVE  2048000 <= BuildingCost(k, 12)["metal"]
<1> DEFINE w(n) == Power(1000, <<2, 1>>, n).whole
<1>1. w(0) = 1000
  BY PowerStep DEF Whole
<1>2. \A n \in Nat : w(n) \in Nat /\ 2 * w(n) <= w(n + 1)
  BY DoublingStep
<1> HIDE DEF w
<1>3. 8000 <= w(3)
  BY <1>1, <1>2
<1>4. 64000 <= w(6)
  BY <1>2, <1>3
<1>5. 512000 <= w(9)
  BY <1>2, <1>4
<1>6. 2048000 <= w(11)
  BY <1>2, <1>5
<1>7. BuildingCost(k, 12)["metal"] = Rounded(Power(1000, <<2, 1>>, 11), 1, 1)
  <2>1. /\ BaseBuildings[k].cost["metal"] = 1000
        /\ BaseBuildings[k].costFactor = <<2, 1>>
    BY DEF Storages, BaseBuildings, Row, Amount
  <2>2. Greater(12 - 1, 0) = 11 /\ "metal" \in Resources
    BY DEF Greater, Resources
  <2> QED
    BY <2>1, <2>2 DEF BuildingCost, Cost
<1>8. w(11) <= Rounded(Power(1000, <<2, 1>>, 11), 1, 1)
      /\ Rounded(Power(1000, <<2, 1>>, 11), 1, 1) \in Nat
  <2>1. <<2, 1>> \in Factor /\ 1000 \in Nat /\ 11 \in Nat
    BY DEF Factor, Positive
  <2>2. Proper(Power(1000, <<2, 1>>, 11))
    BY <2>1, PowerProper
  <2> QED
    BY <2>2, RoundedBounds DEF w
<1> QED
  BY <1>2, <1>6, <1>7, <1>8

(* A storage level costs twice the one before, a capacity grows by 1.6     *)
(* only, and the balance, which applyProductionTx cuts off there, never    *)
(* shows more.                                                             *)
StoragesStop == \A k \in Storages : level[k] <= 11

(* Nobody gets a storage beyond level 11: to pay for level 12 takes more   *)
(* metal than a metal storage of level 11 holds, and the balance, which    *)
(* applyProductionTx cuts off there, never shows more.                     *)
THEOREM StoragesEnd == Spec => []StoragesStop
<1>1. Init => StoragesStop
  BY DEF Init, StoragesStop, StarterLevel, Storages, BuildingKeys
<1>2. ASSUME Types, StoragesStop, [Next]_vars PROVE StoragesStop'
  <2>1. CASE UNCHANGED level
    BY <1>2, <2>1 DEF StoragesStop
  <2>2. ASSUME NEW k \in BuildingKeys, StartBuilding(k) PROVE StoragesStop'
    <3>1. /\ level' = [level EXCEPT ![k] = @ + 1]
          /\ Affordable(BuildingOffer(k, level[k] + 1).cost)
      BY <2>2 DEF StartBuilding
    <3>2. level \in [BuildingKeys -> Nat] /\ Storages \subseteq BuildingKeys
      BY <1>2 DEF Types, BuildingKeys
    <3>3. k \in Storages => level[k] # 11
      <4> SUFFICES ASSUME k \in Storages, level[k] = 11 PROVE FALSE
        OBVIOUS
      <4>1. StorageCapacities(level)["metal"] >= BuildingCost(k, level[k] + 1)["metal"]
        BY <3>1 DEF Affordable, HasEnough, BuildingOffer, Resources
      <4>2. level[k] + 1 = 12
        OBVIOUS
      <4>3. 2048000 <= BuildingCost(k, level[k] + 1)["metal"]
        BY <4>2, LevelTwelve
      <4>4. level["metal_storage"] \in 0 .. 11
        BY <1>2, <3>2 DEF StoragesStop, Storages
      <4>5. /\ StorageCapacities(level)["metal"] = StorageCapacity(level["metal_storage"])
            /\ StorageCapacity(level["metal_storage"]) < 2000000
            /\ StorageCapacity(level["metal_storage"]) \in Nat
        BY <4>4, CapacityBound, CapacityStep DEF StorageCapacities, Amount
      <4>6. BuildingCost(k, level[k] + 1)["metal"] \in Nat
        BY <3>2, BuildingRows, CostType DEF BuildingCost, Resources
      <4> QED
        BY <4>1, <4>3, <4>5, <4>6
    <3> QED
      BY <1>2, <3>1, <3>2, <3>3 DEF StoragesStop
  <2> QED
    BY <1>2, <2>1, <2>2 DEF Next, vars, StartResearch, UpdateProductionFactor
<1> QED
  BY <1>1, <1>2, TypesHold, PTL DEF Spec

-----------------------------------------------------------------------------
(* The order of fractions.                                                 *)

\* Four numbers are two fractions; the first is no more than the second.
Pairs == Nat \X Positive \X Nat \X Positive
Crosses(q) == q[1] * q[4] <= q[3] * q[2]

\* One step of the comparison, with the comparison of the remainders.
Compared(q, rest) ==
  LET a == q[1] \div q[2]
      b == q[3] \div q[4]
  IN  IF a # b THEN a < b
      ELSE IF q[1] % q[2] = 0 THEN TRUE
      ELSE IF q[3] % q[4] = 0 THEN FALSE
      ELSE rest
Remainders(q) == <<q[4], q[3] % q[4], q[2], q[1] % q[2]>>

(* Quotients decide, and if they are equal the inverted remainders do.     *)
LEMMA ComparisonStep ==
  ASSUME NEW a \in Nat, NEW b \in Positive, NEW c \in Nat, NEW d \in Positive
  PROVE  /\ a \div b # c \div d => (a * d <= c * b <=> a \div b < c \div d)
         /\ a \div b = c \div d => (a * d <= c * b <=> d * (a % b) <= b * (c % d))
<1> DEFINE k == a \div b
           r == a % b
           l == c \div d
           s == c % d
<1>1. /\ b \in Nat /\ b # 0 /\ d \in Nat /\ d # 0
      /\ k \in Nat /\ r \in Nat /\ r < b /\ a = k * b + r
      /\ l \in Nat /\ s \in Nat /\ s < d /\ c = l * d + s
  BY Division DEF Positive
<1> HIDE DEF k, r, l, s
<1>2. /\ a * d = k * (b * d) + r * d /\ c * b = l * (b * d) + s * b
      /\ r * d = d * r /\ s * b = b * s
  BY <1>1
<1>3. /\ b * d \in Nat /\ r * d \in Nat /\ s * b \in Nat
      /\ r * d < b * d /\ s * b < b * d
      /\ k * (b * d) \in Nat /\ l * (b * d) \in Nat
  <2>1. r * d < b * d /\ s * b < d * b /\ d * b = b * d
    BY <1>1, ProductOrder
  <2> QED
    BY <1>1, <2>1, ProductType
<1>4. ASSUME k = l PROVE a * d <= c * b <=> d * r <= b * s
  BY <1>2, <1>3, <1>4
<1>5. ASSUME k < l PROVE a * d < c * b
  <2>1. (k + 1) * (b * d) <= l * (b * d) /\ (k + 1) * (b * d) = k * (b * d) + b * d
    BY <1>1, <1>3, <1>5, ProductOrder
  <2> QED
    BY <1>2, <1>3, <2>1
<1>6. ASSUME l < k PROVE c * b < a * d
  <2>1. (l + 1) * (b * d) <= k * (b * d) /\ (l + 1) * (b * d) = l * (b * d) + b * d
    BY <1>1, <1>3, <1>6, ProductOrder
  <2> QED
    BY <1>2, <1>3, <2>1
<1>7. a * d \in Nat /\ c * b \in Nat
  BY <1>1, ProductType
<1>8. k # l => (a * d <= c * b <=> k < l)
  BY <1>1, <1>5, <1>6, <1>7
<1> QED
  BY <1>4, <1>8 DEF k, l, r, s
\* The recursion of AtMost.
Compares(g) == g = [q \in Pairs |-> Compared(q, g[Remainders(q)])]

(* AtMost is the value of that recursion.                                  *)
LEMMA AtMostCompares ==
  ASSUME NEW x, NEW y
  PROVE  AtMost(x, y) = (CHOOSE g : Compares(g))[<<x.num, x.den, y.num, y.den>>]
BY DEF AtMost, Compares, Compared, Remainders, Pairs, Positive

(* The cross products satisfy the recursion.                               *)
LEMMA CrossesCompared ==
  ASSUME NEW q \in Pairs, NEW rest,
         Remainders(q) \in Pairs => rest = Crosses(Remainders(q))
  PROVE  Crosses(q) = Compared(q, rest)
<1> DEFINE a == q[1]
           b == q[2]
           c == q[3]
           d == q[4]
<1>1. a \in Nat /\ b \in Positive /\ c \in Nat /\ d \in Positive
  BY DEF Pairs
<1>2. /\ a % b \in Nat /\ c % d \in Nat /\ a \div b \in Nat /\ c \div d \in Nat
      /\ b \in Nat /\ b # 0 /\ d \in Nat /\ d # 0
  BY <1>1, Division DEF Positive
<1>3. Crosses(q) = (a * d <= c * b)
  BY DEF Crosses
<1>4. /\ a \div b # c \div d => (a * d <= c * b <=> a \div b < c \div d)
      /\ a \div b = c \div d => (a * d <= c * b <=> d * (a % b) <= b * (c % d))
  BY <1>1, ComparisonStep
<1>5. Remainders(q) = <<d, c % d, b, a % b>>
  BY DEF Remainders
<1>6. Remainders(q) \in Pairs <=> c % d # 0 /\ a % b # 0
  BY <1>2, <1>5 DEF Pairs, Positive
<1>7. Crosses(Remainders(q)) = (d * (a % b) <= b * (c % d))
  BY <1>5 DEF Crosses
<1>8. Compared(q, rest) = IF a \div b # c \div d THEN a \div b < c \div d
                          ELSE IF a % b = 0 THEN TRUE
                          ELSE IF c % d = 0 THEN FALSE
                          ELSE rest
  BY DEF Compared
<1> HIDE DEF a, b, c, d
<1>9. CASE a \div b # c \div d
  <2>1. Compared(q, rest) = (a \div b < c \div d)
    BY <1>8, <1>9, Zenon
  <2>2. (a * d <= c * b) = (a \div b < c \div d)
    BY <1>4, <1>9
  <2> QED
    BY <1>3, <2>1, <2>2, Zenon
<1>10. CASE a \div b = c \div d
  <2>1. Compared(q, rest) = IF a % b = 0 THEN TRUE ELSE IF c % d = 0 THEN FALSE ELSE rest
    BY <1>8, <1>10, Zenon
  <2>2. Crosses(q) = (d * (a % b) <= b * (c % d))
    <3>1. (a * d <= c * b) = (d * (a % b) <= b * (c % d))
      BY <1>4, <1>10
    <3> QED
      BY <1>3, <3>1, Zenon
  <2>3. CASE a % b = 0
    <3>1. (d * (a % b) <= b * (c % d)) = TRUE
      BY <1>2, <2>3, ProductType
    <3> QED
      BY <2>1, <2>2, <2>3, <3>1, Zenon
  <2>4. CASE a % b # 0 /\ c % d = 0
    <3>1. (d * (a % b) <= b * (c % d)) = FALSE
      BY <1>2, <2>4, ProductType
    <3> QED
      BY <2>1, <2>2, <2>4, <3>1, Zenon
  <2>5. CASE a % b # 0 /\ c % d # 0
    <3>1. rest = Crosses(Remainders(q))
      BY <1>6, <2>5
    <3> QED
      BY <1>7, <2>1, <2>2, <2>5, <3>1, Zenon
  <2> QED
    BY <2>3, <2>4, <2>5
<1> QED
  BY <1>9, <1>10

(* So the recursion has a solution.                                        *)
LEMMA ComparisonExists == \E g : Compares(g)
<1> DEFINE g == [q \in Pairs |-> Crosses(q)]
<1>1. ASSUME NEW q \in Pairs PROVE Crosses(q) = Compared(q, g[Remainders(q)])
  <2>1. Remainders(q) \in Pairs => g[Remainders(q)] = Crosses(Remainders(q))
    OBVIOUS
  <2> HIDE DEF g
  <2> QED
    BY <2>1, CrossesCompared, Zenon
<1>2. g = [q \in Pairs |-> Compared(q, g[Remainders(q)])]
  BY <1>1, Zenon
<1> QED
  BY <1>2, Zenon DEF Compares

(* Remainders shrink, so that there is only one such comparison.           *)
LEMMA ComparisonIs ==
  ASSUME NEW g, Compares(g), NEW q \in Pairs
  PROVE  g[q] = Crosses(q)
<1> DEFINE Good == {m \in Nat : \A p \in Pairs : p[2] + p[4] <= m => g[p] = Crosses(p)}
<1>1. 0 \in Good
  <2>1. \A p \in Pairs : ~(p[2] + p[4] <= 0)
    BY DEF Pairs, Positive
  <2> QED
    BY <2>1
<1>2. ASSUME NEW m \in Good PROVE m + 1 \in Good
  <2> SUFFICES ASSUME NEW p \in Pairs, p[2] + p[4] <= m + 1
               PROVE  g[p] = Crosses(p)
    BY <1>2
  <2>1. Remainders(p) \in Pairs => Remainders(p)[2] + Remainders(p)[4] <= m
    <3>1. p[1] \in Nat /\ p[2] \in Positive /\ p[3] \in Nat /\ p[4] \in Positive
      BY DEF Pairs
    <3>2. /\ p[1] % p[2] \in Nat /\ p[1] % p[2] < p[2]
          /\ p[3] % p[4] \in Nat /\ p[3] % p[4] < p[4]
      BY <3>1, Division
    <3>3. Remainders(p)[2] = p[3] % p[4] /\ Remainders(p)[4] = p[1] % p[2]
      BY DEF Remainders
    <3>4. m \in Nat /\ p[2] \in Nat /\ p[4] \in Nat
      BY <3>1 DEF Positive
    <3> QED
      BY <3>2, <3>3, <3>4
  <2>2. Remainders(p) \in Pairs => g[Remainders(p)] = Crosses(Remainders(p))
    BY <2>1
  <2>3. g[p] = Compared(p, g[Remainders(p)])
    BY Zenon DEF Compares
  <2> QED
    BY <2>2, <2>3, CrossesCompared, Zenon
<1>3. Good = Nat
  <2>1. Good \in SUBSET Nat
    OBVIOUS
  <2> HIDE DEF Good
  <2> QED
    BY <1>1, <1>2, <2>1, Induction
<1>4. q[2] + q[4] \in Nat
  BY DEF Pairs, Positive
<1>5. q[2] + q[4] \in Good /\ q[2] + q[4] <= q[2] + q[4]
  BY <1>3, <1>4
<1> QED
  BY <1>5

(* AtMost compares fractions.                                              *)
LEMMA AtMostIsOrder ==
  ASSUME NEW x, NEW y, x.num \in Nat, x.den \in Positive,
         y.num \in Nat, y.den \in Positive
  PROVE  AtMost(x, y) <=> x.num * y.den <= y.num * x.den
<1> DEFINE q == <<x.num, x.den, y.num, y.den>>
           g == CHOOSE h : Compares(h)
<1>1. Compares(g)
  BY ComparisonExists, Zenon
<1>2. q \in Pairs
  BY DEF Pairs
<1>3. AtMost(x, y) = g[q]
  BY AtMostCompares, Zenon
<1>4. Crosses(q) <=> x.num * y.den <= y.num * x.den
  BY DEF Crosses
<1> HIDE DEF q, g
<1>5. g[q] = Crosses(q)
  BY <1>1, <1>2, ComparisonIs, Zenon
<1> QED
  BY <1>3, <1>4, <1>5, Zenon
-----------------------------------------------------------------------------
(* Mines and the energy they share.                                        *)

LevelMap == [BuildingKeys -> Nat]
Settings == [Mines -> 0 .. Steps]

(* A higher level of a mine or a plant has a greater output.               *)
LEMMA OutputGrows ==
  ASSUME NEW n \in Nat
  PROVE  /\ Output(n) \in Nat
         /\ Output(n) + 10 <= Output(n + 1)
<1> DEFINE f == <<11, 10>>
           x == Power(100 * n, f, n)
           y == Power(100 * (n + 1), f, n)
           z == Power(100 * (n + 1), f, n + 1)
<1>1. f \in Factor /\ f[1] = 11 /\ f[2] = 10
  BY DEF Factor, Positive
<1>2. 100 * n \in Nat /\ 100 * (n + 1) \in Nat /\ 100 * n <= 100 * (n + 1)
      /\ n + 1 \in Nat
  OBVIOUS
<1>3. /\ Proper(x) /\ Proper(y) /\ Proper(z)
      /\ x \in Mixed /\ y \in Mixed /\ z \in Mixed
  BY <1>1, <1>2, PowerProper
<1>4. NoMore(x, y) /\ z = Times(y, f) /\ 100 * (n + 1) <= y.whole
  <2>1. f[2] <= f[1]
    BY <1>1
  <2>2. NoMore(x, y)
    BY <1>1, <1>2, PowerOrder
  <2>3. z = Times(y, f)
    BY <1>1, <1>2, PowerStep
  <2>4. 100 * (n + 1) <= y.whole
    BY <1>1, <1>2, <2>1, PowerAtLeast
  <2> QED
    BY <2>2, <2>3, <2>4
<1>5. /\ x.whole \in Nat /\ y.whole \in Nat /\ z.whole \in Nat
      /\ Output(n) = x.whole /\ Output(n + 1) = z.whole
  BY <1>3, NumeratorType DEF Output
<1> HIDE DEF x, y, z
<1>6. x.whole <= y.whole
  BY <1>3, <1>4, WholeOrder
<1>7. (y.whole * 11) \div 10 <= z.whole
  BY <1>1, <1>3, <1>4, TimesBounds
<1> QED
  BY <1>4, <1>5, <1>6, <1>7

(* The formulas tell 15 positions apart.                                   *)
LEMMA ClampedRange ==
  ASSUME NEW position \in Positive
  PROVE  Clamped(position) \in 1 .. 15
BY DEF Clamped, Greater, Lesser, Positive

\* What a mine makes of its output, and how much energy it takes.
Yield(k, position) ==
  IF k = "metal_mine" THEN 3
  ELSE IF k = "crystal_mine" THEN 2 ELSE 39 + Clamped(position)
Parts(k) == IF k = "deuterium_synthesizer" THEN 40 ELSE 1
Demand(k) == IF k = "deuterium_synthesizer" THEN 2 ELSE 1

(* The full rate of a mine, with its yield.                                *)
LEMMA MineTypes ==
  ASSUME NEW lv \in LevelMap, NEW rn \in Settings, NEW position \in Positive,
         NEW k \in Mines
  PROVE  /\ Running(lv, rn, k) \in Nat
         /\ Yield(k, position) \in Nat /\ Parts(k) \in Positive
         /\ Demand(k) \in Nat
         /\ FullRate(lv, rn, position, k)
              = [num |-> Yield(k, position) * Running(lv, rn, k), den |-> Parts(k)]
<1>1. lv[k] \in Nat /\ rn[k] \in Nat
  BY StepsAssumption DEF LevelMap, Settings, BuildingKeys
<1>2. Running(lv, rn, k) \in Nat
  BY <1>1, OutputGrows, ProductType DEF Running
<1>3. Yield(k, position) \in Nat /\ Parts(k) \in Positive /\ Demand(k) \in Nat
  BY ClampedRange DEF Yield, Parts, Demand, Positive
<1>4. \/ k = "metal_mine" \/ k = "crystal_mine" \/ k = "deuterium_synthesizer"
  BY DEF Mines
<1>5. FullRate(lv, rn, position, k)
        = [num |-> Yield(k, position) * Running(lv, rn, k), den |-> Parts(k)]
  <2>1. CASE k = "metal_mine"
    BY <2>1 DEF FullRate, Yield, Parts
  <2>2. CASE k = "crystal_mine"
    BY <2>2 DEF FullRate, Yield, Parts
  <2>3. CASE k = "deuterium_synthesizer"
    <3>1. Running(lv, rn, k) * (39 + Clamped(position))
            = (39 + Clamped(position)) * Running(lv, rn, k)
      BY <1>2, ClampedRange
    <3> QED
      BY <2>3, <3>1 DEF FullRate, Yield, Parts
  <2> QED
    BY <1>4, <2>1, <2>2, <2>3
<1> QED
  BY <1>2, <1>3, <1>5

(* Energy is a natural number, at every position.                          *)
LEMMA EnergyTypes ==
  ASSUME NEW lv \in LevelMap, NEW rn \in Settings, NEW position \in Positive
  PROVE  /\ EnergyUsed(lv, rn) \in Nat
         /\ EnergyProduced(lv, position) \in Nat
<1>1. /\ Running(lv, rn, "metal_mine") \in Nat
      /\ Running(lv, rn, "crystal_mine") \in Nat
      /\ Running(lv, rn, "deuterium_synthesizer") \in Nat
  BY MineTypes DEF Mines
<1>2. lv["solar_plant"] \in Nat /\ Steps \in Nat
  BY StepsAssumption DEF LevelMap, BuildingKeys
<1>3. Output(lv["solar_plant"]) \in Nat /\ 185 - 3 * Clamped(position) \in Nat
  BY <1>2, OutputGrows, ClampedRange
<1>4. Output(lv["solar_plant"]) * Steps * (185 - 3 * Clamped(position)) \in Nat
  BY <1>2, <1>3, ProductType
<1>5. EnergyProduced(lv, position) \in Nat
  <2>1. 70 \in Positive
    BY DEF Positive
  <2> QED
    BY <1>4, <2>1, Division DEF EnergyProduced
<1> QED
  BY <1>1, <1>5 DEF EnergyUsed

\* A rate as a share of the full one.
Share(num, den, used, produced) ==
  IF used <= produced THEN [num |-> num, den |-> den]
  ELSE [num |-> num * produced, den |-> den * used]

(* Every rate is such a share.                                             *)
LEMMA RateIsShare ==
  ASSUME NEW lv \in LevelMap, NEW rn \in Settings, NEW position \in Positive,
         NEW k \in Mines
  PROVE  Rate(lv, rn, position, k)
           = Share(Yield(k, position) * Running(lv, rn, k), Parts(k),
                   EnergyUsed(lv, rn), EnergyProduced(lv, position))
BY MineTypes DEF Rate, Share

(* A share grows with the full rate and the energy produced, as long as    *)
(* the full rate keeps up with the energy used.                            *)
LEMMA ShareOrder ==
  ASSUME NEW a \in Nat, NEW b \in Nat, NEW den \in Positive,
         NEW u \in Nat, NEW v \in Nat, NEW p \in Nat, NEW q \in Nat,
         a <= b, p <= q, a * v <= b * u
  PROVE  AtMost(Share(a, den, u, p), Share(b, den, v, q))
<1> DEFINE x == Share(a, den, u, p)
           y == Share(b, den, v, q)
<1>1. den \in Nat /\ den # 0
  BY DEF Positive
<1>2. /\ u <= p => x.num = a /\ x.den = den
      /\ ~(u <= p) => x.num = a * p /\ x.den = den * u /\ u # 0
  BY DEF Share
<1>3. /\ v <= q => y.num = b /\ y.den = den
      /\ ~(v <= q) => y.num = b * q /\ y.den = den * v /\ v # 0
  BY DEF Share
<1> HIDE DEF x, y
<1>4. x.num \in Nat /\ x.den \in Positive /\ y.num \in Nat /\ y.den \in Positive
  <2>1. u # 0 => den * u \in Positive
    BY <1>1, ProductType DEF Positive
  <2>2. v # 0 => den * v \in Positive
    BY <1>1, ProductType DEF Positive
  <2>3. a * p \in Nat /\ b * q \in Nat
    BY ProductType
  <2> QED
    BY <1>2, <1>3, <2>1, <2>2, <2>3
<1>5. x.num * y.den <= y.num * x.den
  <2>1. CASE u <= p /\ v <= q
    BY <1>1, <1>2, <1>3, <2>1, ProductOrder
  <2>2. CASE u <= p /\ ~(v <= q)
    <3>1. a * v <= b * q
      <4>1. b * u <= b * q
        BY <2>2, ProductOrder
      <4> QED
        BY <4>1, ProductType
    <3>2. (a * v) * den <= (b * q) * den
      BY <1>1, <3>1, ProductType, ProductOrder
    <3>3. a * (den * v) = (a * v) * den
      BY <1>1
    <3> QED
      BY <1>2, <1>3, <2>2, <3>2, <3>3
  <2>3. CASE ~(u <= p) /\ v <= q
    <3>1. a * p <= b * u
      <4>1. a * p <= b * p /\ p * b <= u * b
        BY <2>3, ProductOrder
      <4>2. p * b = b * p /\ u * b = b * u
        OBVIOUS
      <4> QED
        BY <4>1, <4>2, ProductType
    <3>2. (a * p) * den <= (b * u) * den
      BY <1>1, <3>1, ProductType, ProductOrder
    <3>3. b * (den * u) = (b * u) * den
      BY <1>1
    <3> QED
      BY <1>2, <1>3, <2>3, <3>2, <3>3
  <2>4. CASE ~(u <= p) /\ ~(v <= q)
    <3>1. (a * v) * p <= (b * u) * q
      <4>1. (a * v) * p <= (b * u) * p
        BY ProductType, ProductOrder
      <4>2. p * (b * u) <= q * (b * u)
        BY ProductType, ProductOrder
      <4>3. p * (b * u) = (b * u) * p /\ q * (b * u) = (b * u) * q
        OBVIOUS
      <4>4. (a * v) * p \in Nat /\ (b * u) * p \in Nat /\ (b * u) * q \in Nat
        BY ProductType
      <4> QED
        BY <4>1, <4>2, <4>3, <4>4
    <3>2. ((a * v) * p) * den <= ((b * u) * q) * den
      <4> (a * v) * p \in Nat /\ (b * u) * q \in Nat
        BY ProductType
      <4> QED
        BY <1>1, <3>1, ProductOrder
    <3>3. (a * p) * (den * v) = ((a * v) * p) * den
          /\ (b * q) * (den * u) = ((b * u) * q) * den
      BY <1>1
    <3> QED
      BY <1>2, <1>3, <2>4, <3>2, <3>3
  <2> QED
    BY <2>1, <2>2, <2>3, <2>4
<1> QED
  BY <1>4, <1>5, AtMostIsOrder DEF x, y

(* A share of something grows strictly when the full rate does, by more    *)
(* than the energy used, or while there is energy left; and when there is  *)
(* more of the energy it is short of.                                      *)
LEMMA ShareGrows ==
  ASSUME NEW a \in Nat, NEW b \in Nat, NEW den \in Positive,
         NEW u \in Nat, NEW v \in Nat, NEW p \in Nat, NEW q \in Nat,
         a <= b, p <= q, a * v <= b * u, b # 0,
         \/ a < b /\ p # 0 /\ a * v < b * u
         \/ a < b /\ u < p
         \/ p < q /\ p < u
  PROVE  Grows(Share(a, den, u, p), Share(b, den, v, q))
<1> DEFINE x == Share(a, den, u, p)
           y == Share(b, den, v, q)
<1>1. den \in Nat /\ den # 0
  BY DEF Positive
<1>2. /\ u <= p => x.num = a /\ x.den = den
      /\ ~(u <= p) => x.num = a * p /\ x.den = den * u /\ u # 0
  BY DEF Share
<1>3. /\ v <= q => y.num = b /\ y.den = den
      /\ ~(v <= q) => y.num = b * q /\ y.den = den * v /\ v # 0
  BY DEF Share
<1> HIDE DEF x, y
<1>4. x.num \in Nat /\ x.den \in Positive /\ y.num \in Nat /\ y.den \in Positive
  <2>1. u # 0 => den * u \in Positive
    BY <1>1, ProductType DEF Positive
  <2>2. v # 0 => den * v \in Positive
    BY <1>1, ProductType DEF Positive
  <2>3. a * p \in Nat /\ b * q \in Nat
    BY ProductType
  <2> QED
    BY <1>2, <1>3, <2>1, <2>2, <2>3
<1>5. /\ a * v \in Nat /\ b * u \in Nat /\ b * p \in Nat /\ b * q \in Nat
      /\ a * p \in Nat /\ a * den \in Nat /\ b * den \in Nat
      /\ a * p <= b * p /\ b * p <= b * q
  <2>1. a * p <= b * p /\ p * b <= q * b /\ p * b = b * p /\ q * b = b * q
    BY ProductOrder
  <2> QED
    BY <1>1, <2>1, ProductType
<1>6. x.num * y.den < y.num * x.den
  <2>1. CASE u <= p /\ v <= q
    <3>1. a < b
      BY <2>1
    <3> QED
      BY <1>1, <1>2, <1>3, <2>1, <3>1, ProductOrder
  <2>2. CASE u <= p /\ ~(v <= q)
    <3>1. a * v < b * q
      <4>1. b * u <= b * p /\ (u < p => b * u < b * p)
        <5>1. u * b <= p * b /\ (u < p => u * b < p * b)
          BY <2>2, ProductOrder
        <5>2. u * b = b * u /\ p * b = b * p
          OBVIOUS
        <5> QED
          BY <5>1, <5>2
      <4>2. a * v < b * u \/ u < p
        BY <2>2
      <4> QED
        BY <1>5, <4>1, <4>2
    <3>2. (a * v) * den < (b * q) * den
      BY <1>1, <1>5, <3>1, ProductOrder
    <3>3. a * (den * v) = (a * v) * den
      BY <1>1
    <3> QED
      BY <1>2, <1>3, <2>2, <3>2, <3>3
  <2>3. CASE ~(u <= p) /\ v <= q
    <3>1. a * p < b * u
      <4>1. p * b < u * b /\ p * b = b * p /\ u * b = b * u
        BY <2>3, ProductOrder
      <4> QED
        BY <1>5, <4>1
    <3>2. (a * p) * den < (b * u) * den
      BY <1>1, <1>5, <3>1, ProductOrder
    <3>3. b * (den * u) = (b * u) * den
      BY <1>1
    <3> QED
      BY <1>2, <1>3, <2>3, <3>2, <3>3
  <2>4. CASE ~(u <= p) /\ ~(v <= q)
    <3>1. (a * v) * p < (b * u) * q
      <4>1. (a * v) * p <= (b * u) * p /\ (a * v < b * u /\ p # 0 => (a * v) * p < (b * u) * p)
        BY <1>5, ProductOrder
      <4>2. /\ p * (b * u) <= q * (b * u)
            /\ p < q /\ b * u # 0 => p * (b * u) < q * (b * u)
        BY <1>5, ProductOrder
      <4>3. p * (b * u) = (b * u) * p /\ q * (b * u) = (b * u) * q
        BY <1>5
      <4>4. (a * v) * p \in Nat /\ (b * u) * p \in Nat /\ (b * u) * q \in Nat
        BY <1>5, ProductType
      <4>5. b * u # 0
        BY <2>4, ProductType
      <4>6. (a * v < b * u /\ p # 0) \/ p < q
        BY <2>4
      <4> QED
        BY <4>1, <4>2, <4>3, <4>4, <4>5, <4>6
    <3>2. ((a * v) * p) * den < ((b * u) * q) * den
      <4> (a * v) * p \in Nat /\ (b * u) * q \in Nat
        BY <1>5, ProductType
      <4> QED
        BY <1>1, <3>1, ProductOrder
    <3>3. (a * p) * (den * v) = ((a * v) * p) * den
          /\ (b * q) * (den * u) = ((b * u) * q) * den
      BY <1>1
    <3> QED
      BY <1>2, <1>3, <2>4, <3>2, <3>3
  <2> QED
    BY <2>1, <2>2, <2>3, <2>4
<1>7. ~(y.num * x.den <= x.num * y.den)
  <2> y.num * x.den \in Nat /\ x.num * y.den \in Nat
    BY <1>4, ProductType DEF Positive
  <2> QED
    BY <1>6
<1> QED
  BY <1>4, <1>7, AtMostIsOrder DEF Grows, x, y

\* All mines but k run alike.
OthersAlike(k, lv, rn, lw, rw) ==
  \A m \in Mines \ {k} : Running(lv, rn, m) = Running(lw, rw, m)

(* The energy used, as a function of what one mine takes.                  *)
LEMMA UsedSplits ==
  ASSUME NEW lv \in LevelMap, NEW rn \in Settings, NEW lw \in LevelMap,
         NEW rw \in Settings, NEW k \in Mines, OthersAlike(k, lv, rn, lw, rw)
  PROVE  \E rest \in Nat :
           /\ EnergyUsed(lv, rn) = Demand(k) * Running(lv, rn, k) + rest
           /\ EnergyUsed(lw, rw) = Demand(k) * Running(lw, rw, k) + rest
<1> DEFINE m == Running(lv, rn, "metal_mine")
           c == Running(lv, rn, "crystal_mine")
           d == Running(lv, rn, "deuterium_synthesizer")
           mw == Running(lw, rw, "metal_mine")
           cw == Running(lw, rw, "crystal_mine")
           dw == Running(lw, rw, "deuterium_synthesizer")
<1>1. /\ "metal_mine" \in Mines /\ "crystal_mine" \in Mines
      /\ "deuterium_synthesizer" \in Mines
      /\ k = "metal_mine" \/ k = "crystal_mine" \/ k = "deuterium_synthesizer"
  BY DEF Mines
<1>2. 1 \in Positive
  BY DEF Positive
<1>3. /\ m \in Nat /\ c \in Nat /\ d \in Nat
      /\ mw \in Nat /\ cw \in Nat /\ dw \in Nat
  BY <1>1, <1>2, MineTypes
<1>4. EnergyUsed(lv, rn) = m + c + 2 * d /\ EnergyUsed(lw, rw) = mw + cw + 2 * dw
  BY DEF EnergyUsed
<1>5. CASE k = "metal_mine"
  <2>1. /\ c = cw /\ d = dw /\ Demand(k) = 1
        /\ Running(lv, rn, k) = m /\ Running(lw, rw, k) = mw
    BY <1>1, <1>5 DEF OthersAlike, Demand
  <2> HIDE DEF m, c, d, mw, cw, dw
  <2>2. c + 2 * d \in Nat
    BY <1>3
  <2> QED
    BY <1>3, <1>4, <2>1, <2>2
<1>6. CASE k = "crystal_mine"
  <2>1. /\ m = mw /\ d = dw /\ Demand(k) = 1
        /\ Running(lv, rn, k) = c /\ Running(lw, rw, k) = cw
    BY <1>1, <1>6 DEF OthersAlike, Demand
  <2> HIDE DEF m, c, d, mw, cw, dw
  <2>2. m + 2 * d \in Nat
    BY <1>3
  <2> QED
    BY <1>3, <1>4, <2>1, <2>2
<1>7. CASE k = "deuterium_synthesizer"
  <2>1. /\ m = mw /\ c = cw /\ Demand(k) = 2
        /\ Running(lv, rn, k) = d /\ Running(lw, rw, k) = dw
    BY <1>1, <1>7 DEF OthersAlike, Demand
  <2> HIDE DEF m, c, d, mw, cw, dw
  <2>2. m + c \in Nat
    BY <1>3
  <2> QED
    BY <1>3, <1>4, <2>1, <2>2
<1> QED
  BY <1>1, <1>5, <1>6, <1>7

(* A mine that runs more yields no less itself, although it takes energy   *)
(* from the others, and they yield no more.                                *)
LEMMA RunningMore ==
  ASSUME NEW lv \in LevelMap, NEW rn \in Settings, NEW lw \in LevelMap,
         NEW rw \in Settings, NEW k \in Mines, NEW position \in Positive,
         OthersAlike(k, lv, rn, lw, rw),
         Running(lv, rn, k) <= Running(lw, rw, k),
         EnergyProduced(lv, position) = EnergyProduced(lw, position)
  PROVE  /\ AtMost(Rate(lv, rn, position, k), Rate(lw, rw, position, k))
         /\ \A m \in Mines \ {k} :
              AtMost(Rate(lw, rw, position, m), Rate(lv, rn, position, m))
<1> DEFINE x == Running(lv, rn, k)
           y == Running(lw, rw, k)
           u == EnergyUsed(lv, rn)
           v == EnergyUsed(lw, rw)
           p == EnergyProduced(lv, position)
           e == Demand(k)
           w == Yield(k, position)
<1>1. /\ x \in Nat /\ y \in Nat /\ e \in Nat /\ w \in Nat
      /\ u \in Nat /\ v \in Nat /\ p \in Nat /\ Parts(k) \in Positive
  BY MineTypes, EnergyTypes
<1>2. PICK rest \in Nat : u = e * x + rest /\ v = e * y + rest
  BY UsedSplits
<1>3. /\ Rate(lv, rn, position, k) = Share(w * x, Parts(k), u, p)
      /\ Rate(lw, rw, position, k) = Share(w * y, Parts(k), v, p)
  BY RateIsShare
<1>4. ASSUME NEW m \in Mines \ {k}
      PROVE  AtMost(Rate(lw, rw, position, m), Rate(lv, rn, position, m))
  <2> DEFINE z == Yield(m, position) * Running(lv, rn, m)
  <2>1. z \in Nat /\ Parts(m) \in Positive
    BY MineTypes, ProductType
  <2>2. /\ Rate(lv, rn, position, m) = Share(z, Parts(m), u, p)
        /\ Rate(lw, rw, position, m) = Share(z, Parts(m), v, p)
    BY RateIsShare DEF OthersAlike
  <2> HIDE DEF x, y, u, v, p, e, w, z
  <2>3. u <= v
    <3>1. x * e <= y * e /\ x * e = e * x /\ y * e = e * y
      BY <1>1, ProductOrder DEF x, y
    <3>2. e * x \in Nat /\ e * y \in Nat
      BY <1>1, ProductType
    <3> QED
      BY <1>2, <3>1, <3>2
  <2>4. z * u <= z * v
    <3>1. u * z <= v * z /\ u * z = z * u /\ v * z = z * v
      BY <1>1, <2>1, <2>3, ProductOrder
    <3> QED
      BY <3>1
  <2> QED
    BY <1>1, <2>1, <2>2, <2>4, ShareOrder
<1>5. x <= y
  OBVIOUS
<1> HIDE DEF x, y, u, v, p, e, w
<1>6. w * x \in Nat /\ w * y \in Nat /\ w * x <= w * y
  <2>1. x * w <= y * w /\ x * w = w * x /\ y * w = w * y
    BY <1>1, <1>5, ProductOrder
  <2> QED
    BY <1>1, <2>1, ProductType
<1>7. (w * x) * v <= (w * y) * u
  <2>1. (w * x) * v = e * (w * x * y) + (w * x) * rest
    BY <1>1, <1>2
  <2>2. (w * y) * u = e * (w * x * y) + (w * y) * rest
    BY <1>1, <1>2
  <2>3. (w * x) * rest <= (w * y) * rest
    BY <1>6, ProductOrder
  <2>4. /\ e * (w * x * y) \in Nat /\ (w * x) * rest \in Nat
        /\ (w * y) * rest \in Nat
    BY <1>1, <1>6, ProductType
  <2> QED
    BY <2>1, <2>2, <2>3, <2>4
<1>8. AtMost(Share(w * x, Parts(k), u, p), Share(w * y, Parts(k), v, p))
  BY <1>1, <1>6, <1>7, ShareOrder
<1> QED
  BY <1>3, <1>4, <1>8

(* It yields more, unless it alone already takes all the energy there is.  *)
LEMMA RunningYieldsMore ==
  ASSUME NEW lv \in LevelMap, NEW rn \in Settings, NEW lw \in LevelMap,
         NEW rw \in Settings, NEW k \in Mines, NEW position \in Positive,
         OthersAlike(k, lv, rn, lw, rw),
         Running(lv, rn, k) < Running(lw, rw, k),
         EnergyProduced(lv, position) = EnergyProduced(lw, position),
         EnergyProduced(lv, position) # 0,
         \/ EnergyUsed(lv, rn) < EnergyProduced(lv, position)
         \/ \E m \in Mines \ {k} : Running(lv, rn, m) # 0
  PROVE  Grows(Rate(lv, rn, position, k), Rate(lw, rw, position, k))
<1> DEFINE x == Running(lv, rn, k)
           y == Running(lw, rw, k)
           u == EnergyUsed(lv, rn)
           v == EnergyUsed(lw, rw)
           p == EnergyProduced(lv, position)
           e == Demand(k)
           w == Yield(k, position)
<1>1. /\ x \in Nat /\ y \in Nat /\ e \in Nat /\ w \in Nat /\ w # 0
      /\ u \in Nat /\ v \in Nat /\ p \in Nat /\ Parts(k) \in Positive
  <2>1. w # 0
    BY ClampedRange DEF Yield
  <2> HIDE DEF w
  <2> QED
    BY <2>1, MineTypes, EnergyTypes DEF w
<1>2. PICK rest \in Nat : u = e * x + rest /\ v = e * y + rest
  BY UsedSplits
<1>3. rest = 0 => u < p
  <2> SUFFICES ASSUME rest = 0, NEW m \in Mines \ {k}, Running(lv, rn, m) # 0
               PROVE  FALSE
    OBVIOUS
  <2>1. /\ Running(lv, rn, "metal_mine") \in Nat
        /\ Running(lv, rn, "crystal_mine") \in Nat
        /\ Running(lv, rn, "deuterium_synthesizer") \in Nat
    BY MineTypes DEF Mines
  <2>2. /\ k = "metal_mine" \/ k = "crystal_mine" \/ k = "deuterium_synthesizer"
        /\ m = "metal_mine" \/ m = "crystal_mine" \/ m = "deuterium_synthesizer"
        /\ m # k
    BY DEF Mines
  <2>3. u = e * x
    BY <1>1, <1>2, ProductType
  <2> HIDE DEF u
  <2>4. CASE k = "metal_mine"
    BY <2>1, <2>2, <2>3, <2>4 DEF u, EnergyUsed, Demand
  <2>5. CASE k = "crystal_mine"
    BY <2>1, <2>2, <2>3, <2>5 DEF u, EnergyUsed, Demand
  <2>6. CASE k = "deuterium_synthesizer"
    BY <2>1, <2>2, <2>3, <2>6 DEF u, EnergyUsed, Demand
  <2> QED
    BY <2>2, <2>4, <2>5, <2>6
<1>4. /\ Rate(lv, rn, position, k) = Share(w * x, Parts(k), u, p)
      /\ Rate(lw, rw, position, k) = Share(w * y, Parts(k), v, p)
  BY RateIsShare
<1>5. x < y /\ p # 0
  OBVIOUS
<1> HIDE DEF x, y, u, v, p, e, w
<1>6. w * x \in Nat /\ w * y \in Nat /\ w * x < w * y
  <2>1. x * w < y * w /\ x * w = w * x /\ y * w = w * y
    BY <1>1, <1>5, ProductOrder
  <2> QED
    BY <1>1, <2>1, ProductType
<1>7. (w * x) * v <= (w * y) * u /\ (rest # 0 => (w * x) * v < (w * y) * u)
  <2>1. (w * x) * v = e * (w * x * y) + (w * x) * rest
    BY <1>1, <1>2
  <2>2. (w * y) * u = e * (w * x * y) + (w * y) * rest
    BY <1>1, <1>2
  <2>3. /\ (w * x) * rest <= (w * y) * rest
        /\ rest # 0 => (w * x) * rest < (w * y) * rest
    BY <1>6, ProductOrder
  <2>4. /\ e * (w * x * y) \in Nat /\ (w * x) * rest \in Nat
        /\ (w * y) * rest \in Nat
    BY <1>1, <1>6, ProductType
  <2> QED
    BY <2>1, <2>2, <2>3, <2>4
<1>8. w * x <= w * y /\ w * y # 0 /\ p <= p
  BY <1>1, <1>6
<1>9. \/ w * x < w * y /\ p # 0 /\ (w * x) * v < (w * y) * u
      \/ w * x < w * y /\ u < p
  BY <1>3, <1>5, <1>6, <1>7
<1>10. Grows(Share(w * x, Parts(k), u, p), Share(w * y, Parts(k), v, p))
  BY <1>1, <1>6, <1>7, <1>8, <1>9, ShareGrows
<1> QED
  BY <1>4, <1>10

(* With more energy no mine yields less.                                   *)
LEMMA MoreEnergy ==
  ASSUME NEW lv \in LevelMap, NEW lw \in LevelMap, NEW rn \in Settings,
         NEW a \in Positive, NEW b \in Positive, NEW k \in Mines,
         \A m \in Mines : lv[m] = lw[m],
         Yield(k, a) = Yield(k, b),
         EnergyProduced(lv, a) <= EnergyProduced(lw, b)
  PROVE  AtMost(Rate(lv, rn, a, k), Rate(lw, rn, b, k))
<1> DEFINE z == Yield(k, a) * Running(lv, rn, k)
           u == EnergyUsed(lv, rn)
           p == EnergyProduced(lv, a)
           q == EnergyProduced(lw, b)
<1>1. /\ z \in Nat /\ Parts(k) \in Positive
      /\ u \in Nat /\ p \in Nat /\ q \in Nat
  BY MineTypes, EnergyTypes, ProductType
<1>2. /\ \A m \in Mines : Running(lv, rn, m) = Running(lw, rn, m)
      /\ EnergyUsed(lw, rn) = u
  <2>1. \A m \in Mines : Running(lv, rn, m) = Running(lw, rn, m)
    BY DEF Running
  <2> QED
    BY <2>1 DEF EnergyUsed, Mines
<1>3. /\ Rate(lv, rn, a, k) = Share(z, Parts(k), u, p)
      /\ Rate(lw, rn, b, k) = Share(z, Parts(k), u, q)
  BY <1>2, RateIsShare
<1> HIDE DEF z, u, p, q
<1>4. z <= z /\ p <= q /\ z * u <= z * u
  BY <1>1, ProductType DEF p, q
<1> QED
  BY <1>1, <1>3, <1>4, ShareOrder

(* A mine that is short of energy yields more with more of it.             *)
LEMMA MoreEnergyYieldsMore ==
  ASSUME NEW lv \in LevelMap, NEW lw \in LevelMap, NEW rn \in Settings,
         NEW position \in Positive, NEW k \in Mines,
         \A m \in Mines : lv[m] = lw[m], Running(lv, rn, k) # 0,
         EnergyProduced(lv, position) < EnergyProduced(lw, position),
         EnergyProduced(lv, position) < EnergyUsed(lv, rn)
  PROVE  Grows(Rate(lv, rn, position, k), Rate(lw, rn, position, k))
<1> DEFINE z == Yield(k, position) * Running(lv, rn, k)
           u == EnergyUsed(lv, rn)
           p == EnergyProduced(lv, position)
           q == EnergyProduced(lw, position)
<1>1. /\ z \in Nat /\ z # 0 /\ Parts(k) \in Positive
      /\ u \in Nat /\ p \in Nat /\ q \in Nat
  <2>1. Yield(k, position) # 0
    BY ClampedRange DEF Yield
  <2> QED
    BY <2>1, MineTypes, EnergyTypes, ProductType
<1>2. EnergyUsed(lw, rn) = u /\ \A m \in Mines : Running(lv, rn, m) = Running(lw, rn, m)
  <2>1. \A m \in Mines : Running(lv, rn, m) = Running(lw, rn, m)
    BY DEF Running
  <2> QED
    BY <2>1 DEF EnergyUsed, Mines
<1>3. /\ Rate(lv, rn, position, k) = Share(z, Parts(k), u, p)
      /\ Rate(lw, rn, position, k) = Share(z, Parts(k), u, q)
  BY <1>2, RateIsShare
<1>4. p < q /\ p < u
  OBVIOUS
<1> HIDE DEF z, u, p, q
<1>5. z <= z /\ p <= q /\ z * u <= z * u
  BY <1>1, <1>4, ProductType
<1> QED
  BY <1>1, <1>3, <1>4, <1>5, ShareGrows

(* There is energy, and a higher level of the plant brings more.           *)
LEMMA PlantEnergy ==
  ASSUME NEW lv \in LevelMap, NEW lw \in LevelMap, NEW position \in Positive,
         NEW n \in Nat, lv["solar_plant"] = n, lw["solar_plant"] = n + 1
  PROVE  EnergyProduced(lv, position) < EnergyProduced(lw, position)
<1> DEFINE o == Output(n)
           r == Output(n + 1)
           t == 185 - 3 * Clamped(position)
           c == Steps * t
<1>1. o \in Nat /\ r \in Nat /\ o + 10 <= r
  BY OutputGrows
<1>2. t \in Nat /\ 140 <= t /\ Steps \in Nat /\ 1 <= Steps
  BY ClampedRange, StepsAssumption
<1>3. c \in Nat /\ 140 <= c
  <2> HIDE DEF t
  <2>1. 1 * t <= Steps * t
    BY <1>2, ProductOrder
  <2> QED
    BY <1>2, <2>1, ProductType
<1>4. /\ EnergyProduced(lv, position) = (o * c) \div 70
      /\ EnergyProduced(lw, position) = (r * c) \div 70
  <2> HIDE DEF o, r, t
  <2>1. o * Steps * t = o * c /\ r * Steps * t = r * c
    BY <1>1, <1>2
  <2> QED
    BY <2>1 DEF EnergyProduced, o, r, t
<1> HIDE DEF o, r, t, c
<1>5. o * c \in Nat /\ r * c \in Nat /\ o * c + 70 <= r * c
  <2>1. (o + 10) * c <= r * c /\ (o + 10) * c = o * c + 10 * c
    BY <1>1, <1>3, ProductOrder
  <2> QED
    BY <1>1, <1>3, <2>1, ProductType
<1> DEFINE d == o * c
           f == r * c
<1> HIDE DEF d, f
<1>6. d \in Nat /\ f \in Nat /\ d + 70 <= f
  BY <1>5 DEF d, f
<1>7. d \div 70 < f \div 70
  BY <1>6
<1> QED
  BY <1>4, <1>7 DEF d, f

-----------------------------------------------------------------------------
(* What a building window shows.                                           *)

\* createStarterPlanet gives every planet a solar plant, and no level is lost.
Powered == level["solar_plant"] # 0

LEMMA PoweredHolds == Spec => []Powered
<1>1. Init => Powered
  BY DEF Init, Powered, StarterLevel, BuildingKeys, Storages
<1>2. ASSUME Types, Powered, [Next]_vars PROVE Powered'
  <2>1. CASE UNCHANGED level
    BY <1>2, <2>1 DEF Powered
  <2>2. ASSUME NEW k \in BuildingKeys, StartBuilding(k) PROVE Powered'
    <3>1. level["solar_plant"] \in Nat /\ "solar_plant" \in BuildingKeys
      BY <1>2 DEF Types, BuildingKeys
    <3>2. level'["solar_plant"] = level["solar_plant"] \/ level'["solar_plant"] = level["solar_plant"] + 1
      BY <1>2, <2>2, <3>1 DEF StartBuilding, Types
    <3> QED
      BY <1>2, <3>1, <3>2 DEF Powered
  <2> QED
    BY <1>2, <2>1, <2>2 DEF Next, vars, StartResearch, UpdateProductionFactor
<1> QED
  BY <1>1, <1>2, TypesHold, PTL DEF Spec

(* So there is energy.                                                     *)
LEMMA PoweredMeansEnergy ==
  ASSUME Types, Powered
  PROVE  EnergyProduced(level, site.position) # 0
<1> DEFINE n == level["solar_plant"] - 1
           lv == AtLevel("solar_plant", n)
<1>1. n \in Nat /\ level["solar_plant"] = n + 1 /\ "solar_plant" \in BuildingKeys
  BY DEF Types, Powered, BuildingKeys
<1>2. site.position \in Positive /\ level \in LevelMap
  BY SiteType DEF Types, LevelMap
<1> HIDE DEF n
<1>3. lv \in LevelMap /\ lv["solar_plant"] = n
  BY <1>1 DEF Types, AtLevel, LevelMap
<1> HIDE DEF lv
<1>4. /\ EnergyProduced(lv, site.position) < EnergyProduced(level, site.position)
  BY <1>1, <1>2, <1>3, PlantEnergy
<1>5. EnergyProduced(lv, site.position) \in Nat
  <2>1. Steps \in Nat /\ 1 \in Nat
    BY StepsAssumption
  <2>2. running \in Settings
    BY DEF Types, Settings
  <2> QED
    BY <1>2, <1>3, <2>2, EnergyTypes
<1>6. EnergyProduced(level, site.position) \in Nat
  <2>1. running \in Settings
    BY DEF Types, Settings
  <2> QED
    BY <1>2, <2>1, EnergyTypes
<1> QED
  BY <1>4, <1>5, <1>6

(* A target level of one building leaves the others alone.                 *)
LEMMA AtLevelType ==
  ASSUME Types, NEW k \in BuildingKeys, NEW n \in Nat
  PROVE  /\ AtLevel(k, n) \in LevelMap /\ AtLevel(k, n)[k] = n
         /\ \A j \in BuildingKeys \ {k} : AtLevel(k, n)[j] = level[j]
BY DEF Types, AtLevel, LevelMap

(* A mine yields more, also when its energy has to come from the others.   *)
LEMMA HigherMineHelps ==
  ASSUME Types, Powered, NEW k \in Mines, NEW n \in Nat
  PROVE  MineHelps(k, n, n + 1)
<1> DEFINE lv == AtLevel(k, n)
           lw == AtLevel(k, n + 1)
           before == Rate(lv, running, site.position, k)
           after  == Rate(lw, running, site.position, k)
<1>1. /\ k \in BuildingKeys /\ n + 1 \in Nat /\ "solar_plant" \in BuildingKeys \ {k}
      /\ Mines \subseteq BuildingKeys
  BY DEF BuildingKeys, Mines
<1>2. /\ lv \in LevelMap /\ lw \in LevelMap /\ lv[k] = n /\ lw[k] = n + 1
      /\ \A j \in BuildingKeys \ {k} : lv[j] = level[j] /\ lv[j] = lw[j]
  BY <1>1, AtLevelType
<1>3. running \in Settings /\ site.position \in Positive /\ running[k] \in Nat
  BY SiteType, StepsAssumption DEF Types, Settings
<1> HIDE DEF lv, lw, before, after
<1>4. OthersAlike(k, lv, running, lw, running)
  BY <1>1, <1>2 DEF OthersAlike, Running
<1>5. /\ Running(lv, running, k) <= Running(lw, running, k)
      /\ running[k] # 0 => Running(lv, running, k) < Running(lw, running, k)
  <2>1. Output(n) \in Nat /\ Output(n + 1) \in Nat /\ Output(n) < Output(n + 1)
    BY <1>1, OutputGrows
  <2> QED
    BY <1>2, <1>3, <2>1, ProductOrder DEF Running
<1>6. EnergyProduced(lv, site.position) = EnergyProduced(lw, site.position)
  BY <1>1, <1>2 DEF EnergyProduced
<1>7. AtMost(before, after)
  BY <1>2, <1>3, <1>4, <1>5, <1>6, RunningMore DEF before, after
<1>8. ASSUME running[k] # 0, ~Saturated(k, n) PROVE Grows(before, after)
  <2>1. EnergyProduced(lv, site.position) # 0
    <3>1. EnergyProduced(lv, site.position) = EnergyProduced(level, site.position)
      BY <1>1, <1>2 DEF EnergyProduced
    <3> QED
      BY <3>1, PoweredMeansEnergy
  <2>2. \A m \in Mines \ {k} : Running(lv, running, m) = Running(level, running, m)
    BY <1>1, <1>2 DEF Running
  <2>3. /\ EnergyUsed(lv, running) \in Nat /\ EnergyProduced(lv, site.position) \in Nat
    BY <1>2, <1>3, EnergyTypes
  <2>4. \/ EnergyUsed(lv, running) < EnergyProduced(lv, site.position)
        \/ \E m \in Mines \ {k} : Running(lv, running, m) # 0
    BY <1>8, <2>2, <2>3 DEF Saturated, lv
  <2> QED
    BY <1>2, <1>3, <1>4, <1>5, <1>6, <1>8, <2>1, <2>4, RunningYieldsMore
    DEF before, after
<1>9. FutureRate(k, n, k) = before /\ FutureRate(k, n + 1, k) = after
  BY DEF FutureRate, before, after, lv, lw
<1> QED
  BY <1>7, <1>8, <1>9 DEF MineHelps

(* A solar plant brings energy, slows no mine and speeds up those that are *)
(* short of energy.                                                        *)
LEMMA HigherPlantHelps ==
  ASSUME Types, NEW n \in Nat
  PROVE  PlantHelps(n, n + 1)
<1> DEFINE lv == AtLevel("solar_plant", n)
           lw == AtLevel("solar_plant", n + 1)
<1>1. /\ "solar_plant" \in BuildingKeys /\ n + 1 \in Nat
      /\ Mines \subseteq BuildingKeys \ {"solar_plant"}
  BY DEF BuildingKeys, Mines
<1>2. /\ lv \in LevelMap /\ lw \in LevelMap
      /\ lv["solar_plant"] = n /\ lw["solar_plant"] = n + 1
      /\ \A m \in Mines : lv[m] = lw[m] /\ lv[m] = level[m]
  BY <1>1, AtLevelType
<1>3. running \in Settings /\ site.position \in Positive
  BY SiteType DEF Types, Settings
<1> HIDE DEF lv, lw
<1>4. EnergyProduced(lv, site.position) < EnergyProduced(lw, site.position)
  BY <1>2, <1>3, PlantEnergy
<1>5. /\ EnergyProduced(lv, site.position) \in Nat
      /\ EnergyProduced(lw, site.position) \in Nat
  BY <1>2, <1>3, EnergyTypes
<1>6. \A m \in Mines : Running(lv, running, m) = Running(level, running, m)
  BY <1>2 DEF Running
<1>7. EnergyUsed(lv, running) = EnergyUsed(level, running)
  BY <1>6 DEF EnergyUsed, Mines
<1>8. ASSUME NEW k \in Mines
      PROVE  /\ AtMost(Rate(lv, running, site.position, k), Rate(lw, running, site.position, k))
             /\ /\ EnergyProduced(lv, site.position) < EnergyUsed(level, running)
                /\ Running(level, running, k) > 0
                => Grows(Rate(lv, running, site.position, k),
                         Rate(lw, running, site.position, k))
  <2>1. EnergyProduced(lv, site.position) <= EnergyProduced(lw, site.position)
    BY <1>4, <1>5
  <2>2. AtMost(Rate(lv, running, site.position, k), Rate(lw, running, site.position, k))
    BY <1>2, <1>3, <2>1, MoreEnergy
  <2>3. ASSUME EnergyProduced(lv, site.position) < EnergyUsed(level, running),
               Running(level, running, k) > 0
        PROVE  Grows(Rate(lv, running, site.position, k), Rate(lw, running, site.position, k))
    <3>1. Running(lv, running, k) # 0
      BY <1>6, <2>3
    <3> QED
      BY <1>2, <1>3, <1>4, <1>7, <2>3, <3>1, MoreEnergyYieldsMore
  <2> QED
    BY <2>2, <2>3
<1> QED
  BY <1>4, <1>8 DEF PlantHelps, FutureRate, lv, lw

(* A storage of a higher level holds more.                                 *)
LEMMA CapacityGrows ==
  ASSUME NEW n \in Nat
  PROVE  StorageCapacity(n) < StorageCapacity(n + 1)
<1> DEFINE f == <<8, 5>>
           x == Power(10000, f, n)
           y == Power(10000, f, n + 1)
<1>1. f \in Factor /\ 3 * f[2] <= 2 * f[1] /\ 10000 \in Nat
  BY DEF Factor, Positive
<1>2. Greater(n, 0) = n /\ Greater(n + 1, 0) = n + 1
  BY DEF Greater
<1>3. StorageCapacity(n) = x.whole /\ StorageCapacity(n + 1) = y.whole
  BY <1>2 DEF StorageCapacity
<1>4. x \in Mixed /\ y \in Mixed /\ y = Times(x, f) /\ 10000 <= x.whole
  BY <1>1, PowerProper, PowerStep, PowerAtLeast
<1>5. /\ x.whole \in Nat /\ y.whole \in Nat
      /\ 3 * x.whole <= 2 * y.whole + 1
  BY <1>1, <1>4, NumeratorType, TimesAddsHalf
<1> HIDE DEF x, y
<1> QED
  BY <1>3, <1>4, <1>5

(* A storage window shows a real gain.                                     *)
LEMMA HigherStorageHelps ==
  ASSUME Types, NEW k \in Storages, NEW n \in Nat
  PROVE  StorageHelps(k, n, n + 1)
<1> DEFINE lv == AtLevel(k, n)
           lw == AtLevel(k, n + 1)
<1>1. k \in BuildingKeys /\ n + 1 \in Nat /\ Storages \subseteq BuildingKeys
  BY DEF BuildingKeys
<1>2. /\ lv[k] = n /\ lw[k] = n + 1
      /\ \A j \in Storages \ {k} : lv[j] = lw[j] /\ lv[j] \in Nat
  BY <1>1, AtLevelType DEF Types
<1>3. /\ StorageCapacity(n) < StorageCapacity(n + 1)
      /\ \A l \in Nat : StorageCapacity(l) \in Nat
  BY CapacityGrows, CapacityStep
<1> HIDE DEF lv, lw
<1>4. ASSUME NEW j \in Storages
      PROVE  /\ StorageCapacity(lv[j]) <= StorageCapacity(lw[j])
             /\ j = k => StorageCapacity(lv[j]) # StorageCapacity(lw[j])
  <2>1. CASE j = k
    BY <1>1, <1>2, <1>3, <2>1
  <2>2. CASE j # k
    BY <1>2, <1>3, <2>2
  <2> QED
    BY <2>1, <2>2
<1>5. /\ "metal_storage" \in Storages /\ "crystal_storage" \in Storages
      /\ "deuterium_tank" \in Storages
      /\ k = "metal_storage" \/ k = "crystal_storage" \/ k = "deuterium_tank"
  BY DEF Storages
<1> DEFINE before == StorageCapacities(lv)
           after  == StorageCapacities(lw)
<1>6. /\ before["metal"] = StorageCapacity(lv["metal_storage"])
      /\ before["crystal"] = StorageCapacity(lv["crystal_storage"])
      /\ before["deuterium"] = StorageCapacity(lv["deuterium_tank"])
      /\ after["metal"] = StorageCapacity(lw["metal_storage"])
      /\ after["crystal"] = StorageCapacity(lw["crystal_storage"])
      /\ after["deuterium"] = StorageCapacity(lw["deuterium_tank"])
  BY DEF StorageCapacities, Amount
<1>7. \A j \in Storages : lv[j] \in Nat /\ lw[j] \in Nat
  BY <1>1, <1>2
<1> HIDE DEF before, after
<1>8. \A r \in Resources : after[r] >= before[r]
  BY <1>3, <1>4, <1>5, <1>6, <1>7 DEF Resources
<1>9. after # before
  BY <1>4, <1>5, <1>6
<1> QED
  BY <1>8, <1>9 DEF StorageHelps, HasEnough, before, after, lv, lw

(* An installation shortens ships or research by what it promises, to the  *)
(* second, and lengthens neither.                                          *)
LEMMA HigherInstallationHelps ==
  ASSUME Types, NEW k \in Installations, NEW n \in Nat
  PROVE  InstallationHelps(k, n, n + 1)
<1> DEFINE lv == AtLevel(k, n)
           lw == AtLevel(k, n + 1)
<1>1. k \in BuildingKeys /\ n + 1 \in Nat /\ Installations \subseteq BuildingKeys
  BY DEF BuildingKeys
<1>2. /\ lv \in [BuildingKeys -> Nat] /\ lw \in [BuildingKeys -> Nat]
      /\ \A j \in Installations : lv[j] \in Nat /\ lw[j] \in Nat /\ lv[j] <= lw[j]
  <2>1. lv \in LevelMap /\ lw \in LevelMap /\ lv[k] = n /\ lw[k] = n + 1
    BY <1>1, AtLevelType
  <2>2. \A j \in Installations \ {k} : lv[j] = lw[j]
    BY <1>1, AtLevelType
  <2> HIDE DEF lv, lw
  <2>3. ASSUME NEW j \in Installations
        PROVE  lv[j] \in Nat /\ lw[j] \in Nat /\ lv[j] <= lw[j]
    <3>1. lv[j] \in Nat /\ lw[j] \in Nat
      BY <1>1, <2>1 DEF LevelMap
    <3>2. n <= n + 1
      OBVIOUS
    <3> QED
      BY <2>1, <2>2, <3>1, <3>2
  <2> QED
    BY <2>1, <2>3 DEF LevelMap
<1> HIDE DEF lv, lw
<1>3. ShipSpeed(lv) <= ShipSpeed(lw) /\ ResearchSpeed(lv) <= ResearchSpeed(lw)
  <2> DEFINE g(l) == Greater(100 + 5 * l["shipyard"] + 2 * l["robotics_factory"], 100)
             h(l) == 100 + 5 * l["research_lab"]
  <2>1. g(lv) \in Nat /\ g(lw) \in Nat /\ g(lv) <= g(lw)
        /\ h(lv) \in Nat /\ h(lw) \in Nat /\ h(lv) <= h(lw)
    BY <1>2 DEF Greater, Installations
  <2>2. /\ ShipSpeed(lv) = site.speedBuild * g(lv)
        /\ ShipSpeed(lw) = site.speedBuild * g(lw)
        /\ ResearchSpeed(lv) = site.speedResearch * h(lv)
        /\ ResearchSpeed(lw) = site.speedResearch * h(lw)
    BY DEF ShipSpeed, ResearchSpeed
  <2>3. site.speedBuild \in Nat /\ site.speedResearch \in Nat
    BY SiteType DEF Positive
  <2> HIDE DEF g, h
  <2>4. \A a, b, c \in Nat : a <= b => c * a <= c * b
    OBVIOUS
  <2> QED
    BY <2>1, <2>2, <2>3, <2>4
<1>4. /\ ShipSpeed(lv) \in Positive /\ ShipSpeed(lw) \in Positive
      /\ ResearchSpeed(lv) \in Positive /\ ResearchSpeed(lw) \in Positive
  BY <1>2, SpeedTypes
<1>5. YardSpeed(lv) = ShipSpeed(lv) /\ YardSpeed(lw) = ShipSpeed(lw)
  <2>1. \A a, b \in Nat : Greater(100 + 5 * a + 2 * b, 100) = 100 + 5 * a + 2 * b
    BY DEF Greater
  <2> QED
    BY <1>2, <2>1 DEF YardSpeed, ShipSpeed, Installations
<1>6. Shortens(SampleShip(lv), SampleShip(lw), 5,
        SavesASecond(BaseShips["small_cargo"].baseTime, YardSpeed(lv), YardSpeed(lw)))
  <2> DEFINE s(l) == Rounded(Whole(BaseShips["small_cargo"].baseTime * 1), 100, ShipSpeed(l))
  <2>1. "small_cargo" \in ShipKeys /\ 1 \in Nat /\ 5 \in Nat /\ 100 \in Nat
    BY DEF ShipKeys, BaseShips
  <2>2. /\ SampleShip(lv) = Greater(5, s(lv)) /\ s(lv) \in Nat
        /\ SampleShip(lw) = Greater(5, s(lw)) /\ s(lw) \in Nat
    BY <1>2, <2>1, ShipTimeIs DEF SampleShip
  <2>3. BaseShips["small_cargo"].baseTime * 1 \in Nat
    BY <2>1, ShipRows, ProductType
  <2>4. s(lw) <= s(lv)
    BY <1>3, <1>4, <2>1, <2>3, WholeProper, RoundedFaster DEF Proper
  <2>5. SavesASecond(BaseShips["small_cargo"].baseTime, YardSpeed(lv), YardSpeed(lw)) =>
          s(lw) < s(lv)
    <3>1. /\ YardSpeed(lv) = ShipSpeed(lv) /\ YardSpeed(lw) = ShipSpeed(lw)
          /\ Whole(BaseShips["small_cargo"].baseTime * 1).whole
               = BaseShips["small_cargo"].baseTime
      BY <1>5, <2>1, <2>3, ShipRows DEF Whole
    <3>2. Whole(BaseShips["small_cargo"].baseTime * 1) \in Mixed
      BY <2>3, WholeProper DEF Proper
    <3> QED
      BY <1>3, <1>4, <3>1, <3>2, RoundedSaves
  <2> HIDE DEF s
  <2> QED
    BY <2>1, <2>2, <2>4, <2>5 DEF Shortens, Greater
<1>7. Shortens(SampleResearch(lv), SampleResearch(lw), 10,
        SavesASecond(LevelTime(BaseResearch["energy"], tech + 1).whole,
                     LabSpeed(lv), LabSpeed(lw)))
  <2> DEFINE s(l) == Rounded(LevelTime(BaseResearch["energy"], tech + 1), 100, ResearchSpeed(l))
  <2>1. /\ "energy" \in ResearchKeys /\ tech + 1 \in Nat \ {0}
        /\ 10 \in Nat /\ 100 \in Nat
    BY DEF ResearchKeys, BaseResearch, Types
  <2>2. /\ SampleResearch(lv) = Greater(10, s(lv)) /\ s(lv) \in Nat
        /\ SampleResearch(lw) = Greater(10, s(lw)) /\ s(lw) \in Nat
    BY <1>2, <2>1, ResearchTimeIs DEF SampleResearch
  <2>3. LevelTime(BaseResearch["energy"], tech + 1) \in Mixed
    <3>1. Greater((tech + 1) - 1, 0) \in Nat
      BY <2>1 DEF Greater
    <3>2. SoundRow(BaseResearch["energy"])
      BY <2>1, ResearchRows
    <3> QED
      BY <3>1, <3>2, PowerProper DEF LevelTime, SoundRow
  <2>4. s(lw) <= s(lv)
    BY <1>3, <1>4, <2>1, <2>3, RoundedFaster
  <2>5. SavesASecond(LevelTime(BaseResearch["energy"], tech + 1).whole,
                     LabSpeed(lv), LabSpeed(lw)) => s(lw) < s(lv)
    BY <1>3, <1>4, <2>3, RoundedSaves DEF LabSpeed, ResearchSpeed
  <2> HIDE DEF s
  <2> QED
    BY <2>1, <2>2, <2>4, <2>5 DEF Shortens, Greater
<1> QED
  BY <1>6, <1>7 DEF InstallationHelps, lv, lw

(* At every level of every planet, in every universe and position, the     *)
(* next one brings what the formulas have the building for, however short  *)
(* the planet is of energy.  That a mine gains at all rests on the plant   *)
(* every planet starts with.                                               *)
THEOREM LevelsHelp == Spec => []EveryLevelHelps
<1>1. ASSUME Types, Powered PROVE EveryLevelHelps
  <2> SUFFICES ASSUME NEW k \in BuildingKeys, NEW n \in Shown(k) \ {level[k]}
               PROVE  /\ k \in Mines => MineHelps(k, n - 1, n)
                      /\ k = "solar_plant" => PlantHelps(n - 1, n)
                      /\ k \in Storages => StorageHelps(k, n - 1, n)
                      /\ k \in Installations => InstallationHelps(k, n - 1, n)
    BY DEF EveryLevelHelps
  <2>1. level[k] \in Nat /\ FutureLevels \in Nat
    BY <1>1, SitesAssumption DEF Types
  <2>2. n - 1 \in Nat /\ (n - 1) + 1 = n
    BY <2>1 DEF Shown
  <2>3. k \in Mines => MineHelps(k, n - 1, (n - 1) + 1)
    BY <1>1, <2>2, HigherMineHelps
  <2>4. PlantHelps(n - 1, (n - 1) + 1)
    BY <1>1, <2>2, HigherPlantHelps
  <2>5. k \in Storages => StorageHelps(k, n - 1, (n - 1) + 1)
    BY <1>1, <2>2, HigherStorageHelps
  <2>6. k \in Installations => InstallationHelps(k, n - 1, (n - 1) + 1)
    BY <1>1, <2>2, HigherInstallationHelps
  <2> QED
    BY <2>2, <2>3, <2>4, <2>5, <2>6
<1> QED
  BY <1>1, TypesHold, PoweredHolds, PTL

(* A setting turned down costs its own mine and none of the others.        *)
THEOREM Throttling == Spec => ThrottlingSharesEnergy
<1>1. ASSUME Types, [Next]_vars, NEW key \in Mines, NEW k \in Mines,
             running'[key] < running[key]
      PROVE  IF k = key
             THEN AtMost(Rate(level, running', site.position, k),
                         Rate(level, running, site.position, k))
             ELSE AtMost(Rate(level, running, site.position, k),
                         Rate(level, running', site.position, k))
  <2>1. /\ level \in LevelMap /\ running \in Settings /\ site.position \in Positive
        /\ running[key] \in 0 .. Steps /\ Steps \in Nat
    BY <1>1, SiteType, StepsAssumption DEF Types, LevelMap, Settings
  <2>2. ~UNCHANGED running
    <3> SUFFICES ASSUME running' = running PROVE FALSE
      OBVIOUS
    <3> QED
      BY <1>1, <2>1
  <2>3. PICK j \in Mines : UpdateProductionFactor(j)
    BY <1>1, <2>2 DEF Next, vars, StartBuilding, StartResearch
  <2>4. PICK setting \in site.settings : running' = [running EXCEPT ![j] = setting]
    BY <2>3 DEF UpdateProductionFactor
  <2>5. setting \in 0 .. Steps
    BY <1>1, <2>4, SiteType
  <2>6. j = key
    <3> SUFFICES ASSUME j # key PROVE FALSE
      OBVIOUS
    <3>1. running'[key] = running[key]
      BY <2>1, <2>4 DEF Settings
    <3> QED
      BY <1>1, <2>1, <3>1
  <2>7. running' \in Settings /\ running'[key] \in Nat /\ running[key] \in Nat
    BY <2>1, <2>4, <2>5, <2>6 DEF Settings
  <2>8. OthersAlike(key, level, running', level, running)
    BY <2>1, <2>4, <2>6 DEF OthersAlike, Running, Settings
  <2>9. Running(level, running', key) <= Running(level, running, key)
    <3>1. Output(level[key]) \in Nat
      BY <2>1, OutputGrows DEF LevelMap, BuildingKeys
    <3>2. \A a, b, c \in Nat : a < b => c * a <= c * b
      OBVIOUS
    <3> QED
      BY <1>1, <2>7, <3>1, <3>2 DEF Running
  <2> DEFINE rn == running'
  <2>10. /\ rn \in Settings /\ OthersAlike(key, level, rn, level, running)
         /\ Running(level, rn, key) <= Running(level, running, key)
    BY <2>7, <2>8, <2>9
  <2> HIDE DEF rn
  <2>11. /\ AtMost(Rate(level, rn, site.position, key), Rate(level, running, site.position, key))
         /\ \A m \in Mines \ {key} :
              AtMost(Rate(level, running, site.position, m), Rate(level, rn, site.position, m))
    BY <2>1, <2>10, RunningMore
  <2> QED
    BY <2>11 DEF rn
<1>2. ASSUME Types, [Next]_vars
      PROVE  [\A key, k \in Mines : running'[key] < running[key] =>
                LET before == Rate(level, running, site.position, k)
                    after  == Rate(level, running', site.position, k)
                IN  IF k = key THEN AtMost(after, before)
                    ELSE AtMost(before, after)]_vars
  BY <1>1, <1>2
<1> QED
  BY <1>2, TypesHold, PTL DEF Spec, ThrottlingSharesEnergy

(* Away from the sun a plant produces less.                                *)
LEMMA EnergyFallsOff ==
  ASSUME NEW lv \in LevelMap, NEW near \in Positive, NEW far \in Positive,
         near <= far
  PROVE  /\ Clamped(near) <= Clamped(far)
         /\ EnergyProduced(lv, far) <= EnergyProduced(lv, near)
<1>1. /\ Clamped(near) \in 1 .. 15 /\ Clamped(far) \in 1 .. 15
      /\ Clamped(near) <= Clamped(far)
  BY ClampedRange DEF Clamped, Greater, Lesser, Positive
<1> DEFINE o == Output(lv["solar_plant"]) * Steps
           a == 185 - 3 * Clamped(near)
           b == 185 - 3 * Clamped(far)
<1>2. o \in Nat
  <2>1. lv["solar_plant"] \in Nat /\ Steps \in Nat
    BY StepsAssumption DEF LevelMap, BuildingKeys
  <2> QED
    BY <2>1, OutputGrows, ProductType
<1>3. a \in Nat /\ b \in Nat /\ b <= a
  BY <1>1
<1>4. EnergyProduced(lv, near) = (o * a) \div 70 /\ EnergyProduced(lv, far) = (o * b) \div 70
  BY DEF EnergyProduced
<1> HIDE DEF o, a, b
<1>5. o * b <= o * a /\ o * a \in Nat /\ o * b \in Nat /\ 70 \in Positive
  <2>1. b * o <= a * o /\ b * o = o * b /\ a * o = o * a
    BY <1>2, <1>3, ProductOrder
  <2> QED
    BY <1>2, <1>3, <2>1, ProductType DEF Positive
<1> QED
  BY <1>1, <1>4, <1>5, DivisionOrder

(* Of two positions the nearer one is warmer, has more energy, and its     *)
(* metal and crystal mines yield no less; the farther one yields no less   *)
(* deuterium while it has energy enough.                                   *)
THEOREM Sunnier == Spec => []CloserIsSunnier
<1>1. ASSUME Types PROVE CloserIsSunnier
  <2> SUFFICES ASSUME NEW near \in Positions, NEW far \in Positions, near <= far
               PROVE  /\ Temperature(far) <= Temperature(near)
                      /\ EnergyProduced(level, far) <= EnergyProduced(level, near)
                      /\ \A k \in Mines \ {"deuterium_synthesizer"} :
                           AtMost(Rate(level, running, far, k),
                                  Rate(level, running, near, k))
                      /\ EnergyUsed(level, running) <= EnergyProduced(level, far) =>
                           AtMost(Rate(level, running, near, "deuterium_synthesizer"),
                                  Rate(level, running, far, "deuterium_synthesizer"))
    BY DEF CloserIsSunnier
  <2>1. /\ level \in LevelMap /\ running \in Settings
        /\ near \in Positive /\ far \in Positive
    BY <1>1, SitesAssumption DEF Types, LevelMap, Settings, Positive
  <2>2. /\ Clamped(near) <= Clamped(far)
        /\ Clamped(near) \in 1 .. 15 /\ Clamped(far) \in 1 .. 15
        /\ EnergyProduced(level, far) <= EnergyProduced(level, near)
    BY <2>1, EnergyFallsOff, ClampedRange
  <2>3. Temperature(far) <= Temperature(near)
    BY <2>2 DEF Temperature
  <2>4. ASSUME NEW k \in Mines \ {"deuterium_synthesizer"}
        PROVE  AtMost(Rate(level, running, far, k), Rate(level, running, near, k))
    <3>1. Yield(k, far) = Yield(k, near)
      BY DEF Yield, Mines
    <3> QED
      BY <2>1, <2>2, <3>1, MoreEnergy
  <2>5. ASSUME EnergyUsed(level, running) <= EnergyProduced(level, far)
        PROVE  AtMost(Rate(level, running, near, "deuterium_synthesizer"),
                      Rate(level, running, far, "deuterium_synthesizer"))
    <3> DEFINE k == "deuterium_synthesizer"
               x == Running(level, running, k)
               u == EnergyUsed(level, running)
               p == EnergyProduced(level, near)
               q == EnergyProduced(level, far)
    <3>1. k \in Mines
      BY DEF Mines
    <3>2. /\ x \in Nat /\ u \in Nat /\ p \in Nat /\ q \in Nat
          /\ Yield(k, near) \in Nat /\ Yield(k, far) \in Nat /\ Parts(k) \in Positive
      BY <2>1, <3>1, MineTypes, EnergyTypes
    <3>3. /\ Rate(level, running, near, k) = Share(Yield(k, near) * x, Parts(k), u, p)
          /\ Rate(level, running, far, k) = Share(Yield(k, far) * x, Parts(k), u, q)
      BY <2>1, <3>1, RateIsShare
    <3>4. Yield(k, near) <= Yield(k, far)
      BY <2>2 DEF Yield
    <3>5. u <= q /\ u <= p
      BY <2>2, <2>5, <3>2
    <3> HIDE DEF x, u, p, q, k
    <3> DEFINE a == Yield(k, near) * x
               b == Yield(k, far) * x
    <3>6. a \in Nat /\ b \in Nat /\ a <= b
      BY <3>2, <3>4, ProductType, ProductOrder
    <3>7. /\ Rate(level, running, near, k) = [num |-> a, den |-> Parts(k)]
          /\ Rate(level, running, far, k) = [num |-> b, den |-> Parts(k)]
      BY <3>3, <3>5 DEF Share
    <3> HIDE DEF a, b
    <3>8. a * Parts(k) <= b * Parts(k)
      BY <3>2, <3>6, ProductOrder DEF Positive
    <3>9. AtMost(Rate(level, running, near, k), Rate(level, running, far, k))
      BY <3>2, <3>6, <3>7, <3>8, AtMostIsOrder
    <3> QED
      BY <3>9 DEF k
  <2> QED
    BY <2>2, <2>3, <2>4, <2>5
<1> QED
  BY <1>1, TypesHold, PTL
=============================================================================
