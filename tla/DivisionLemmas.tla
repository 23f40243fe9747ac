--------------------------- MODULE DivisionLemmas --------------------------
(***************************************************************************)
(* Division of natural numbers, as the page tables use it: the index of an *)
(* address in a table is a quotient modulo the number of entries, and the  *)
(* addresses of one page are those with the same quotient by its size.     *)
(***************************************************************************)
EXTENDS Integers, TLAPS

\* Division takes a number apart in one way.
LEMMA Division ==
    ASSUME NEW a \in Nat, NEW b \in Nat \ {0}
    PROVE  a \div b \in Nat /\ a % b \in 0 .. b - 1 /\ a = b * (a \div b) + (a % b)
OBVIOUS

\* Products grow with their factors.
LEMMA ProductMonotone ==
    ASSUME NEW a \in Nat, NEW b \in Nat, NEW c \in Nat, a <= b
    PROVE  c * a <= c * b
<1>1. PICK d \in Nat : b = a + d
  <2>1. b - a \in Nat /\ b = a + (b - a)
    OBVIOUS
  <2> QED
    BY <2>1
<1>2. c * b = c * a + c * d
  BY <1>1
<1>3. c * d \in Nat /\ c * a \in Nat
  OBVIOUS
<1> QED
  BY <1>2, <1>3

\* The quotients of ordered numbers are ordered.
LEMMA QuotientOrder ==
    ASSUME NEW b \in Nat \ {0}, NEW q \in Nat, NEW s \in Nat,
           NEW t \in Nat, NEW r \in Nat, r < b, b * q + t <= b * s + r
    PROVE  q <= s
<1> SUFFICES ASSUME s + 1 <= q PROVE FALSE
  OBVIOUS
<1>1. b * (s + 1) <= b * q
  BY ProductMonotone
<1>2. b * (s + 1) = b * s + b /\ b * s \in Nat /\ b * q \in Nat
  OBVIOUS
<1> QED
  BY <1>1, <1>2

\* A larger number has no smaller quotient, ...
LEMMA QuotientMonotone ==
    ASSUME NEW a \in Nat, NEW c \in Nat, NEW b \in Nat \ {0}, a <= c
    PROVE  a \div b <= c \div b
<1> DEFINE q == a \div b
           t == a % b
           s == c \div b
           r == c % b
<1>1. q \in Nat /\ t \in Nat /\ a = b * q + t
  BY Division
<1>2. s \in Nat /\ r \in Nat /\ r < b /\ c = b * s + r
  BY Division
<1> HIDE DEF q, t, s, r
<1>3. q <= s
  BY <1>1, <1>2, QuotientOrder
<1> QED
  BY <1>3 DEF q, s

\* ... and, when the quotients are the same, no smaller remainder.
LEMMA RemainderMonotone ==
    ASSUME NEW a \in Nat, NEW c \in Nat, NEW b \in Nat \ {0}, a <= c, a \div b = c \div b
    PROVE  a % b <= c % b
<1>1. /\ a = b * (a \div b) + (a % b) /\ c = b * (c \div b) + (c % b)
      /\ a \div b \in Nat /\ a % b \in Nat /\ c % b \in Nat
  BY Division
<1>2. b * (a \div b) \in Nat
  BY <1>1
<1> QED
  BY <1>1, <1>2

\* A number below n times b has a quotient by b below n.
LEMMA QuotientBound ==
    ASSUME NEW a \in Nat, NEW b \in Nat \ {0}, NEW n \in Nat, a < n * b
    PROVE  a \div b < n
<1> DEFINE q == a \div b
           t == a % b
<1>1. q \in Nat /\ t \in Nat /\ a = b * q + t
  BY Division
<1> HIDE DEF q, t
<1>2. ASSUME n <= q PROVE FALSE
  <2>1. b * n <= b * q
    BY <1>1, <1>2, ProductMonotone
  <2>2. b * n = n * b /\ b * n \in Nat /\ b * q \in Nat
    BY <1>1
  <2> QED
    BY <1>1, <2>1, <2>2
<1>3. q < n
  BY <1>1, <1>2
<1> QED
  BY <1>3 DEF q

\* Division by a product is division twice.
LEMMA DivideTwice ==
    ASSUME NEW a \in Nat, NEW p \in Nat \ {0}, NEW n \in Nat \ {0}
    PROVE  a \div (p * n) = (a \div p) \div n
<1> DEFINE q == a \div p
           t == a % p
           s == q \div n
           r == q % n
           m == p * n
           y == a \div m
           z == a % m
<1>1. q \in Nat /\ t \in 0 .. p - 1 /\ a = p * q + t
  BY Division
<1> HIDE DEF q, t
<1>2. s \in Nat /\ r \in 0 .. n - 1 /\ q = n * s + r
  BY <1>1, Division
<1> HIDE DEF s, r
<1>3. m \in Nat \ {0}
  OBVIOUS
<1>4. p * r + t \in 0 .. m - 1
  <2>1. p * r <= p * (n - 1)
    BY <1>2, ProductMonotone
  <2>2. p * (n - 1) = p * n - p /\ p * r \in Nat /\ p * n \in Nat
    BY <1>2
  <2> QED
    BY <1>1, <2>1, <2>2
<1>5. a = m * s + (p * r + t)
  BY <1>1, <1>2
<1> HIDE DEF m
<1>6. y \in Nat /\ z \in 0 .. m - 1 /\ a = m * y + z
  BY <1>3, Division
<1> HIDE DEF y, z
<1> DEFINE x == p * r + t
<1>7. x \in Nat /\ x < m /\ z \in Nat /\ z < m /\ m * s + x = m * y + z
  BY <1>3, <1>4, <1>5, <1>6
<1> HIDE DEF x
<1>8. m * s \in Nat /\ m * y \in Nat
  BY <1>2, <1>3, <1>6
<1>9. s <= y /\ y <= s
  BY <1>2, <1>3, <1>6, <1>7, <1>8, QuotientOrder
<1>10. y = s
  BY <1>2, <1>6, <1>9
<1> QED
  BY <1>10 DEF y, m, s, q

\* A number is known by its quotient and its remainder.
LEMMA SameNumber ==
    ASSUME NEW a \in Nat, NEW b \in Nat, NEW n \in Nat \ {0},
           a \div n = b \div n, a % n = b % n
    PROVE  a = b
<1>1. a = n * (a \div n) + (a % n) /\ b = n * (b \div n) + (b % n)
  BY Division
<1> QED
  BY <1>1

\* Numbers with one quotient by p have one by every multiple of p.
LEMMA CoarserQuotient ==
    ASSUME NEW a \in Nat, NEW b \in Nat, NEW p \in Nat \ {0}, NEW n \in Nat \ {0},
           a \div p = b \div p
    PROVE  a \div (p * n) = b \div (p * n)
<1>1. a \div (p * n) = (a \div p) \div n
  BY DivideTwice
<1>2. b \div (p * n) = (b \div p) \div n
  BY DivideTwice
<1>3. (a \div p) \div n = (b \div p) \div n
  OBVIOUS
<1> QED
  BY <1>1, <1>2, <1>3, Zenon

\* Numbers with one quotient by a multiple of p, and the same remainder of the
\* quotient by p, have one quotient by p.
LEMMA FinerQuotient ==
    ASSUME NEW a \in Nat, NEW b \in Nat, NEW p \in Nat \ {0}, NEW n \in Nat \ {0},
           a \div (p * n) = b \div (p * n), (a \div p) % n = (b \div p) % n
    PROVE  a \div p = b \div p
<1>1. (a \div p) \div n = (b \div p) \div n
  <2>1. a \div (p * n) = (a \div p) \div n
    BY DivideTwice
  <2>2. b \div (p * n) = (b \div p) \div n
    BY DivideTwice
  <2> QED
    BY <2>1, <2>2, Zenon
<1>2. a \div p \in Nat /\ b \div p \in Nat
  BY Division
<1> QED
  BY <1>1, <1>2, SameNumber

\* Equal sums of a multiple of n and a remainder have the same remainder.
LEMMA OneRemainder ==
    ASSUME NEW n \in Nat \ {0}, NEW q \in Nat, NEW s \in Nat,
           NEW t \in Nat, NEW r \in Nat, t < n, r < n, n * q + t = n * s + r
    PROVE  q = s /\ t = r
<1>1. n * q \in Nat /\ n * s \in Nat
  OBVIOUS
<1>2. q <= s /\ s <= q
  BY <1>1, QuotientOrder
<1>3. q = s
  BY <1>2
<1> QED
  BY <1>1, <1>3

\* Adding a multiple of n leaves the remainder.
LEMMA SameRemainder ==
    ASSUME NEW n \in Nat \ {0}, NEW a \in Nat, NEW k \in Nat
    PROVE  (a + n * k) % n = a % n
<1> DEFINE b == a + n * k
           q == a \div n
           t == a % n
           s == b \div n
           r == b % n
<1>0. n * k \in Nat /\ b \in Nat
  OBVIOUS
<1>1. q \in Nat /\ t \in 0 .. n - 1 /\ a = n * q + t
  BY Division
<1>2. s \in Nat /\ r \in 0 .. n - 1 /\ b = n * s + r
  BY <1>0, Division
<1>3. n * (q + k) + t = n * s + r
  <2>1. n * (q + k) = n * q + n * k
    BY <1>1
  <2> QED
    BY <1>1, <1>2, <2>1
<1> HIDE DEF q, t, s, r, b
<1>4. t = r
  BY <1>1, <1>2, <1>3, OneRemainder
<1> QED
  BY <1>4 DEF t, r, b

\* From a multiple of n on, the numbers with its quotient are the next n.
LEMMA NextNumbers ==
    ASSUME NEW n \in Nat \ {0}, NEW a \in Nat, NEW b \in Nat, a % n = 0
    PROVE  a \div n = b \div n <=> a <= b /\ b < a + n
<1> DEFINE q == a \div n
           s == b \div n
           r == b % n
<1>1. q \in Nat /\ a = n * q
  BY Division
<1>2. s \in Nat /\ r \in 0 .. n - 1 /\ b = n * s + r
  BY Division
<1> HIDE DEF q, s, r
<1>3. n * q \in Nat /\ n * s \in Nat
  BY <1>1, <1>2
<1>4. ASSUME q = s PROVE a <= b /\ b < a + n
  BY <1>1, <1>2, <1>3, <1>4
<1>5. ASSUME a <= b, b < a + n PROVE q = s
  <2>1. q <= s
    <3>1. n * q + 0 <= n * s + r /\ r < n
      BY <1>1, <1>2, <1>3, <1>5
    <3> QED
      BY <1>1, <1>2, <3>1, QuotientOrder
  <2>2. s <= q
    <3>1. n * s + 0 <= n * q + (n - 1) /\ n - 1 \in Nat /\ n - 1 < n
      BY <1>1, <1>2, <1>3, <1>5
    <3> QED
      BY <1>1, <1>2, <3>1, QuotientOrder
  <2> QED
    BY <1>1, <1>2, <2>1, <2>2
<1> QED
  BY <1>4, <1>5 DEF q, s

\* A positive multiple of n is at least n.
LEMMA MultipleAtLeast ==
    ASSUME NEW n \in Nat \ {0}, NEW a \in Nat \ {0}, a % n = 0
    PROVE  n <= a
<1> DEFINE q == a \div n
<1>1. q \in Nat /\ a = n * q
  <2>1. a \in Nat
    OBVIOUS
  <2> QED
    BY <2>1, Division
<1> HIDE DEF q
<1>2. q >= 1
  <2>1. q # 0
    <3> SUFFICES ASSUME q = 0 PROVE FALSE
      OBVIOUS
    <3>1. n * q = 0
      BY <1>1
    <3> QED
      BY <1>1, <3>1
  <2> QED
    BY <1>1, <2>1
<1>3. n * 1 <= n * q
  BY <1>1, <1>2, ProductMonotone
<1>4. n * q \in Nat
  BY <1>1
<1> QED
  BY <1>1, <1>3, <1>4
===========================================================================
