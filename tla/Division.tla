------------------------------ MODULE Division ------------------------------
(***************************************************************************)
(* Quotients and remainders of natural numbers, which the proofs about     *)
(* pages, ring slots, sectors and lines of text rest on.                   *)
(***************************************************************************)
EXTENDS Integers, TLAPS

\* What \div and % of a natural number are.
LEMMA Quotient ==
    ASSUME NEW a \in Nat, NEW d \in Nat \ {0}
    PROVE  /\ a \div d \in Nat
           /\ a % d \in 0..(d - 1)
           /\ a = d * (a \div d) + (a % d)
  OBVIOUS

\* Products with the same positive factor are ordered as the other factors.
LEMMA FactorOrder ==
    ASSUME NEW d \in Nat \ {0}, NEW a \in Nat, NEW b \in Nat
    PROVE  /\ d * a < d * b <=> a < b
           /\ d * a <= d * b <=> a <= b
  OBVIOUS

LEMMA QuotientOfProduct ==
    ASSUME NEW d \in Nat \ {0}, NEW a \in Nat
    PROVE  (a * d) \div d = a
<1>1. a * d \in Nat /\ a * d = d * a
  OBVIOUS
<1> DEFINE q == (a * d) \div d
           r == (a * d) % d
<1>2. q \in Nat /\ r \in 0..(d - 1) /\ d * a = d * q + r
  BY <1>1, Quotient
<1> HIDE DEF q, r
<1>3. d * q <= d * a /\ d * a < d * (q + 1)
  BY <1>2
<1>4. q <= a /\ a < q + 1
  BY <1>2, <1>3, FactorOrder
<1>5. q = a
  BY <1>2, <1>4
<1> QED
  BY <1>5 DEF q

\* A quotient is monotonic.
LEMMA QuotientOrder ==
    ASSUME NEW d \in Nat \ {0}, NEW a \in Nat, NEW b \in Nat, a <= b
    PROVE  a \div d <= b \div d
<1> DEFINE q == a \div d
           r == a % d
           c == b \div d
           z == b % d
<1>1. q \in Nat /\ r \in 0..(d - 1) /\ a = d * q + r
  BY Quotient
<1>2. c \in Nat /\ z \in 0..(d - 1) /\ b = d * c + z
  BY Quotient
<1> HIDE DEF q, r, c, z
<1>3. d * q < d * (c + 1)
  BY <1>1, <1>2
<1>4. q < c + 1
  BY <1>1, <1>2, <1>3, FactorOrder
<1>5. q <= c
  BY <1>1, <1>2, <1>4
<1> QED
  BY <1>5 DEF q, c

\* Quotient and remainder are the only numbers that add up to the dividend.
LEMMA QuotientIs ==
    ASSUME NEW d \in Nat \ {0}, NEW q \in Nat, NEW r \in 0..(d - 1)
    PROVE  (d * q + r) \div d = q /\ (d * q + r) % d = r
<1> DEFINE a == d * q + r
           p == a \div d
           s == a % d
<1>1. a \in Nat /\ a = d * q + r
  OBVIOUS
<1>2. p \in Nat /\ s \in 0..(d - 1) /\ a = d * p + s
  BY <1>1, Quotient
<1> HIDE DEF a, p, s
<1>3. d * p < d * (q + 1) /\ d * q < d * (p + 1)
  BY <1>1, <1>2
<1>4. p < q + 1 /\ q < p + 1
  BY <1>2, <1>3, FactorOrder
<1>5. p = q
  BY <1>2, <1>4
<1>6. s = r
  BY <1>1, <1>2, <1>5
<1> QED
  BY <1>5, <1>6 DEF p, s, a

\* The remainder of the next number.
LEMMA NextRemainder ==
    ASSUME NEW d \in Nat \ {0}, NEW a \in Nat
    PROVE  ((a % d) + 1) % d = (a + 1) % d
<1>1. PICK q \in Nat, r \in 0..(d - 1) : a = d * q + r /\ a % d = r
  BY Quotient
<1>2. CASE r + 1 < d
  <2>1. r + 1 \in 0..(d - 1) /\ 0 \in Nat /\ a + 1 = d * q + (r + 1) /\ r + 1 = d * 0 + (r + 1)
    BY <1>1, <1>2
  <2>2. (d * q + (r + 1)) % d = r + 1 /\ (d * 0 + (r + 1)) % d = r + 1
    BY <2>1, QuotientIs
  <2> QED
    BY <1>1, <2>1, <2>2
<1>3. CASE r + 1 = d
  <2>1. 0 \in 0..(d - 1) /\ q + 1 \in Nat /\ 1 \in Nat /\ a + 1 = d * (q + 1) + 0
        /\ r + 1 = d * 1 + 0
    BY <1>1, <1>3
  <2>2. (d * (q + 1) + 0) % d = 0 /\ (d * 1 + 0) % d = 0
    BY <2>1, QuotientIs
  <2> QED
    BY <1>1, <2>1, <2>2
<1> QED
  BY <1>2, <1>3

\* Numbers that are less than the divisor apart have different remainders.
LEMMA RemaindersDiffer ==
    ASSUME NEW d \in Nat \ {0}, NEW a \in Nat, NEW b \in Nat, a < b, b - a < d
    PROVE  a % d # b % d
<1>1. PICK q \in Nat, r \in 0..(d - 1) : a = d * q + r /\ a % d = r
  BY Quotient
<1>2. PICK p \in Nat, s \in 0..(d - 1) : b = d * p + s /\ b % d = s
  BY Quotient
<1> SUFFICES ASSUME r = s PROVE FALSE
  BY <1>1, <1>2
<1>3. d * q < d * p /\ d * p < d * (q + 1)
  BY <1>1, <1>2
<1>4. q < p /\ p < q + 1
  BY <1>3, FactorOrder
<1> QED
  BY <1>4

=============================================================================
